----------------------------- MODULE StartupProofs -----------------------------
(***************************************************************************)
(* What main starts with, for every file of requirements, of clocks and of *)
(* site data: every date has one index and the trays cover what is         *)
(* required, up to the first cell of the header that is not a date; a      *)
(* clock is the number in its column; and the machines, and what is in the *)
(* books, are those the simulation is specified for.                       *)
(***************************************************************************)
EXTENDS Startup, FiniteSetTheorems, LaneLemmas

-----------------------------------------------------------------------------
(* The file of requirements. *)

\* The state of the parser: its variables are of their types, the columns come
\* after the rows, and a column is put once.
TypeOK ==
    /\ header \in Seq(Heading)
    /\ days \in Seq(Heading)
    /\ \A n \in DOMAIN mapping : mapping[n] \in Seq(Quantity)
    /\ column \in 0..Len(days)
    /\ pc \in {"header", "rows", "days", "done"}
    /\ pc \in {"header", "rows"} => column = 0 /\ DOMAIN tasks = {} /\ DOMAIN indexer = {}
    /\ pc = "done" => column = Len(days)

\* The dates stand in the columns of the header up to its first other cell.
Headed ==
    /\ Len(days) <= Len(header)
    /\ \A c \in 1..Len(header) :
          (\A i \in 1..c : header[i] \in Date) => c \in 1..Len(days) /\ days[c] = header[c]

\* The last of the columns put so far of a date gave the date its tasks.
LastColumnCounts ==
    \A i \in 1..column :
       (\A j \in i + 1..column : days[j] # days[i])
          => days[i] \in DOMAIN tasks /\ tasks[days[i]] = TasksOf(i)

\* The indexes are the numbers below that of the dates, and name no other dates.
Numbered ==
    /\ IsFiniteSet(DOMAIN tasks)
    /\ DaysAreIndexed
    /\ \A i \in DOMAIN indexer : indexer[i] \in DOMAIN tasks

\* When no date is repeated, the columns were numbered as they stand.
Columned ==
    (\A i, j \in 1..Len(days) : days[i] = days[j] => i = j)
       => /\ DOMAIN tasks = {days[j] : j \in 1..column}
          /\ DOMAIN indexer = 0..column - 1
          /\ \A i \in 0..column - 1 : indexer[i] = days[i + 1]

IInv == TypeOK /\ Headed /\ LastColumnCounts /\ Numbered /\ Columned

\* A sequence of limited length is a sequence.
LEMMA UpTo == ASSUME NEW S, NEW n \in Nat, NEW s \in SeqUpTo(S, n) PROVE s \in Seq(S)
  BY DEF SeqUpTo

\* The trays for a number of parts hold all of them, and none stays empty.
LEMMA TraysCover ==
    ASSUME NEW parts \in Nat, CAPACITY \in Nat \ {0}
    PROVE  /\ parts <= Trays(parts) * CAPACITY
           /\ Trays(parts) * CAPACITY < parts + CAPACITY
<1> DEFINE q == parts \div CAPACITY
           r == parts % CAPACITY
<1>1. q \in Nat /\ r \in 0..CAPACITY - 1 /\ parts = q * CAPACITY + r
  BY SMT
<1>2. (q + 1) * CAPACITY = q * CAPACITY + CAPACITY
  BY <1>1, SMT
<1>3. q * CAPACITY \in Int
  BY <1>1, SMT
<1>4. Trays(parts) = IF r > 0 THEN q + 1 ELSE q
  BY <1>1 DEF Trays
<1> HIDE DEF q, r
<1>5. CASE r > 0
  <2>1. Trays(parts) * CAPACITY = q * CAPACITY + CAPACITY
    BY <1>2, <1>4, <1>5
  <2> QED
    BY <2>1, <1>1, <1>3, <1>5
<1>6. CASE r = 0
  <2>1. Trays(parts) * CAPACITY = q * CAPACITY
    BY <1>1, <1>4, <1>6
  <2> QED
    BY <2>1, <1>1, <1>3, <1>6
<1> QED
  BY <1>1, <1>5, <1>6

\* What is required in a column is a number, also where the row has ended.
LEMMA CellNat ==
    ASSUME RequirementsAssumption, TypeOK, NEW n \in DOMAIN mapping, NEW i \in Nat \ {0}
    PROVE  Cell(n, i) \in Nat
<1>1. mapping[n] \in Seq(Quantity) /\ Quantity \subseteq Nat
  BY DEF RequirementsAssumption, TypeOK
<1> SUFFICES ASSUME i \in 1..Len(mapping[n])
             PROVE  mapping[n][i] \in Nat
  BY DEF Cell
<1>2. mapping[n][i] \in Quantity
  BY <1>1
<1> QED
  BY <1>1, <1>2

\* The invariant holds before the first row is read.
THEOREM InitIInv == ASSUME RequirementsAssumption, Init PROVE IInv
<1>1. <<>> \in Seq(Heading) /\ Len(<<>>) = 0
  OBVIOUS
<1>2. TypeOK
  BY <1>1 DEF Init, TypeOK
<1>3. Headed
  BY <1>1 DEF Init, Headed
<1>4. LastColumnCounts
  BY DEF Init, LastColumnCounts
<1>5. DOMAIN tasks = {} /\ DOMAIN indexer = {}
  BY DEF Init
<1>6. Cardinality(DOMAIN tasks) = 0 /\ IsFiniteSet(DOMAIN tasks)
  BY <1>5, FS_EmptySet
<1>7. Numbered
  BY <1>5, <1>6 DEF Numbered, DaysAreIndexed
<1>8. Columned
  BY <1>5 DEF Columned, Init
<1> QED
  BY <1>2, <1>3, <1>4, <1>7, <1>8 DEF IInv

\* A cell behind the first columns moves none of them.
LEMMA HeadedStep ==
    ASSUME TypeOK, Headed, NEW cell \in Heading, header' = Append(header, cell),
           days' = Append(days, cell) \/ (cell \notin Date /\ days' = days)
    PROVE  Headed'
<1>1. /\ Len(header') = Len(header) + 1 /\ header'[Len(header) + 1] = cell
      /\ \A i \in 1..Len(header) : header'[i] = header[i]
      /\ Len(header) \in Nat /\ Len(days) \in Nat
  BY DEF TypeOK
<1>2. /\ Len(days') \in {Len(days), Len(days) + 1}
      /\ \A i \in 1..Len(days) : days'[i] = days[i]
      /\ cell \in Date => Len(days') = Len(days) + 1 /\ days'[Len(days) + 1] = cell
  <2>0. days \in Seq(Heading)
    BY DEF TypeOK
  <2>1. CASE days' = Append(days, cell)
    BY <2>0, <2>1
  <2>2. CASE cell \notin Date /\ days' = days
    BY <2>0, <2>2
  <2> QED
    BY <2>1, <2>2
<1>3. ASSUME NEW c \in 1..Len(header'), \A i \in 1..c : header'[i] \in Date
      PROVE  c \in 1..Len(days') /\ days'[c] = header'[c]
  <2>1. CASE c \in 1..Len(header)
    <3>1. \A i \in 1..c : header[i] \in Date
      BY <1>1, <1>3, <2>1
    <3>2. c \in 1..Len(days) /\ days[c] = header[c]
      BY <2>1, <3>1 DEF Headed
    <3> QED
      BY <1>1, <1>2, <2>1, <3>2
  <2>2. CASE c = Len(header) + 1
    <3>1. \A i \in 1..Len(header) : header[i] \in Date
      BY <1>1, <1>3, <2>2
    <3>2. Len(header) # 0 => Len(header) \in 1..Len(days)
      BY <1>1, <3>1 DEF Headed
    <3>3. Len(days) = Len(header)
      BY <1>1, <3>2 DEF Headed
    <3>4. cell \in Date
      BY <1>1, <1>3, <2>2
    <3> QED
      BY <1>1, <1>2, <2>2, <3>3, <3>4
  <2> QED
    BY <1>1, <2>1, <2>2
<1>4. Len(days') <= Len(header')
  BY <1>1, <1>2 DEF Headed
<1> QED
  BY <1>3, <1>4 DEF Headed

\* While the header is read no column is put.
LEMMA NothingPut ==
    ASSUME IInv, pc \in {"header", "rows"}, UNCHANGED <<column, tasks, indexer>>
    PROVE  LastColumnCounts' /\ Numbered' /\ Columned'
<1>1. column' = 0 /\ DOMAIN tasks' = {} /\ DOMAIN indexer' = {}
  BY DEF IInv, TypeOK
<1>2. LastColumnCounts'
  BY <1>1 DEF LastColumnCounts
<1>3. Numbered'
  BY DEF IInv, Numbered, DaysAreIndexed
<1>4. Columned'
  BY <1>1 DEF Columned
<1> QED
  BY <1>2, <1>3, <1>4

\* A cell of the header keeps the invariant.
LEMMA HeadingStep ==
    ASSUME RequirementsAssumption, IInv, NEW cell \in Heading,
           ReadHeading(cell) \/ ReadLastHeading(cell)
    PROVE  IInv'
<1>1. /\ header' = Append(header, cell)
      /\ days' = Append(days, cell) \/ (cell \notin Date /\ days' = days)
      /\ pc = "header" /\ pc' \in {"header", "rows"}
      /\ UNCHANGED <<mapping, column, tasks, indexer>>
  BY DEF ReadHeading, ReadLastHeading, DaysWith
<1>2. header' \in Seq(Heading) /\ days' \in Seq(Heading)
  BY <1>1 DEF IInv, TypeOK
<1>3. TypeOK'
  BY <1>1, <1>2 DEF IInv, TypeOK
<1>4. Headed'
  BY <1>1, HeadedStep DEF IInv
<1> QED
  BY <1>1, <1>3, <1>4, NothingPut DEF IInv

\* Reading a row keeps the invariant: no column was put yet.
LEMMA ReadRowStep ==
    ASSUME RequirementsAssumption, IInv, NEW n \in Name,
           NEW quantities \in SeqUpTo(Quantity, MaxDays), ReadRow(n, quantities)
    PROVE  IInv'
<1>1. quantities \in Seq(Quantity)
  BY UpTo DEF RequirementsAssumption
<1>2. DOMAIN mapping' = DOMAIN mapping \cup {n}
  BY DEF ReadRow, Extended
<1>4. ASSUME NEW x \in DOMAIN mapping'
      PROVE  mapping'[x] \in Seq(Quantity)
  <2>1. mapping'[x] = IF x = n THEN quantities ELSE mapping[x]
    BY <1>4 DEF ReadRow, Extended
  <2>2. x # n => mapping[x] \in Seq(Quantity)
    BY <1>2, <1>4 DEF IInv, TypeOK
  <2> QED
    BY <1>1, <2>1, <2>2
<1>5. TypeOK'
  BY <1>2, <1>4 DEF IInv, TypeOK, ReadRow
<1>3. Headed'
  BY DEF IInv, Headed, ReadRow
<1> QED
  BY <1>3, <1>5, NothingPut DEF IInv, ReadRow

\* A step that only moves on to the next loop keeps the invariant.
LEMMA SamePlace ==
    ASSUME IInv, UNCHANGED <<header, days, mapping, column, tasks, indexer>>, TypeOK'
    PROVE  IInv'
<1>0. Headed'
  BY DEF IInv, Headed
<1>1. LastColumnCounts'
  <2>1. \A i \in 1..column : TasksOf(i)' = TasksOf(i)
    BY DEF TasksOf, Cell
  <2> QED
    BY <2>1 DEF IInv, LastColumnCounts
<1>2. Numbered'
  BY DEF IInv, Numbered, DaysAreIndexed
<1>3. Columned'
  BY DEF IInv, Columned
<1> QED
  BY <1>0, <1>1, <1>2, <1>3 DEF IInv

\* After a column is put its date has an index of its own, as the others have.
LEMMA PutNumbers ==
    ASSUME Numbered, NEW d, tasks' = Extended(tasks, d, TasksOf(column + 1)), indexer' = Indexed(d)
    PROVE  Numbered'
<1> DEFINE n == Cardinality(DOMAIN tasks)
<1>1. DOMAIN tasks' = DOMAIN tasks \cup {d}
  BY DEF Extended
<1>2. IsFiniteSet(DOMAIN tasks) /\ n \in Nat
  BY FS_CardinalityType DEF Numbered
<1>3. /\ IsFiniteSet(DOMAIN tasks')
      /\ Cardinality(DOMAIN tasks') = IF d \in DOMAIN tasks THEN n ELSE n + 1
  BY <1>1, <1>2, FS_AddElement
<1>4. CASE d \in DOMAIN tasks
  <2>1. n # 0
    BY <1>2, <1>4, FS_EmptySet
  <2>2. DOMAIN tasks \cup {d} = DOMAIN tasks
    BY <1>4
  <2>3. indexer' = indexer
    BY <1>2, <2>1, <2>2 DEF Indexed, Numbered, DaysAreIndexed
  <2> QED
    BY <1>1, <1>3, <2>2, <2>3 DEF Numbered, DaysAreIndexed
<1>5. CASE d \notin DOMAIN tasks
  <2>1. Cardinality(DOMAIN tasks \cup {d}) - 1 = n
    BY <1>1, <1>2, <1>3, <1>5
  <2>2. n \notin DOMAIN indexer /\ DOMAIN indexer = 0..n - 1
    BY <1>2 DEF Numbered, DaysAreIndexed
  <2>3. indexer' = Extended(indexer, n, d)
    BY <2>1, <2>2 DEF Indexed
  <2>4. DOMAIN indexer' = 0..n
    BY <1>2, <2>2, <2>3 DEF Extended
  <2>5. indexer'[n] = d /\ \A i \in 0..n - 1 : indexer'[i] = indexer[i]
    BY <1>2, <2>2, <2>3 DEF Extended
  <2>6. \A i \in 0..n - 1 : indexer[i] # d
    BY <1>5, <2>2 DEF Numbered, DaysAreIndexed
  <2> QED
    BY <1>1, <1>2, <1>3, <1>5, <2>2, <2>4, <2>5, <2>6 DEF Numbered, DaysAreIndexed
<1> QED
  BY <1>4, <1>5

\* The tasks of a column that is put stand until its date comes again.
LEMMA PutCovers ==
    ASSUME IInv, Put
    PROVE  LastColumnCounts'
<1> DEFINE d == days[column + 1]
<1>1. /\ column' = column + 1 /\ days' = days /\ mapping' = mapping
      /\ tasks' = Extended(tasks, d, TasksOf(column + 1))
      /\ column \in Nat
  BY DEF Put, IInv, TypeOK
<1>2. \A i : TasksOf(i)' = TasksOf(i)
  BY <1>1 DEF TasksOf, Cell
<1>3. d \in DOMAIN tasks' /\ tasks'[d] = TasksOf(column + 1)
  BY <1>1 DEF Extended
<1>4. \A e \in DOMAIN tasks : e # d => e \in DOMAIN tasks' /\ tasks'[e] = tasks[e]
  BY <1>1 DEF Extended
<1> SUFFICES ASSUME NEW i \in 1..column + 1,
                    \A j \in i + 1..column + 1 : days[j] # days[i]
             PROVE  days[i] \in DOMAIN tasks' /\ tasks'[days[i]] = TasksOf(i)
  BY <1>1, <1>2 DEF LastColumnCounts
<1>5. CASE i = column + 1
  BY <1>3, <1>5
<1>6. CASE i # column + 1
  <2>1. i \in 1..column /\ column + 1 \in i + 1..column + 1
    BY <1>1, <1>6
  <2>2. days[i] # d /\ \A j \in i + 1..column : days[j] # days[i]
    BY <1>1, <2>1
  <2>3. days[i] \in DOMAIN tasks /\ tasks[days[i]] = TasksOf(i)
    BY <2>1, <2>2 DEF IInv, LastColumnCounts
  <2> QED
    BY <1>4, <2>2, <2>3
<1> QED
  BY <1>5, <1>6

\* A column is put at the index that is its own when no date is repeated.
LEMMA PutColumns ==
    ASSUME IInv, Put
    PROVE  Columned'
<1> DEFINE d == days[column + 1]
<1>1. /\ column' = column + 1 /\ days' = days /\ column \in Nat /\ column < Len(days)
      /\ tasks' = Extended(tasks, d, TasksOf(column + 1))
      /\ indexer' = Indexed(d)
  BY DEF Put, IInv, TypeOK
<1> SUFFICES ASSUME \A i, j \in 1..Len(days) : days[i] = days[j] => i = j
             PROVE  /\ DOMAIN tasks' = {days[j] : j \in 1..column + 1}
                    /\ DOMAIN indexer' = 0..column
                    /\ \A i \in 0..column : indexer'[i] = days[i + 1]
  BY <1>1 DEF Columned
<1>2. /\ DOMAIN tasks = {days[j] : j \in 1..column}
      /\ DOMAIN indexer = 0..column - 1
      /\ \A i \in 0..column - 1 : indexer[i] = days[i + 1]
  BY DEF IInv, Columned
<1>3. d \notin DOMAIN tasks
  BY <1>1, <1>2
<1>4. DOMAIN tasks' = DOMAIN tasks \cup {d}
  BY <1>1 DEF Extended
<1>5. Cardinality(DOMAIN tasks \cup {d}) - 1 = column
  <2>1. IsFiniteSet(DOMAIN tasks) /\ Cardinality(DOMAIN tasks) \in Nat
    BY FS_CardinalityType DEF IInv, Numbered
  <2>2. 0..Cardinality(DOMAIN tasks) - 1 = 0..column - 1
    BY <1>2 DEF IInv, Numbered, DaysAreIndexed
  <2>3. Cardinality(DOMAIN tasks) = column
    BY <1>1, <2>1, <2>2
  <2>4. Cardinality(DOMAIN tasks \cup {d}) = Cardinality(DOMAIN tasks) + 1
    BY <1>3, <2>1, FS_AddElement
  <2> QED
    BY <1>1, <2>3, <2>4
<1>6. indexer' = Extended(indexer, column, d)
  BY <1>1, <1>2, <1>5 DEF Indexed
<1>7. \A i \in 0..column : indexer'[i] = days[i + 1]
  BY <1>1, <1>2, <1>6 DEF Extended
<1>8. DOMAIN indexer' = 0..column
  BY <1>1, <1>2, <1>6 DEF Extended
<1>9. DOMAIN tasks' = {days[j] : j \in 1..column + 1}
  <2>1. 1..column + 1 = (1..column) \cup {column + 1}
    BY <1>1
  <2> QED
    BY <1>2, <1>4, <2>1
<1> QED
  BY <1>7, <1>8, <1>9

\* Every step keeps the invariant.
THEOREM NextIInv == ASSUME RequirementsAssumption, IInv, [Next]_vars PROVE IInv'
<1>0. ASSUME NEW cell \in Heading, ReadHeading(cell) \/ ReadLastHeading(cell)
      PROVE  IInv'
  BY <1>0, HeadingStep
<1>6. CASE EndOfHeader
  <2>1. TypeOK'
    BY <1>6 DEF EndOfHeader, IInv, TypeOK
  <2> QED
    BY <1>6, <2>1, SamePlace DEF EndOfHeader
<1>1. ASSUME NEW n \in Name, NEW quantities \in SeqUpTo(Quantity, MaxDays),
             ReadRow(n, quantities)
      PROVE  IInv'
  BY <1>1, ReadRowStep
<1>2. CASE EndOfFile
  <2>1. TypeOK'
    BY <1>2 DEF EndOfFile, IInv, TypeOK
  <2> QED
    BY <1>2, <2>1, SamePlace DEF EndOfFile
<1>3. CASE Put
  <2>1. TypeOK'
    BY <1>3 DEF Put, IInv, TypeOK
  <2>2. Numbered'
    BY <1>3, PutNumbers DEF Put, IInv
  <2>3. Headed'
    BY <1>3 DEF Put, IInv, Headed
  <2> QED
    BY <1>3, <2>1, <2>2, <2>3, PutCovers, PutColumns DEF IInv
<1>4. CASE Done
  <2>1. TypeOK'
    BY <1>4 DEF Done, IInv, TypeOK
  <2> QED
    BY <1>4, <2>1, SamePlace DEF Done
<1>5. CASE UNCHANGED vars
  <2>1. TypeOK'
    BY <1>5 DEF vars, IInv, TypeOK
  <2> QED
    BY <1>5, <2>1, SamePlace DEF vars
<1> QED
  BY <1>0, <1>1, <1>2, <1>3, <1>4, <1>5, <1>6 DEF Next

\* The invariant holds at every moment of parseRequirement2.
THEOREM Invariance == Spec => []IInv
  BY InitIInv, NextIInv, RequirementsAssumption, PTL DEF Spec

\* Every date that was put has one index, and the indexes have no gap, whatever
\* dates the header repeats (TasksManager::put).
THEOREM EveryDateIndexed == Spec => []DaysAreIndexed
<1>1. IInv => DaysAreIndexed
  BY DEF IInv, Numbered
<1> QED
  BY <1>1, Invariance, PTL

\* The index of a date is its column unless the header repeats a date, so that
\* the deadlines, given by the column, are those of the days.
THEOREM IndexesAreColumns == Spec => []IndexIsColumn
<1>1. ASSUME IInv PROVE IndexIsColumn
  <2> SUFFICES ASSUME \A i, j \in 1..Len(days) : days[i] = days[j] => i = j,
                      NEW i \in DOMAIN indexer
               PROVE  i + 1 \in DOMAIN days /\ indexer[i] = days[i + 1]
    BY DEF IndexIsColumn
  <2>1. DOMAIN indexer = 0..column - 1 /\ \A k \in 0..column - 1 : indexer[k] = days[k + 1]
    BY <1>1 DEF IInv, Columned
  <2>2. column \in 0..Len(days) /\ DOMAIN days = 1..Len(days) /\ Len(days) \in Nat
    BY <1>1 DEF IInv, TypeOK
  <2> QED
    BY <2>1, <2>2
<1> QED
  BY <1>1, Invariance, PTL

\* The trays that are required hold the parts of the file, in every column that
\* no later one replaces and no cell of text comes before, and none of them
\* stays empty (parseRequirement2).
THEOREM EveryOrderCovered == Spec => []OrdersCovered
<1>1. ASSUME IInv PROVE OrdersCovered
  <2> SUFFICES ASSUME pc = "done", NEW c \in 1..Len(header), NEW n \in Model \cap DOMAIN mapping,
                      \A i \in 1..c : header[i] \in Date,
                      \A j \in c + 1..Len(days) : days[j] # header[c]
               PROVE  LET parts == tasks[header[c]][n] * CAPACITY
                      IN Cell(n, c) <= parts /\ parts < Cell(n, c) + CAPACITY
    BY DEF OrdersCovered
  <2>1. column = Len(days)
    BY <1>1 DEF IInv, TypeOK
  <2>2. c \in 1..Len(days) /\ days[c] = header[c]
    BY <1>1 DEF IInv, Headed
  <2>3. tasks[header[c]] = TasksOf(c)
    BY <1>1, <2>1, <2>2 DEF IInv, LastColumnCounts
  <2>4. tasks[header[c]][n] = Trays(Cell(n, c))
    BY <2>3 DEF TasksOf
  <2>5. Cell(n, c) \in Nat
    BY <1>1, <2>2, CellNat, RequirementsAssumption DEF IInv
  <2> QED
    BY <2>4, <2>5, TraysCover, RequirementsAssumption DEF RequirementsAssumption
<1> QED
  BY <1>1, Invariance, PTL

-----------------------------------------------------------------------------
(* The file of clocks. *)

\* The clocks are made of the rows that were read.
ClocksRead ==
    /\ clocks = <<>> \/ clocks = [m \in Machines |-> ClocksOf(cells[m])]
    /\ clocks # <<>> => cells \in [Machines -> ClockRow]

\* The largest of one number is the number.
LEMMA MaxOfOne == ASSUME NEW i \in Nat PROVE Max({i}) = i
  BY DEF Max

\* A row is cut by a blank cell at most.
LEMMA CutIsPrefix ==
    ASSUME StartupAssumption, NEW row \in ClockRow
    PROVE  /\ row \in Seq(Nat \cup {Blank})
           /\ DOMAIN Cut(row) \subseteq DOMAIN row
           /\ \A i \in DOMAIN row : i \in DOMAIN Cut(row) \/ row[i] = Blank
<1>1. row \in Seq(Nat \cup {Blank})
  BY DEF StartupAssumption
<1>2. CASE row # <<>> /\ Last(row) = Blank
  <2>1. Cut(row) = [i \in 1..Len(row) - 1 |-> row[i]]
    BY <1>1, <1>2 DEF Cut, Front
  <2>2. DOMAIN Cut(row) = 1..Len(row) - 1 /\ DOMAIN row = 1..Len(row) /\ Len(row) \in Nat
    BY <1>1, <2>1
  <2>3. row[Len(row)] = Blank
    BY <1>2 DEF Last
  <2> QED
    BY <1>1, <2>2, <2>3
<1>3. CASE ~(row # <<>> /\ Last(row) = Blank)
  BY <1>1, <1>3 DEF Cut
<1> QED
  BY <1>2, <1>3

\* The columns of a model are its own one, and those behind the models if it
\* has id 0.
LEMMA ColumnsOfModel ==
    ASSUME StartupAssumption, NEW row \in ClockRow, NEW i \in DOMAIN ModelsFile,
           ModelsFile[i] # ModelZero \/ Len(row) <= Len(ModelsFile)
    PROVE  {j \in DOMAIN Cut(row) : IdOf(j) = ModelsFile[i]} = {i} \cap DOMAIN Cut(row)
<1>1. /\ ModelsFile \in Seq(Model) /\ i \in 1..Len(ModelsFile)
      /\ \A j \in 1..Len(ModelsFile) : ModelsFile[j] = ModelsFile[i] => j = i
  BY DEF StartupAssumption, IsInjective
<1>2. row \in Seq(Nat \cup {Blank}) /\ DOMAIN Cut(row) \subseteq 1..Len(row)
  BY CutIsPrefix
<1>3. IdOf(i) = ModelsFile[i]
  BY <1>1 DEF IdOf
<1>4. ASSUME NEW j \in DOMAIN Cut(row), IdOf(j) = ModelsFile[i]
      PROVE  j = i
  <2>1. j \in 1..Len(row)
    BY <1>2
  <2>2. CASE j <= Len(ModelsFile)
    BY <1>1, <1>4, <2>1, <2>2 DEF IdOf
  <2>3. CASE j > Len(ModelsFile)
    BY <1>1, <1>2, <1>4, <2>1, <2>3 DEF IdOf
  <2> QED
    BY <1>1, <1>2, <2>1, <2>2, <2>3
<1> QED
  BY <1>3, <1>4

\* The clock of a model is the number in its column, and -1 if there is none.
LEMMA ClockOfCell ==
    ASSUME StartupAssumption, NEW row \in ClockRow, NEW i \in DOMAIN ModelsFile,
           ModelsFile[i] # ModelZero \/ Len(row) <= Len(ModelsFile)
    PROVE  ClocksOf(row)[ModelsFile[i]] =
              IF i \in DOMAIN row /\ row[i] # Blank THEN row[i] ELSE -1
<1> DEFINE columns == {j \in DOMAIN Cut(row) : IdOf(j) = ModelsFile[i]}
<1>1. ModelsFile[i] \in Model /\ i \in Nat
  BY DEF StartupAssumption
<1>2. ClocksOf(row)[ModelsFile[i]] =
         IF columns = {} \/ row[Max(columns)] = Blank THEN -1 ELSE row[Max(columns)]
  BY <1>1 DEF ClocksOf
<1>3. columns = {i} \cap DOMAIN Cut(row)
  BY ColumnsOfModel
<1> HIDE DEF columns
<1>4. CASE i \in DOMAIN Cut(row)
  <2>1. columns = {i} /\ Max(columns) = i
    BY <1>1, <1>3, <1>4, MaxOfOne
  <2>2. i \in DOMAIN row
    BY <1>4, CutIsPrefix
  <2> QED
    BY <1>2, <2>1, <2>2
<1>5. CASE i \notin DOMAIN Cut(row)
  <2>1. columns = {}
    BY <1>3, <1>5
  <2>2. i \in DOMAIN row => row[i] = Blank
    BY <1>5, CutIsPrefix
  <2> QED
    BY <1>2, <2>1, <2>2
<1> QED
  BY <1>4, <1>5

\* Only the file of clocks sets the clocks.
LEMMA StepReads == ClocksRead /\ [StartupNext]_<<startupVars, vars>> => ClocksRead'
<1> SUFFICES ASSUME ClocksRead, [StartupNext]_<<startupVars, vars>>
             PROVE  ClocksRead'
  OBVIOUS
<1>1. ASSUME NEW rowsRead \in [Machines -> ClockRow], LoadClocks(rowsRead)
      PROVE  ClocksRead'
  BY <1>1 DEF LoadClocks, ClocksRead
<1>2. CASE UNCHANGED <<cells, clocks>>
  BY <1>2 DEF ClocksRead
<1>3. CASE \A rowsRead \in [Machines -> ClockRow] : ~LoadClocks(rowsRead)
  <2>1. UNCHANGED <<cells, clocks>>
    BY <1>3 DEF StartupNext, CannotOpen, GiveUp, LoadConstants, LoadMachine, RefuseMachine,
                LineLoaded, EnterMachine, EnterBooks, ReadRequirements, startupVars, clockVars
  <2> QED
    BY <1>2, <2>1
<1> QED
  BY <1>1, <1>3

\* For every file of clocks the clock of a machine for a model is the number in
\* the column of the model, and -1 if there is none; a row that is too long
\* spoils only the clock of the model with id 0 (loader.cpp:83-97).
THEOREM ClocksAreTheirCells == ASSUME StartupAssumption PROVE StartupSpec => []ClockIsItsCell
<1>1. StartupInit => ClocksRead
  BY DEF StartupInit, ClocksRead
<1>2. ClocksRead => ClockIsItsCell
  <2> SUFFICES ASSUME ClocksRead, clocks # <<>>, NEW m \in Machines, NEW i \in DOMAIN ModelsFile,
                      ModelsFile[i] # ModelZero \/ Len(cells[m]) <= Len(ModelsFile)
               PROVE  clocks[m][ModelsFile[i]] =
                         IF i \in DOMAIN cells[m] /\ cells[m][i] # Blank THEN cells[m][i] ELSE -1
    BY DEF ClockIsItsCell
  <2>1. clocks[m] = ClocksOf(cells[m]) /\ cells[m] \in ClockRow
    BY DEF ClocksRead
  <2> QED
    BY <2>1, ClockOfCell
<1> QED
  BY <1>1, <1>2, StepReads, PTL DEF StartupSpec

-----------------------------------------------------------------------------
(* The requirements are read as Requirements has it. *)

\* Before and beside the file of requirements main leaves what the parser keeps
\* alone: what is proved of the parser holds in the program (fits_core.cpp:2061).
THEOREM StartupReads == StartupSpec => Spec
<1>1. StartupInit => Init
  BY DEF StartupInit
<1>2. [StartupNext]_<<startupVars, vars>> => [Next]_vars
  BY DEF StartupNext, CannotOpen, GiveUp, LoadConstants, LoadMachine, RefuseMachine,
         LineLoaded, LoadClocks, EnterMachine, EnterBooks, ReadRequirements
<1> QED
  BY <1>1, <1>2, PTL DEF StartupSpec, Spec

-----------------------------------------------------------------------------
(* The uids of the site data. *)

\* f counts the trays of the first records of s.
Counts(s, f) == f = [i \in 0..Len(s) |-> IF i = 0 THEN 0 ELSE f[i - 1] + Len(Kept(s[i]))]

Uids(s) == CHOOSE f : Counts(s, f)

LEMMA KeptType == ASSUME NEW r \in FileRecord PROVE Kept(r) \in Seq(Part) /\ Len(Kept(r)) \in Nat
<1>1. r.input \in Seq(Part) /\ r.producting \in Seq(Part) /\ r.output \in Seq(Part)
  BY DEF FileRecord
<1>2. Kept(r) \in Seq(Part)
  BY <1>1 DEF Kept
<1> QED
  BY <1>2, LenProperties

\* There is such a count, and it goes on from record to record.
LEMMA UidsCount ==
    ASSUME NEW s \in Seq(FileRecord)
    PROVE  /\ Uids(s) \in [0..Len(s) -> Nat]
           /\ Uids(s)[0] = 0
           /\ \A i \in 1..Len(s) : Uids(s)[i] = Uids(s)[i - 1] + Len(Kept(s[i]))
<1> DEFINE n == Len(s)
           step == [i \in 1..n |-> [x \in Nat |-> x + Len(Kept(s[i]))]]
<1>1. n \in Nat /\ \A i \in 1..n : Len(Kept(s[i])) \in Nat
  BY LenProperties, KeptType
<1>2. step \in [1..n -> [Nat -> Nat]]
  BY <1>1
<1>3. PICK f : Computes(f, n, Nat, 0, step)
  <2> HIDE DEF step, n
  <2>1. 0 \in Nat
    OBVIOUS
  <2> QED
    BY <1>1, <1>2, <2>1, Recursion, Zenon
<1>4. Counts(s, f)
  <2>1. f \in [0..n -> Nat] /\ f[0] = 0 /\ \A i \in 1..n : f[i] = step[i][f[i - 1]]
    BY <1>3 DEF Computes
  <2>2. ASSUME NEW i \in 1..n PROVE f[i] = f[i - 1] + Len(Kept(s[i]))
    <3>2. step[i] = [x \in Nat |-> x + Len(Kept(s[i]))]
      OBVIOUS
    <3> HIDE DEF step, n
    <3>0. i \in 1..n /\ n \in Nat /\ f \in [0..n -> Nat]
      BY <1>1, <2>1
    <3>1. i - 1 \in 0..n /\ f[i - 1] \in Nat
      BY <3>0
    <3>3. f[i] = step[i][f[i - 1]]
      BY <2>1
    <3> QED
      BY <3>1, <3>2, <3>3
  <2> HIDE DEF step
  <2> QED
    BY <1>1, <2>1, <2>2 DEF Counts
<1>5. PICK g : g = Uids(s) /\ Counts(s, g)
  BY <1>4 DEF Uids
<1>6. DOMAIN g = 0..n /\ g[0] = 0 /\ \A i \in 1..n : g[i] = g[i - 1] + Len(Kept(s[i]))
  BY <1>1, <1>5 DEF Counts
<1>7. \A i \in 0..n : g[i] \in Nat
  <2> DEFINE S == {i \in 0..n : g[i] \in Nat}
  <2>1. 0 \in S /\ \A i \in 0..n - 1 : i \in S => i + 1 \in S
    BY <1>1, <1>6
  <2> HIDE DEF S, n
  <2>2. \A i \in 0..n : i \in S
    BY <1>1, <2>1, CountUp
  <2> QED
    BY <2>2 DEF S
<1>8. g \in [0..n -> Nat]
  <2>1. g = [i \in 0..n |-> g[i]]
    BY <1>5 DEF Counts
  <2> QED
    BY <1>7, <2>1
<1> QED
  BY <1>5, <1>6, <1>8

\* The uids of the first records do not depend on those that follow.
LEMMA UidsStay ==
    ASSUME NEW s \in Seq(FileRecord), NEW r \in FileRecord
    PROVE  \A i \in 0..Len(s) : Uids(Append(s, r))[i] = Uids(s)[i]
<1> DEFINE t == Append(s, r)
           S == {i \in 0..Len(s) : Uids(t)[i] = Uids(s)[i]}
<1>1. /\ t \in Seq(FileRecord) /\ Len(t) = Len(s) + 1 /\ Len(s) \in Nat
      /\ \A i \in 1..Len(s) : t[i] = s[i]
  BY LenProperties
<1> HIDE DEF t
<1>a. /\ Uids(t)[0] = 0 /\ \A i \in 1..Len(t) : Uids(t)[i] = Uids(t)[i - 1] + Len(Kept(t[i]))
      /\ Uids(s)[0] = 0 /\ \A i \in 1..Len(s) : Uids(s)[i] = Uids(s)[i - 1] + Len(Kept(s[i]))
  BY <1>1, UidsCount
<1>2. 0 \in S
  BY <1>1, <1>a
<1>3. ASSUME NEW i \in 0..Len(s) - 1, i \in S PROVE i + 1 \in S
  <2>1. i + 1 \in 1..Len(s) /\ i + 1 \in 1..Len(t) /\ i + 1 - 1 = i
    BY <1>1
  <2>2. Uids(t)[i + 1] = Uids(t)[i] + Len(Kept(t[i + 1]))
    BY <1>a, <2>1
  <2>3. Uids(s)[i + 1] = Uids(s)[i] + Len(Kept(s[i + 1]))
    BY <1>a, <2>1
  <2> QED
    BY <1>1, <1>3, <2>1, <2>2, <2>3
<1> HIDE DEF S
<1>4. \A i \in 0..Len(s) : i \in S
  BY <1>1, <1>2, <1>3, CountUp
<1> QED
  BY <1>4 DEF S, t

LEMMA UidsBeforeIs == ASSUME NEW m PROVE UidsBefore(m) = Uids(site)[m]
  BY DEF UidsBefore, Uids, Counts

-----------------------------------------------------------------------------
(* Lanes of new uids. *)

LEMMA NumbersType ==
    ASSUME NEW n \in Nat, NEW k \in Nat
    PROVE  /\ NumbersFrom(n, k) \in Seq(Nat)
           /\ Len(NumbersFrom(n, k)) = k
           /\ \A i \in 1..k : NumbersFrom(n, k)[i] = n + i
           /\ ToSet(NumbersFrom(n, k)) = n + 1..n + k
<1> DEFINE s == NumbersFrom(n, k)
<1>1. s \in [1..k -> Nat] /\ \A i \in 1..k : s[i] = n + i
  BY DEF NumbersFrom
<1>2. s \in Seq(Nat) /\ Len(s) = k /\ DOMAIN s = 1..k
  BY <1>1
<1>3. ToSet(s) = n + 1..n + k
  <2>1. \A j \in n + 1..n + k : j - n \in 1..k /\ n + (j - n) = j
    OBVIOUS
  <2>2. ToSet(s) = {s[i] : i \in 1..k}
    BY <1>2 DEF ToSet
  <2> HIDE DEF s
  <2>3. \A j \in n + 1..n + k : j \in ToSet(s)
    BY <1>1, <2>1, <2>2
  <2>4. \A j \in ToSet(s) : j \in n + 1..n + k
    BY <1>1, <2>2
  <2> QED
    BY <2>3, <2>4
<1> QED
  BY <1>1, <1>2, <1>3

\* Two lanes that were numbered one after the other are one.
LEMMA NumbersConcat ==
    ASSUME NEW n \in Nat, NEW a \in Nat, NEW b \in Nat
    PROVE  NumbersFrom(n, a) \o NumbersFrom(n + a, b) = NumbersFrom(n, a + b)
<1> DEFINE s == NumbersFrom(n, a)
           t == NumbersFrom(n + a, b)
           u == NumbersFrom(n, a + b)
<1>1. /\ s \in Seq(Nat) /\ Len(s) = a /\ \A i \in 1..a : s[i] = n + i
      /\ t \in Seq(Nat) /\ Len(t) = b /\ \A i \in 1..b : t[i] = n + a + i
      /\ u \in Seq(Nat) /\ Len(u) = a + b /\ \A i \in 1..a + b : u[i] = n + i
  <2>1. n + a \in Nat /\ a + b \in Nat
    OBVIOUS
  <2> QED
    BY <2>1, NumbersType
<1> HIDE DEF s, t, u
<1>2. PICK st : st = s \o t
  OBVIOUS
<1>3. /\ st \in Seq(Nat) /\ Len(st) = a + b
      /\ \A i \in 1..a + b : st[i] = IF i <= a THEN s[i] ELSE t[i - a]
  <2>1. s \in Seq(Nat) /\ t \in Seq(Nat) /\ Len(s) = a /\ Len(t) = b
    BY <1>1
  <2>2. /\ s \o t \in Seq(Nat) /\ Len(s \o t) = Len(s) + Len(t)
        /\ \A i \in 1..Len(s) + Len(t) : (s \o t)[i] = IF i <= Len(s) THEN s[i] ELSE t[i - Len(s)]
    BY <2>1, ConcatProperties
  <2> QED
    BY <1>2, <2>1, <2>2, Zenon
<1>4. ASSUME NEW i \in 1..a + b PROVE st[i] = u[i]
  <2>1. CASE i <= a
    BY <1>1, <1>3, <2>1
  <2>2. CASE i > a
    <3>1. i - a \in 1..b /\ n + a + (i - a) = n + i
      BY <2>2
    <3>2. st[i] = t[i - a]
      BY <1>3, <2>2
    <3> QED
      BY <1>1, <3>1, <3>2
  <2> QED
    BY <2>1, <2>2
<1>5. st = u
  BY <1>1, <1>3, <1>4, SeqEqual
<1> QED
  BY <1>2, <1>5 DEF s, t, u

LEMMA NoNumbers == ASSUME NEW n \in Nat PROVE NumbersFrom(n, 0) = <<>>
<1>1. NumbersFrom(n, 0) \in Seq(Nat) /\ Len(NumbersFrom(n, 0)) = 0
  BY NumbersType
<1> QED
  BY <1>1, EmptySeq

-----------------------------------------------------------------------------
(* The site data, from the file to the books. *)

\* The machines the loader makes.
LoadedRecord ==
    [state : {"S_ONLINE", "S_OFFLINE"}, mode : Model \cup {NoModel},
     COTarget : Model \cup {NoModel}, changeStatus : {"COS_KEEP"}, toIdle : Nat,
     status : {"MS_IDLE", "MS_WORKING", "MS_CO", "MS_BLOCKING"}, bufferSize : Nat,
     input : Seq(Nat), model : Seq(Nat), output : Seq(Nat)]

\* The machine made of the record at index m.
Made(m) == MachineOf(m, site[m + 1], Uids(site)[m])

\* The machines on line whose trays are entered.
EnteredMachines == {m \in 0..entered - 1 : site[m + 1].state = "S_ONLINE"}

\* The records read so far have become machines, and their trays have uids.
LineRead ==
    /\ site \in Seq(FileRecord) /\ Len(site) <= NumMachines
    /\ \A m \in 0..Len(site) - 1 : ~Refused(site[m + 1])
    /\ trays \in Seq(Part) /\ Len(trays) = Uids(site)[Len(site)]
    /\ line \in Seq(LoadedRecord) /\ Len(line) = Len(site)
    /\ entered \in 0..Len(site)
    /\ \A m \in 0..Len(site) - 1 :
          line[m + 1] = IF m \in EnteredMachines THEN Repaired(Made(m)) ELSE Made(m)

\* The books are made of the trays of the machines on line.
BooksMade ==
    /\ IsFiniteSet(jobs)
    /\ jobs = UNION {TraysOf(Made(m)) : m \in EnteredMachines}
    /\ SiteLoaded =>
          /\ jop = {<<trays[u].model, ProcessOfTray(u), u>> : u \in jobs}
          /\ gTasks = [t \in {trays[u].model : u \in jobs} |->
                          Cardinality({u \in jobs : trays[u].model = t})]

\* The stages come in their order.
StagesInOrder ==
    /\ stage \in {"changeOver", "models", "line", "clocks", "books", "shiftBook", "settings",
                  "requirements", "ended"}
    /\ stage \in {"clocks", "books"} \/ SiteLoaded => Len(site) = NumMachines
    /\ SiteLoaded => entered = Len(site)

SiteInv == LineRead /\ BooksMade /\ StagesInOrder

LEMMA InitSite == StartupInit => SiteInv
<1> SUFFICES ASSUME StartupInit PROVE SiteInv
  OBVIOUS
<1>1. site = <<>> /\ line = <<>> /\ trays = <<>> /\ entered = 0 /\ jobs = {} /\ stage = "changeOver"
  BY DEF StartupInit
<1>2. Len(site) = 0 /\ Uids(site)[0] = 0
  <2>1. site \in Seq(FileRecord)
    BY <1>1
  <2> QED
    BY <1>1, <2>1, UidsCount
<1>3. EnteredMachines = {}
  BY <1>1 DEF EnteredMachines
<1>4. LineRead
  BY <1>1, <1>2, StartupAssumption DEF LineRead
<1>5. BooksMade
  BY <1>1, <1>3, FS_EmptySet DEF BooksMade, SiteLoaded
<1> QED
  BY <1>1, <1>4, <1>5 DEF SiteInv, StagesInOrder, SiteLoaded

\* The machine of a record is of the type of machines, and repairing it keeps
\* that and its trays.
LEMMA MachineOfType ==
    ASSUME NEW m, NEW r \in FileRecord, NEW n \in Nat
    PROVE  MachineOf(m, r, n) \in LoadedRecord
<1> DEFINE online == r.state = "S_ONLINE"
           waiting == IF online THEN Len(r.input) ELSE 0
           inWork == IF online THEN Len(r.producting) ELSE 0
           generic == IF Generic[m] THEN inWork ELSE 0
<1>1. /\ r.state \in {"S_ONLINE", "S_OFFLINE"} /\ r.mode \in Model \cup {NoModel}
      /\ r.COTarget \in Model \cup {NoModel} /\ r.toIdle \in Nat /\ r.bufferSize \in Nat
      /\ r.status \in {"MS_IDLE", "MS_WORKING", "MS_CO", "MS_BLOCKING"}
      /\ Len(r.input) \in Nat /\ Len(r.producting) \in Nat /\ Len(r.output) \in Nat
  BY LenProperties DEF FileRecord
<1>2. waiting \in Nat /\ inWork \in Nat /\ generic \in Nat
  BY <1>1
<1>3. /\ MachineOf(m, r, n).state = r.state
      /\ MachineOf(m, r, n) =
           [state |-> r.state, mode |-> r.mode, COTarget |-> r.COTarget,
            changeStatus |-> "COS_KEEP", toIdle |-> r.toIdle,
            status |-> IF online /\ r.producting # <<>> THEN "MS_WORKING"
                       ELSE IF online THEN r.status ELSE "MS_IDLE",
            bufferSize |-> r.bufferSize + generic,
            input |-> NumbersFrom(n, waiting + generic),
            model |-> IF Generic[m] THEN <<>> ELSE NumbersFrom(n + waiting, inWork),
            output |-> NumbersFrom(n + waiting + inWork, Len(r.output))]
  BY DEF MachineOf
<1> HIDE DEF waiting, inWork, generic
<1>4. /\ waiting + generic \in Nat /\ n + waiting \in Nat /\ n + waiting + inWork \in Nat
      /\ r.bufferSize + generic \in Nat /\ <<>> \in Seq(Nat)
  <2>1. waiting + generic \in Nat /\ n + waiting \in Nat /\ n + waiting + inWork \in Nat
    BY <1>2
  <2>2. r.bufferSize \in Nat
    BY <1>1
  <2>3. r.bufferSize + generic \in Nat
    BY <1>2, <2>2
  <2> QED
    BY <2>1, <2>3
<1>5. /\ NumbersFrom(n, waiting + generic) \in Seq(Nat)
      /\ NumbersFrom(n + waiting, inWork) \in Seq(Nat)
      /\ NumbersFrom(n + waiting + inWork, Len(r.output)) \in Seq(Nat)
  BY <1>1, <1>2, <1>4, NumbersType
<1> QED
  BY <1>1, <1>3, <1>4, <1>5 DEF LoadedRecord

LEMMA RepairKeeps ==
    ASSUME NEW r \in LoadedRecord
    PROVE  Repaired(r) \in LoadedRecord /\ TraysOf(Repaired(r)) = TraysOf(r)
  BY DEF Repaired, LoadedRecord, TraysOf

\* A machine is made of its record.
LEMMA LoadStep ==
    ASSUME SiteInv, Len(line) \in Machines, NEW r \in RecordsOf[Len(line)], LoadMachine(r)
    PROVE  SiteInv'
<1> DEFINE n == Len(site)
<1>0. /\ n \in Nat /\ n < NumMachines /\ r \in FileRecord /\ ~Refused(r) /\ Len(line) = n
      /\ site \in Seq(FileRecord) /\ trays \in Seq(Part) /\ line \in Seq(LoadedRecord)
      /\ stage = "line" /\ stage' = "line" /\ UNCHANGED bookVars
  BY StartupAssumption DEF SiteInv, LineRead, LoadMachine, Machines
<1>1. /\ site' = Append(site, r) /\ site' \in Seq(FileRecord) /\ Len(site') = n + 1
      /\ site'[n + 1] = r /\ \A i \in 1..n : site'[i] = site[i]
  BY <1>0 DEF LoadMachine
<1>2. \A i \in 0..n : Uids(site')[i] = Uids(site)[i]
  BY <1>0, <1>1, UidsStay
<1>3. Uids(site')[n + 1] = Uids(site)[n] + Len(Kept(r)) /\ Uids(site)[n] \in Nat
  <2>1. Uids(site')[n + 1] = Uids(site')[n + 1 - 1] + Len(Kept(site'[n + 1]))
    <3>1. \A i \in 1..Len(site') : Uids(site')[i] = Uids(site')[i - 1] + Len(Kept(site'[i]))
      BY <1>1, UidsCount
    <3>2. n + 1 \in 1..Len(site')
      BY <1>0, <1>1
    <3> QED
      BY <3>1, <3>2
  <2>2. Uids(site)[n] \in Nat
    <3>1. Uids(site) \in [0..Len(site) -> Nat]
      BY <1>0, UidsCount
    <3>2. n \in 0..Len(site)
      BY <1>0
    <3> QED
      BY <3>1, <3>2
  <2>3. n + 1 - 1 = n /\ n \in 0..n
    BY <1>0
  <2> QED
    BY <1>1, <1>2, <2>1, <2>2, <2>3
<1>4. trays' \in Seq(Part) /\ Len(trays') = Len(trays) + Len(Kept(r)) /\ Len(trays) = Uids(site)[n]
  BY <1>0, KeptType, ConcatProperties DEF LoadMachine, SiteInv, LineRead
<1>5. /\ line' = Append(line, MachineOf(n, r, Uids(site)[n]))
      /\ line' \in Seq(LoadedRecord) /\ Len(line') = n + 1
      /\ line'[n + 1] = MachineOf(n, r, Uids(site)[n]) /\ \A i \in 1..n : line'[i] = line[i]
  <2>1. MachineOf(n, r, Uids(site)[n]) \in LoadedRecord
    BY <1>0, <1>3, MachineOfType
  <2>2. line' = Append(line, MachineOf(n, r, Uids(site)[n]))
    BY <1>0, <1>4 DEF LoadMachine
  <2> QED
    BY <1>0, <2>1, <2>2
<1>6. /\ \A m \in 0..n - 1 : Made(m)' = Made(m)
      /\ \A m : m = n => Made(m)' = MachineOf(n, r, Uids(site)[n])
  <2>1. \A m \in 0..n - 1 : m + 1 \in 1..n /\ m \in 0..n
    BY <1>0
  <2>2. \A m : Made(m)' = MachineOf(m, site'[m + 1], Uids(site')[m])
    BY DEF Made
  <2>3. ASSUME NEW m \in 0..n - 1 PROVE Made(m)' = Made(m)
    <3>1. site'[m + 1] = site[m + 1] /\ Uids(site')[m] = Uids(site)[m]
      BY <1>1, <1>2, <2>1
    <3> QED
      BY <2>2, <3>1 DEF Made
  <2>4. MachineOf(n, site'[n + 1], Uids(site')[n]) = MachineOf(n, r, Uids(site)[n])
    <3>1. n \in 0..n
      BY <1>0
    <3> QED
      BY <1>1, <1>2, <3>1
  <2> QED
    BY <2>2, <2>3, <2>4
<1>7. EnteredMachines' = EnteredMachines /\ EnteredMachines \subseteq 0..n - 1
  <2>1. entered' = entered /\ entered \in 0..n
    BY <1>0 DEF bookVars, SiteInv, LineRead
  <2>2. \A m \in 0..entered - 1 : m + 1 \in 1..n /\ m \in 0..n - 1
    BY <1>0, <2>1
  <2> QED
    BY <1>1, <2>1, <2>2 DEF EnteredMachines
<1>8. LineRead'
  <2>1. /\ Len(site') <= NumMachines /\ entered' \in 0..Len(site')
        /\ Len(trays') = Uids(site')[Len(site')]
    BY <1>0, <1>1, <1>3, <1>4, StartupAssumption DEF bookVars, SiteInv, LineRead
  <2>2. ASSUME NEW m \in 0..n
        PROVE  /\ ~Refused(site'[m + 1])
               /\ line'[m + 1] = IF m \in EnteredMachines THEN Repaired(Made(m)') ELSE Made(m)'
    <3>1. CASE m = n
      <4>1. m \notin EnteredMachines
        BY <1>0, <1>7, <3>1
      <4> QED
        BY <1>0, <1>1, <1>5, <1>6, <3>1, <4>1
    <3>2. CASE m # n
      <4>1. m \in 0..n - 1 /\ m + 1 \in 1..n
        BY <1>0, <3>2
      <4> QED
        BY <1>1, <1>5, <1>6, <4>1 DEF SiteInv, LineRead
    <3> QED
      BY <3>1, <3>2
  <2>3. 0..Len(site') - 1 = 0..n
    BY <1>0, <1>1
  <2> QED
    BY <1>1, <1>4, <1>5, <1>7, <2>1, <2>2, <2>3 DEF LineRead, Repaired
<1>9. BooksMade'
  <2>1. {TraysOf(Made(m)') : m \in EnteredMachines} = {TraysOf(Made(m)) : m \in EnteredMachines}
    BY <1>6, <1>7
  <2> QED
    BY <1>0, <1>7, <2>1 DEF bookVars, SiteInv, BooksMade, SiteLoaded, TraysOf
<1> QED
  BY <1>0, <1>8, <1>9 DEF SiteInv, StagesInOrder, SiteLoaded

\* A step that moves on, or ends the start, leaves the site data and the books.
LEMMA SameSite ==
    ASSUME SiteInv, UNCHANGED <<lineVars, entered, jobs>>, StagesInOrder',
           SiteLoaded' => SiteLoaded /\ UNCHANGED <<jop, gTasks>>
    PROVE  SiteInv'
<1>1. LineRead'
  <2>1. EnteredMachines' = EnteredMachines /\ \A m : Made(m)' = Made(m)
    BY DEF lineVars, EnteredMachines, Made
  <2> QED
    BY <2>1 DEF lineVars, SiteInv, LineRead, Repaired
<1>2. BooksMade'
  <2>1. {TraysOf(Made(m))' : m \in EnteredMachines'} = {TraysOf(Made(m)) : m \in EnteredMachines}
    BY DEF lineVars, EnteredMachines, Made, TraysOf
  <2>2. \A u : ProcessOfTray(u)' = ProcessOfTray(u)
    BY DEF ProcessOfTray, lineVars
  <2>3. IsFiniteSet(jobs') /\ jobs' = UNION {TraysOf(Made(m))' : m \in EnteredMachines'}
    BY <2>1 DEF SiteInv, BooksMade
  <2>4. SiteLoaded' => /\ jop' = {<<trays[u].model, ProcessOfTray(u), u>> : u \in jobs}
                       /\ gTasks' = [t \in {trays[u].model : u \in jobs} |->
                                        Cardinality({u \in jobs : trays[u].model = t})]
    BY DEF SiteInv, BooksMade
  <2> QED
    BY <2>2, <2>3, <2>4 DEF BooksMade, lineVars
<1> QED
  BY <1>1, <1>2 DEF SiteInv

\* A lane holds finitely many trays.
LEMMA LaneFinite == ASSUME NEW S, NEW s \in Seq(S) PROVE IsFiniteSet(ToSet(s))
<1>1. Len(s) \in Nat /\ DOMAIN s = 1..Len(s)
  BY LenProperties
<1> DEFINE f == [i \in 1..Len(s) |-> s[i]]
<1>2. f \in Surjection(1..Len(s), ToSet(s))
  BY <1>1 DEF ToSet, Surjection
<1>3. IsFiniteSet(1..Len(s))
  BY <1>1, FS_Interval
<1> QED
  BY <1>2, <1>3, FS_Surjection

\* The trays of the next machine enter the books.
LEMMA EnterStep == ASSUME SiteInv, EnterMachine PROVE SiteInv'
<1> DEFINE e == entered
<1>1. /\ e \in Nat /\ e + 1 \in 1..Len(line) /\ Len(line) = Len(site) /\ e \in 0..Len(site) - 1
      /\ line \in Seq(LoadedRecord) /\ site \in Seq(FileRecord) /\ site[e + 1] \in FileRecord
      /\ entered' = e + 1 /\ UNCHANGED <<stage, site, trays, jop, gTasks>> /\ stage = "books"
  BY LenProperties, ElementOfSeq DEF EnterMachine, SiteInv, LineRead
<1>2. line[e + 1] = Made(e) /\ Made(e) \in LoadedRecord /\ Made(e).state = site[e + 1].state
  <2>1. e \notin EnteredMachines
    BY <1>1 DEF EnteredMachines
  <2>2. line[e + 1] = Made(e)
    BY <1>1, <2>1 DEF SiteInv, LineRead
  <2>3. line[e + 1] \in LoadedRecord
    BY <1>1, ElementOfSeq
  <2>4. Made(e).state = site[e + 1].state
    BY DEF Made, MachineOf
  <2> QED
    BY <2>2, <2>3, <2>4
<1>3. \A m : Made(m)' = Made(m) /\ TraysOf(Made(m))' = TraysOf(Made(m))
  BY <1>1 DEF Made, TraysOf
<1>4. CASE site[e + 1].state = "S_ONLINE"
  <2>1. /\ line' = [line EXCEPT ![e + 1] = Repaired(Made(e))]
        /\ jobs' = jobs \cup TraysOf(Made(e))
    BY <1>2, <1>4 DEF EnterMachine
  <2>2. EnteredMachines' = EnteredMachines \cup {e}
    <3>1. 0..e + 1 - 1 = (0..e - 1) \cup {e}
      BY <1>1
    <3> QED
      BY <1>1, <1>4, <3>1 DEF EnteredMachines
  <2>3. line' \in Seq(LoadedRecord) /\ Len(line') = Len(line)
    BY <1>1, <1>2, <2>1, RepairKeeps, ExceptSeq
  <2>4. ASSUME NEW m \in 0..Len(site) - 1
        PROVE  line'[m + 1] = IF m \in EnteredMachines' THEN Repaired(Made(m)) ELSE Made(m)
    <3>1. m + 1 \in 1..Len(line) /\ m \in Int
      BY <1>1
    <3>2. CASE m = e
      <4>1. m \in EnteredMachines'
        BY <2>2, <3>2
      <4> QED
        BY <1>1, <2>1, <3>1, <3>2, <4>1, ExceptSeq
    <3>3. CASE m # e
      <4>1. line'[m + 1] = line[m + 1]
        BY <1>1, <2>1, <3>1, <3>3
      <4> QED
        BY <2>2, <3>3, <4>1 DEF SiteInv, LineRead
    <3> QED
      BY <3>2, <3>3
  <2>5. LineRead'
    BY <1>1, <1>3, <2>3, <2>4 DEF SiteInv, LineRead, Repaired
  <2>6. IsFiniteSet(jobs')
    <3>1. IsFiniteSet(TraysOf(Made(e)))
      <4>1. Made(e).input \o Made(e).output \o Made(e).model \in Seq(Nat)
        BY <1>2, ConcatProperties DEF LoadedRecord
      <4> QED
        BY <4>1, LaneFinite DEF TraysOf
    <3> QED
      BY <2>1, <3>1, FS_Union DEF SiteInv, BooksMade
  <2>7. jobs' = UNION {TraysOf(Made(m)) : m \in EnteredMachines'}
    BY <2>1, <2>2 DEF SiteInv, BooksMade
  <2>8. BooksMade'
    BY <1>1, <1>3, <2>6, <2>7 DEF BooksMade, SiteLoaded
  <2> QED
    BY <1>1, <2>5, <2>8 DEF SiteInv, StagesInOrder, SiteLoaded
<1>5. CASE site[e + 1].state # "S_ONLINE"
  <2>1. line' = line /\ jobs' = jobs
    BY <1>2, <1>5 DEF EnterMachine
  <2>2. EnteredMachines' = EnteredMachines
    <3>1. 0..e + 1 - 1 = (0..e - 1) \cup {e}
      BY <1>1
    <3> QED
      BY <1>1, <1>5, <3>1 DEF EnteredMachines
  <2>3. LineRead'
    BY <1>1, <1>3, <2>1, <2>2 DEF SiteInv, LineRead, Repaired
  <2>4. BooksMade'
    BY <1>1, <1>3, <2>1, <2>2 DEF SiteInv, BooksMade, SiteLoaded
  <2> QED
    BY <1>1, <2>3, <2>4 DEF SiteInv, StagesInOrder, SiteLoaded
<1> QED
  BY <1>4, <1>5

\* Every step of the start keeps the site data and the books as they are made.
LEMMA NextSite == SiteInv /\ [StartupNext]_<<startupVars, vars>> => SiteInv'
<1> SUFFICES ASSUME SiteInv, [StartupNext]_<<startupVars, vars>> PROVE SiteInv'
  OBVIOUS
<1> USE DEF StagesInOrder, SiteLoaded
<1>1. CASE GiveUp
  BY <1>1, SameSite DEF GiveUp, SiteInv, bookVars
<1>2. CASE LoadConstants
  <2>1. /\ UNCHANGED <<site, line, trays, entered, jobs, jop, gTasks>>
        /\ \/ (stage = "changeOver" /\ stage' = "models")
           \/ (stage = "models" /\ stage' = "line")
           \/ (stage = "shiftBook" /\ stage' = "settings")
           \/ (stage = "settings" /\ stage' = "requirements")
    <3>1. DOMAIN After = {"changeOver", "models", "shiftBook", "settings"}
      BY DEF After
    <3>2. /\ After["changeOver"] = "models" /\ After["models"] = "line"
          /\ After["shiftBook"] = "settings" /\ After["settings"] = "requirements"
      BY DEF After
    <3>3. /\ stage \in DOMAIN After /\ stage' = After[stage]
          /\ UNCHANGED <<site, line, trays, entered, jobs, jop, gTasks>>
      BY <1>2 DEF LoadConstants, lineVars, bookVars
    <3> QED
      BY <3>1, <3>2, <3>3
  <2> QED
    BY <2>1, SameSite DEF SiteInv, lineVars
<1>3. ASSUME NEW r \in UNION {RecordsOf[m] : m \in {Len(line)} \cap Machines},
             LoadMachine(r) \/ RefuseMachine(r)
      PROVE  SiteInv'
  BY <1>1, <1>3, LoadStep DEF RefuseMachine
<1>4. CASE LineLoaded
  <2>1. /\ UNCHANGED <<site, line, trays, entered, jobs, jop, gTasks>>
        /\ stage' = "clocks" /\ Len(site) = NumMachines
    BY <1>4 DEF LineLoaded, SiteInv, LineRead, lineVars, bookVars
  <2> QED
    BY <2>1, SameSite DEF lineVars
<1>5. ASSUME NEW rowsRead \in [Machines -> ClockRow], LoadClocks(rowsRead) PROVE SiteInv'
  <2>1. /\ UNCHANGED <<site, line, trays, entered, jobs, jop, gTasks>>
        /\ stage = "clocks" /\ stage' = "books"
    BY <1>5 DEF LoadClocks, lineVars, bookVars
  <2> QED
    BY <2>1, SameSite DEF SiteInv, lineVars
<1>6. CASE EnterBooks
  <2>1. LineRead'
    BY <1>6 DEF EnterBooks, SiteInv, LineRead, lineVars, EnteredMachines, Made, Repaired
  <2>2. BooksMade'
    <3>1. /\ UNCHANGED <<site, line, trays, entered, jobs>>
          /\ jop' = {<<trays[u].model, ProcessOfTray(u), u>> : u \in jobs}
          /\ gTasks' = [t \in {trays[u].model : u \in jobs} |->
                           Cardinality({u \in jobs : trays[u].model = t})]
      BY <1>6 DEF EnterBooks, lineVars
    <3>2. {TraysOf(Made(m))' : m \in EnteredMachines'} = {TraysOf(Made(m)) : m \in EnteredMachines}
      BY <3>1 DEF EnteredMachines, Made, TraysOf
    <3>3. \A u : ProcessOfTray(u)' = ProcessOfTray(u)
      BY <3>1 DEF ProcessOfTray
    <3>4. IsFiniteSet(jobs') /\ jobs' = UNION {TraysOf(Made(m))' : m \in EnteredMachines'}
      BY <3>1, <3>2 DEF SiteInv, BooksMade
    <3> QED
      BY <3>1, <3>3, <3>4 DEF BooksMade
  <2> QED
    BY <1>6, <2>1, <2>2 DEF EnterBooks, SiteInv, LineRead, lineVars
<1>7. CASE ReadRequirements
  <2>1. UNCHANGED <<site, line, trays, entered, jobs, jop, gTasks, stage>>
    BY <1>7 DEF ReadRequirements, startupVars, lineVars, bookVars
  <2> QED
    BY <2>1, SameSite DEF SiteInv, lineVars
<1>8. CASE UNCHANGED <<startupVars, vars>>
  <2>1. UNCHANGED <<site, line, trays, entered, jobs, jop, gTasks, stage>>
    BY <1>8 DEF startupVars, lineVars, bookVars
  <2> QED
    BY <2>1, SameSite DEF SiteInv, lineVars
<1> QED
  BY <1>1, <1>2, <1>3, <1>4, <1>5, <1>6, <1>7, <1>8, EnterStep DEF StartupNext, CannotOpen

\* The machines are loaded and on the books.
LEMMA AtTheStart ==
    ASSUME SiteInv, SiteLoaded, NEW m \in Machines
    PROVE  /\ m \in 0..Len(site) - 1 /\ site[m + 1] \in FileRecord /\ ~Refused(site[m + 1])
           /\ UidsBefore(m) = Uids(site)[m] /\ UidsBefore(m) \in Nat
           /\ m \in EnteredMachines <=> site[m + 1].state = "S_ONLINE"
           /\ line[m + 1] = IF site[m + 1].state = "S_ONLINE"
                            THEN Repaired(Made(m)) ELSE Made(m)
<1>1. /\ m \in 0..Len(site) - 1 /\ Len(site) = NumMachines /\ entered = Len(site)
      /\ site \in Seq(FileRecord) /\ Len(site) \in Nat
  BY LenProperties DEF SiteInv, LineRead, StagesInOrder, Machines
<1>2. site[m + 1] \in FileRecord /\ m \in 0..Len(site)
  <2>1. m + 1 \in 1..Len(site)
    BY <1>1
  <2> QED
    BY <1>1, <2>1, ElementOfSeq
<1>3. UidsBefore(m) = Uids(site)[m] /\ UidsBefore(m) \in Nat
  BY <1>1, <1>2, UidsBeforeIs, UidsCount
<1>4. m \in EnteredMachines <=> site[m + 1].state = "S_ONLINE"
  BY <1>1 DEF EnteredMachines
<1>5. ~Refused(site[m + 1])
  BY <1>1 DEF SiteInv, LineRead
<1> QED
  BY <1>1, <1>2, <1>3, <1>4, <1>5 DEF SiteInv, LineRead

\* Trays of a record that are loaded into the input and into the work slot.
Waiting(r) == IF r.state = "S_ONLINE" THEN Len(r.input) ELSE 0
InWork(r) == IF r.state = "S_ONLINE" THEN Len(r.producting) ELSE 0

\* What the site data says of a machine, with the uids given to its trays.
LEMMA SiteSays ==
    ASSUME NEW m \in Machines, NEW r \in FileRecord, r = site[m + 1],
           NEW n \in Nat, n = UidsBefore(m)
    PROVE  /\ Waiting(r) \in Nat /\ InWork(r) \in Nat
           /\ SiteOf(m).state = r.state /\ SiteOf(m).mode = r.mode
           /\ SiteOf(m).COTarget = r.COTarget /\ SiteOf(m).toIdle = r.toIdle
           /\ SiteOf(m).input = NumbersFrom(n, Waiting(r))
           /\ SiteOf(m).producting = NumbersFrom(n + Waiting(r), InWork(r))
           /\ SiteOf(m).output = NumbersFrom(n + Waiting(r) + InWork(r), Len(r.output))
           /\ Made(m) = MachineOf(m, r, Uids(site)[m])
<1>1. Waiting(r) \in Nat /\ InWork(r) \in Nat
  BY LenProperties DEF FileRecord, Waiting, InWork
<1>2. SiteOf(m) =
        [state |-> r.state, mode |-> r.mode, COTarget |-> r.COTarget, toIdle |-> r.toIdle,
         input |-> NumbersFrom(n, Waiting(r)),
         producting |-> NumbersFrom(n + Waiting(r), InWork(r)),
         output |-> NumbersFrom(n + Waiting(r) + InWork(r), Len(r.output))]
  BY DEF SiteOf, Waiting, InWork
<1>3. Made(m) = MachineOf(m, r, Uids(site)[m])
  BY DEF Made
<1> QED
  BY <1>1, <1>2, <1>3

\* The machine made of a record, lane by lane.
LEMMA MachineLanes ==
    ASSUME NEW m \in Machines, NEW r \in FileRecord, NEW n \in Nat
    PROVE  LET made == MachineOf(m, r, n)
           IN  /\ made.state = r.state /\ made.mode = r.mode /\ made.COTarget = r.COTarget
               /\ made.toIdle = r.toIdle /\ made.changeStatus = "COS_KEEP"
               /\ made.status = IF r.state = "S_ONLINE" /\ r.producting # <<>> THEN "MS_WORKING"
                                ELSE IF r.state = "S_ONLINE" THEN r.status ELSE "MS_IDLE"
               /\ made.bufferSize = r.bufferSize + IF Generic[m] THEN InWork(r) ELSE 0
               /\ made.input = NumbersFrom(n, Waiting(r))
                                 \o (IF Generic[m] THEN NumbersFrom(n + Waiting(r), InWork(r)) ELSE <<>>)
               /\ made.model = IF Generic[m] THEN <<>> ELSE NumbersFrom(n + Waiting(r), InWork(r))
               /\ made.output = NumbersFrom(n + Waiting(r) + InWork(r), Len(r.output))
<1>1. Waiting(r) \in Nat /\ InWork(r) \in Nat
  BY LenProperties DEF FileRecord, Waiting, InWork
<1>2. NumbersFrom(n, Waiting(r)) \in Seq(Nat)
  BY <1>1, NumbersType, Zenon
<1>3. NumbersFrom(n, Waiting(r) + IF Generic[m] THEN InWork(r) ELSE 0)
        = NumbersFrom(n, Waiting(r)) \o (IF Generic[m] THEN NumbersFrom(n + Waiting(r), InWork(r)) ELSE <<>>)
  <2>1. CASE Generic[m]
    BY <1>1, <2>1, NumbersConcat
  <2>2. CASE ~Generic[m]
    <3>1. NumbersFrom(n, Waiting(r)) \o <<>> = NumbersFrom(n, Waiting(r))
      BY <1>2, ConcatEmptySeq
    <3>2. Waiting(r) + 0 = Waiting(r)
      BY <1>1
    <3> QED
      BY <2>2, <3>1, <3>2
  <2> QED
    BY <2>1, <2>2
<1>5. /\ MachineOf(m, r, n).state = r.state /\ MachineOf(m, r, n).mode = r.mode
      /\ MachineOf(m, r, n).COTarget = r.COTarget /\ MachineOf(m, r, n).toIdle = r.toIdle
      /\ MachineOf(m, r, n).changeStatus = "COS_KEEP"
      /\ MachineOf(m, r, n).status =
           IF r.state = "S_ONLINE" /\ r.producting # <<>> THEN "MS_WORKING"
           ELSE IF r.state = "S_ONLINE" THEN r.status ELSE "MS_IDLE"
  BY DEF MachineOf
<1>6. MachineOf(m, r, n).bufferSize = r.bufferSize + IF Generic[m] THEN InWork(r) ELSE 0
  BY DEF MachineOf, Waiting, InWork
<1>7. MachineOf(m, r, n).input = NumbersFrom(n, Waiting(r) + IF Generic[m] THEN InWork(r) ELSE 0)
  BY DEF MachineOf, Waiting, InWork
<1>8. MachineOf(m, r, n).model = IF Generic[m] THEN <<>> ELSE NumbersFrom(n + Waiting(r), InWork(r))
  BY DEF MachineOf, Waiting, InWork
<1>9. MachineOf(m, r, n).output = NumbersFrom(n + Waiting(r) + InWork(r), Len(r.output))
  BY DEF MachineOf, Waiting, InWork
<1> QED
  BY <1>3, <1>5, <1>6, <1>7, <1>8, <1>9

\* A repaired machine is as it was made but for its status.
LEMMA RepairedFields ==
    ASSUME NEW r \in LoadedRecord
    PROVE  /\ Repaired(r).state = r.state /\ Repaired(r).mode = r.mode
           /\ Repaired(r).COTarget = r.COTarget /\ Repaired(r).changeStatus = r.changeStatus
           /\ Repaired(r).toIdle = r.toIdle /\ Repaired(r).bufferSize = r.bufferSize
           /\ Repaired(r).input = r.input /\ Repaired(r).model = r.model
           /\ Repaired(r).output = r.output
           /\ Repaired(r).status = IF r.model = <<>> /\ r.status = "MS_WORKING"
                                   THEN "MS_IDLE" ELSE r.status
  BY DEF Repaired, LoadedRecord

\* The machines that are loaded and repaired are those of the simulation.
LEMMA PlantIsLoaded ==
    ASSUME SiteInv, SiteLoaded, NEW m \in Machines, Plausible(site[m + 1])
    PROVE  /\ [f \in DOMAIN Plant!Loaded(m) |-> line[m + 1][f]] = Plant!Loaded(m)
           /\ line[m + 1].bufferSize = Plant!CapacityOf(m)
<1>1. PICK r \in FileRecord : r = site[m + 1]
  BY AtTheStart
<1>2. PICK n \in Nat : n = UidsBefore(m) /\ n = Uids(site)[m]
  BY AtTheStart
<1>3. Waiting(r) = IF r.state = "S_ONLINE" THEN Len(r.input) ELSE 0
  BY DEF Waiting
<1>4. InWork(r) = IF r.state = "S_ONLINE" THEN Len(r.producting) ELSE 0
  BY DEF InWork
<1>5. PICK a, b, c : /\ a = NumbersFrom(n, Waiting(r)) /\ b = NumbersFrom(n + Waiting(r), InWork(r))
                     /\ c = NumbersFrom(n + Waiting(r) + InWork(r), Len(r.output))
  OBVIOUS
<1>6. PICK S : S = SiteOf(m)
  OBVIOUS
<1>7. /\ Waiting(r) \in Nat /\ InWork(r) \in Nat
      /\ S.state = r.state /\ S.mode = r.mode /\ S.COTarget = r.COTarget /\ S.toIdle = r.toIdle
      /\ S.input = a /\ S.producting = b /\ S.output = c
      /\ Made(m) = MachineOf(m, r, n)
  <2>1. /\ Waiting(r) \in Nat /\ InWork(r) \in Nat
        /\ SiteOf(m).state = r.state /\ SiteOf(m).mode = r.mode
        /\ SiteOf(m).COTarget = r.COTarget /\ SiteOf(m).toIdle = r.toIdle
        /\ SiteOf(m).input = NumbersFrom(n, Waiting(r))
        /\ SiteOf(m).producting = NumbersFrom(n + Waiting(r), InWork(r))
        /\ SiteOf(m).output = NumbersFrom(n + Waiting(r) + InWork(r), Len(r.output))
        /\ Made(m) = MachineOf(m, r, Uids(site)[m])
    <3>1. m \in Machines /\ r \in FileRecord /\ r = site[m + 1] /\ n \in Nat /\ n = UidsBefore(m)
      BY <1>1, <1>2
    <3> QED
      BY <3>1, SiteSays
  <2> QED
    BY <1>2, <1>5, <1>6, <2>1, Zenon
<1>8. PICK made : made = MachineOf(m, r, n)
  OBVIOUS
<1>9. /\ made.state = r.state /\ made.mode = r.mode /\ made.COTarget = r.COTarget
      /\ made.toIdle = r.toIdle /\ made.changeStatus = "COS_KEEP"
      /\ made.status = IF r.state = "S_ONLINE" /\ r.producting # <<>> THEN "MS_WORKING"
                       ELSE IF r.state = "S_ONLINE" THEN r.status ELSE "MS_IDLE"
      /\ made.bufferSize = r.bufferSize + IF Generic[m] THEN InWork(r) ELSE 0
      /\ made.input = a \o (IF Generic[m] THEN b ELSE <<>>)
      /\ made.model = IF Generic[m] THEN <<>> ELSE b
      /\ made.output = c
  <2>1. LET mk == MachineOf(m, r, n)
        IN  /\ mk.state = r.state /\ mk.mode = r.mode /\ mk.COTarget = r.COTarget
            /\ mk.toIdle = r.toIdle /\ mk.changeStatus = "COS_KEEP"
            /\ mk.status = IF r.state = "S_ONLINE" /\ r.producting # <<>> THEN "MS_WORKING"
                           ELSE IF r.state = "S_ONLINE" THEN r.status ELSE "MS_IDLE"
            /\ mk.bufferSize = r.bufferSize + IF Generic[m] THEN InWork(r) ELSE 0
            /\ mk.input = NumbersFrom(n, Waiting(r))
                             \o (IF Generic[m] THEN NumbersFrom(n + Waiting(r), InWork(r)) ELSE <<>>)
            /\ mk.model = IF Generic[m] THEN <<>> ELSE NumbersFrom(n + Waiting(r), InWork(r))
            /\ mk.output = NumbersFrom(n + Waiting(r) + InWork(r), Len(r.output))
    <3>1. m \in Machines /\ r \in FileRecord /\ n \in Nat
      BY <1>1, <1>2
    <3> QED
      BY <3>1, MachineLanes
  <2> QED
    BY <1>5, <1>8, <2>1, Zenon
<1>10. PICK mach : mach = line[m + 1]
  OBVIOUS
<1>11. made \in LoadedRecord /\ mach = IF r.state = "S_ONLINE" THEN Repaired(made) ELSE made
  BY <1>1, <1>7, <1>8, <1>10, AtTheStart, MachineOfType
<1>12. /\ a \in Seq(Nat) /\ b \in Seq(Nat) /\ c \in Seq(Nat)
       /\ b = <<>> <=> InWork(r) = 0
       /\ r.state # "S_ONLINE" => a = <<>> /\ b = <<>> /\ a \o <<>> = <<>>
       /\ r.state = "S_ONLINE" => (InWork(r) = 0 <=> r.producting = <<>>)
  <2>1. n + Waiting(r) \in Nat /\ n + Waiting(r) + InWork(r) \in Nat /\ Len(r.output) \in Nat
    BY <1>7, LenProperties DEF FileRecord
  <2>2. /\ a \in Seq(Nat) /\ Len(a) = Waiting(r) /\ b \in Seq(Nat) /\ Len(b) = InWork(r)
        /\ c \in Seq(Nat)
    <3>1. /\ NumbersFrom(n, Waiting(r)) \in Seq(Nat) /\ Len(NumbersFrom(n, Waiting(r))) = Waiting(r)
          /\ NumbersFrom(n + Waiting(r), InWork(r)) \in Seq(Nat)
          /\ Len(NumbersFrom(n + Waiting(r), InWork(r))) = InWork(r)
          /\ NumbersFrom(n + Waiting(r) + InWork(r), Len(r.output)) \in Seq(Nat)
      <4> QED
        BY <1>7, <2>1, NumbersType
    <3> QED
      BY <1>5, <3>1, Zenon
  <2>3. r.producting \in Seq(Part)
    BY DEF FileRecord
  <2>4. r.state = "S_ONLINE" => (InWork(r) = 0 <=> r.producting = <<>>)
    BY <1>4, <2>3, EmptySeq
  <2>5. r.state # "S_ONLINE" => Len(a) = 0 /\ Len(b) = 0
    BY <1>3, <1>4, <2>2
  <2> QED
    BY <2>2, <2>4, <2>5, EmptySeq, ConcatEmptySeq
<1>13. /\ mach.state = r.state /\ mach.mode = r.mode /\ mach.COTarget = r.COTarget
       /\ mach.toIdle = r.toIdle /\ mach.changeStatus = "COS_KEEP"
       /\ mach.bufferSize = made.bufferSize /\ mach.input = made.input
       /\ mach.model = made.model /\ mach.output = made.output
       /\ mach.status = IF r.state = "S_ONLINE" /\ made.model = <<>> /\ made.status = "MS_WORKING"
                        THEN "MS_IDLE" ELSE made.status
  <2>1. CASE r.state = "S_ONLINE"
    BY <1>9, <1>11, <2>1, RepairedFields
  <2>2. CASE r.state # "S_ONLINE"
    BY <1>9, <1>11, <2>2
  <2> QED
    BY <2>1, <2>2
<1>14. PICK work : work = IF S.state = "S_ONLINE" /\ ~Generic[m] THEN S.producting ELSE <<>>
  OBVIOUS
<1>15. Plant!Loaded(m) =
         [state |-> S.state, mode |-> S.mode, toIdle |-> S.toIdle,
          status |-> IF work # <<>> THEN "MS_WORKING"
                     ELSE IF S.state = "S_ONLINE" /\ S.producting = <<>> /\ S.COTarget # NoModel
                          THEN "MS_CO" ELSE "MS_IDLE",
          changeStatus |-> "COS_KEEP", COTarget |-> S.COTarget,
          input |-> IF ~(S.state = "S_ONLINE") THEN <<>>
                    ELSE S.input \o (IF Generic[m] THEN S.producting ELSE <<>>),
          model |-> work, output |-> S.output]
  BY <1>6, <1>14 DEF Plant!Loaded
<1>16. PICK status : status = IF work # <<>> THEN "MS_WORKING"
                              ELSE IF S.state = "S_ONLINE" /\ S.producting = <<>> /\ S.COTarget # NoModel
                              THEN "MS_CO" ELSE "MS_IDLE"
  OBVIOUS
<1>17. PICK input : input = IF ~(S.state = "S_ONLINE") THEN <<>>
                            ELSE S.input \o (IF Generic[m] THEN S.producting ELSE <<>>)
  OBVIOUS
<1>18. Plant!Loaded(m) =
         [state |-> S.state, mode |-> S.mode, toIdle |-> S.toIdle, status |-> status,
          changeStatus |-> "COS_KEEP", COTarget |-> S.COTarget, input |-> input,
          model |-> work, output |-> S.output]
  BY <1>15, <1>16, <1>17, Zenon
<1>19. mach.model = work
  BY <1>7, <1>9, <1>12, <1>13, <1>14
<1>20. mach.input = input
  BY <1>7, <1>9, <1>12, <1>13, <1>17
<1>21. mach.status = status
  <2>1. /\ r.status \in {"MS_IDLE", "MS_WORKING", "MS_CO", "MS_BLOCKING"}
        /\ r.COTarget # NoModel => r.status = "MS_CO"
    BY <1>1, AtTheStart DEF FileRecord, Refused
  <2>2. r.state = "S_ONLINE" /\ r.producting = <<>> =>
          r.status \in {"MS_IDLE", "MS_WORKING"} \/ (r.status = "MS_CO" /\ r.COTarget # NoModel)
    BY <1>1 DEF Plausible
  <2>3. CASE r.state # "S_ONLINE"
    BY <1>7, <1>9, <1>13, <1>14, <1>16, <2>3
  <2>4. CASE r.state = "S_ONLINE" /\ r.producting = <<>>
    <3>1. b = <<>> /\ work = <<>> /\ made.model = <<>> /\ made.status = r.status
      BY <1>7, <1>9, <1>12, <1>14, <2>4
    <3> QED
      BY <1>7, <1>13, <1>16, <2>1, <2>2, <2>4, <3>1
  <2>5. CASE r.state = "S_ONLINE" /\ r.producting # <<>>
    <3>1. b # <<>> /\ made.status = "MS_WORKING"
      BY <1>9, <1>12, <2>5
    <3> QED
      BY <1>7, <1>9, <1>13, <1>14, <1>16, <2>5, <3>1
  <2> QED
    BY <2>3, <2>4, <2>5
<1>22. [f \in DOMAIN Plant!Loaded(m) |-> mach[f]] = Plant!Loaded(m)
  <2>1. PICK L : L = [state |-> S.state, mode |-> S.mode, toIdle |-> S.toIdle, status |-> status,
                      changeStatus |-> "COS_KEEP", COTarget |-> S.COTarget, input |-> input,
                      model |-> work, output |-> S.output]
    OBVIOUS
  <2>2. L = [f \in {"state", "mode", "toIdle", "status", "changeStatus", "COTarget", "input",
                    "model", "output"} |-> mach[f]]
    BY <1>7, <1>9, <1>13, <1>19, <1>20, <1>21, <2>1
  <2>3. L = [f \in DOMAIN L |-> mach[f]]
    BY <2>2
  <2> QED
    BY <1>18, <2>1, <2>3
<1>23. mach.bufferSize = Plant!CapacityOf(m)
  <2>1. Plant!CapacityOf(m) = r.bufferSize + IF Generic[m] /\ S.state = "S_ONLINE"
                                             THEN Len(S.producting) ELSE 0
    BY <1>1, <1>6 DEF Plant!CapacityOf
  <2>2. Len(b) = InWork(r)
    <3>1. n + Waiting(r) \in Nat
      BY <1>7
    <3>2. Len(NumbersFrom(n + Waiting(r), InWork(r))) = InWork(r)
      BY <1>7, <3>1, NumbersType
    <3> QED
      BY <1>5, <3>2
  <2> QED
    BY <1>4, <1>7, <1>9, <1>13, <2>1, <2>2
<1> QED
  BY <1>10, <1>22, <1>23

\* At the start of the simulation the line is the one it is specified for
\* (loader.cpp:99-218, fits_core.cpp:1990).
THEOREM LineIsThePlant == StartupSpec => []LoadsThePlant
<1>1. SiteInv => LoadsThePlant
  BY PlantIsLoaded DEF LoadsThePlant
<1> QED
  BY <1>1, InitSite, NextSite, PTL DEF StartupSpec

\* The trays that are entered are those of the machines on line.
LEMMA OnSiteIs ==
    ASSUME SiteInv, SiteLoaded, NEW m \in Machines
    PROVE  Plant!OnSite(m) = IF m \in EnteredMachines THEN TraysOf(Made(m)) ELSE {}
<1>1. PICK r \in FileRecord : r = site[m + 1]
  BY AtTheStart
<1>2. PICK n \in Nat : n = UidsBefore(m) /\ n = Uids(site)[m]
  BY AtTheStart
<1>3. PICK a, b, c : /\ a = NumbersFrom(n, Waiting(r)) /\ b = NumbersFrom(n + Waiting(r), InWork(r))
                     /\ c = NumbersFrom(n + Waiting(r) + InWork(r), Len(r.output))
  OBVIOUS
<1>4. m \in Machines /\ r \in FileRecord /\ r = site[m + 1] /\ n \in Nat /\ n = UidsBefore(m)
  BY <1>1, <1>2
<1>5. /\ Waiting(r) \in Nat /\ InWork(r) \in Nat
      /\ SiteOf(m).state = r.state /\ SiteOf(m).input = a /\ SiteOf(m).producting = b
      /\ SiteOf(m).output = c
      /\ Made(m) = MachineOf(m, r, n)
  <2>1. /\ Waiting(r) \in Nat /\ InWork(r) \in Nat
        /\ SiteOf(m).state = r.state
        /\ SiteOf(m).input = NumbersFrom(n, Waiting(r))
        /\ SiteOf(m).producting = NumbersFrom(n + Waiting(r), InWork(r))
        /\ SiteOf(m).output = NumbersFrom(n + Waiting(r) + InWork(r), Len(r.output))
        /\ Made(m) = MachineOf(m, r, Uids(site)[m])
    BY <1>4, SiteSays
  <2> QED
    BY <1>2, <1>3, <2>1, Zenon
<1>6. /\ Made(m).input = a \o (IF Generic[m] THEN b ELSE <<>>)
      /\ Made(m).model = IF Generic[m] THEN <<>> ELSE b
      /\ Made(m).output = c
  <2>1. LET made == MachineOf(m, r, n)
        IN  /\ made.input = NumbersFrom(n, Waiting(r))
                              \o (IF Generic[m] THEN NumbersFrom(n + Waiting(r), InWork(r)) ELSE <<>>)
            /\ made.model = IF Generic[m] THEN <<>> ELSE NumbersFrom(n + Waiting(r), InWork(r))
            /\ made.output = NumbersFrom(n + Waiting(r) + InWork(r), Len(r.output))
    BY <1>4, MachineLanes, Zenon
  <2> QED
    BY <1>3, <1>5, <2>1, Zenon
<1>7. a \in Seq(Nat) /\ b \in Seq(Nat) /\ c \in Seq(Nat)
  <2>1. n + Waiting(r) \in Nat /\ n + Waiting(r) + InWork(r) \in Nat /\ Len(r.output) \in Nat
    BY <1>5, LenProperties DEF FileRecord
  <2>2. /\ NumbersFrom(n, Waiting(r)) \in Seq(Nat)
        /\ NumbersFrom(n + Waiting(r), InWork(r)) \in Seq(Nat)
        /\ NumbersFrom(n + Waiting(r) + InWork(r), Len(r.output)) \in Seq(Nat)
    BY <1>5, <2>1, NumbersType
  <2> QED
    BY <1>3, <2>2, Zenon
<1>8. m \in EnteredMachines <=> SiteOf(m).state = "S_ONLINE"
  BY <1>1, <1>5, AtTheStart
<1>9. ToSet(a \o b \o c) = ToSet(a) \cup ToSet(b) \cup ToSet(c)
  <2>1. PICK ab : ab = a \o b
    OBVIOUS
  <2>2. ab \in Seq(Nat) /\ ToSet(ab) = ToSet(a) \cup ToSet(b)
    BY <1>7, <2>1, RangeOfConcat, ConcatProperties
  <2>3. ToSet(ab \o c) = ToSet(ab) \cup ToSet(c)
    BY <1>7, <2>2, RangeOfConcat
  <2> QED
    BY <2>1, <2>2, <2>3
<1>10. TraysOf(Made(m)) = ToSet(a) \cup ToSet(b) \cup ToSet(c)
  <2>1. PICK x, y : x = Made(m).input /\ y = Made(m).model
    OBVIOUS
  <2>2. x \in Seq(Nat) /\ y \in Seq(Nat) /\ ToSet(x) \cup ToSet(y) = ToSet(a) \cup ToSet(b)
    <3>1. ToSet(<<>>) = {}
      BY DEF ToSet
    <3>2. CASE Generic[m]
      BY <1>6, <1>7, <2>1, <3>1, <3>2, RangeOfConcat, ConcatProperties
    <3>3. CASE ~Generic[m]
      <4>1. x = a
        BY <1>6, <1>7, <2>1, <3>3, ConcatEmptySeq
      <4> QED
        BY <1>6, <1>7, <2>1, <3>3, <4>1
    <3> QED
      BY <3>2, <3>3
  <2>3. PICK xc : xc = x \o c
    OBVIOUS
  <2>4. xc \in Seq(Nat) /\ ToSet(xc) = ToSet(x) \cup ToSet(c)
    BY <1>7, <2>2, <2>3, RangeOfConcat, ConcatProperties
  <2>5. ToSet(xc \o y) = ToSet(xc) \cup ToSet(y)
    BY <2>2, <2>4, RangeOfConcat
  <2>6. ToSet(x \o c \o y) = ToSet(x) \cup ToSet(c) \cup ToSet(y)
    BY <2>3, <2>4, <2>5
  <2>7. TraysOf(Made(m)) = ToSet(x \o c \o y)
    BY <1>6, <2>1 DEF TraysOf
  <2> QED
    BY <2>2, <2>6, <2>7
<1>11. Plant!OnSite(m) = IF SiteOf(m).state = "S_ONLINE" THEN Plant!ToSet(a \o b \o c) ELSE {}
  BY <1>5 DEF Plant!OnSite
<1>12. Plant!ToSet(a \o b \o c) = ToSet(a \o b \o c)
  BY DEF Plant!ToSet, ToSet
<1> QED
  BY <1>8, <1>9, <1>10, <1>11, <1>12

\* The books of the processes and the tasks hold the trays on the floor.
LEMMA BooksAreFloor == ASSUME SiteInv, SiteLoaded PROVE BooksCoverFloor
<1>1. /\ IsFiniteSet(jobs)
      /\ jobs = UNION {TraysOf(Made(m)) : m \in EnteredMachines}
      /\ jop = {<<trays[u].model, ProcessOfTray(u), u>> : u \in jobs}
      /\ gTasks = [t \in {trays[u].model : u \in jobs} |->
                      Cardinality({u \in jobs : trays[u].model = t})]
  BY DEF SiteInv, BooksMade
<1>2. \A m \in EnteredMachines : m \in Machines
  BY LenProperties DEF SiteInv, StagesInOrder, EnteredMachines, Machines
<1>3. \A m \in Machines : Plant!OnSite(m) = IF m \in EnteredMachines THEN TraysOf(Made(m)) ELSE {}
  BY OnSiteIs
<1>4. jobs = UNION {Plant!OnSite(m) : m \in Machines}
  BY <1>1, <1>2, <1>3
<1>5. ASSUME \A m \in Machines : \A u \in Plant!OnSite(m) : ProcessOfTray(u) = ProcessOf[m],
             NEW p \in 0..NumProcesses - 1
      PROVE  {b[3] : b \in {c \in jop : c[2] = p}} =
                UNION {Plant!OnSite(m) : m \in Plant!MachinesOf(p)}
  <2>1. Plant!MachinesOf(p) = {m \in Machines : ProcessOf[m] = p}
    BY DEF Plant!MachinesOf, Plant!Machines, Machines
  <2>2. {b[3] : b \in {c \in jop : c[2] = p}} = {u \in jobs : ProcessOfTray(u) = p}
    <3>1. \A u \in jobs : LET c == <<trays[u].model, ProcessOfTray(u), u>>
                          IN  c \in jop /\ c[2] = ProcessOfTray(u) /\ c[3] = u
      BY <1>1
    <3>2. \A c \in jop : \E u \in jobs : c[2] = ProcessOfTray(u) /\ c[3] = u
      BY <1>1
    <3>3. \A u \in jobs : \E c \in jop : c[2] = ProcessOfTray(u) /\ c[3] = u
      BY <3>1
    <3> HIDE DEF ProcessOfTray
    <3> QED
      BY <3>2, <3>3
  <2> QED
    BY <1>4, <1>5, <2>1, <2>2
<1>6. ASSUME NEW t \in Model
      PROVE  Cardinality({b \in jop : b[1] = t}) = IF t \in DOMAIN gTasks THEN gTasks[t] ELSE 0
  <2> DEFINE J == {u \in jobs : trays[u].model = t}
             B == {b \in jop : b[1] = t}
             f == [u \in J |-> <<t, ProcessOfTray(u), u>>]
  <2>1. IsFiniteSet(J)
    BY <1>1, FS_Subset
  <2>2. f \in Bijection(J, B)
    <3>1. \A u \in J : f[u] = <<trays[u].model, ProcessOfTray(u), u>> /\ f[u][3] = u /\ f[u] \in B
      BY <1>1
    <3>2. \A c \in B : \E u \in J : c = f[u]
      BY <1>1
    <3> HIDE DEF J, B
    <3>3. f \in [J -> B] /\ \A u, v \in J : f[u] = f[v] => u = v
      BY <3>1
    <3> HIDE DEF f
    <3> QED
      BY <3>2, <3>3 DEF Bijection, Injection, Surjection, IsInjective
  <2>3. Cardinality(B) = Cardinality(J)
    BY <2>1, <2>2, FS_Bijection DEF ExistsBijection
  <2>4. J # {} <=> t \in DOMAIN gTasks
    BY <1>1
  <2>5. t \in DOMAIN gTasks => gTasks[t] = Cardinality(J)
    BY <1>1
  <2> QED
    BY <2>3, <2>4, <2>5, FS_EmptySet
<1> QED
  BY <1>5, <1>6 DEF BooksCoverFloor

\* The simulation starts with the books of the trays that stand on the line
\* (fits_core.cpp:1981-2018).
THEOREM BooksAreMade == StartupSpec => []BooksCoverFloor
<1>1. SiteInv => BooksCoverFloor
  BY BooksAreFloor DEF BooksCoverFloor
<1> QED
  BY <1>1, InitSite, NextSite, PTL DEF StartupSpec

-----------------------------------------------------------------------------
(* The uids of the trays on the line. *)

\* The trays that were given uids, machine by machine.
TraysRead ==
    \A m \in 0..Len(site) - 1 : \A i \in 1..Len(Kept(site[m + 1])) :
       trays[Uids(site)[m] + i] = Kept(site[m + 1])[i]

\* Later machines have higher uids.
LEMMA UidsGrow ==
    ASSUME NEW s \in Seq(FileRecord)
    PROVE  \A j \in 0..Len(s) : \A i \in 0..j : Uids(s)[i] <= Uids(s)[j]
<1> DEFINE S == {j \in 0..Len(s) : \A i \in 0..j : Uids(s)[i] <= Uids(s)[j]}
<1>1. /\ Len(s) \in Nat /\ \A i \in 0..Len(s) : Uids(s)[i] \in Nat
      /\ \A i \in 1..Len(s) : Uids(s)[i] = Uids(s)[i - 1] + Len(Kept(s[i]))
      /\ \A i \in 1..Len(s) : Len(Kept(s[i])) \in Nat
  BY LenProperties, ElementOfSeq, UidsCount, KeptType
<1>2. 0 \in S
  BY <1>1
<1>3. ASSUME NEW j \in 0..Len(s) - 1, j \in S PROVE j + 1 \in S
  <2>1. Uids(s)[j] <= Uids(s)[j + 1] /\ Uids(s)[j] \in Nat /\ Uids(s)[j + 1] \in Nat
    <3>1. j + 1 \in 1..Len(s) /\ j \in 0..Len(s) /\ j + 1 \in 0..Len(s) /\ j + 1 - 1 = j
      BY <1>1
    <3>2. Uids(s)[j + 1] = Uids(s)[j] + Len(Kept(s[j + 1])) /\ Len(Kept(s[j + 1])) \in Nat
      BY <1>1, <3>1
    <3> QED
      BY <1>1, <3>1, <3>2
  <2>2. ASSUME NEW i \in 0..j + 1 PROVE Uids(s)[i] <= Uids(s)[j + 1]
    <3>1. CASE i = j + 1
      BY <2>1, <3>1
    <3>2. CASE i # j + 1
      <4>1. i \in 0..j /\ i \in 0..Len(s)
        BY <1>1, <3>2
      <4>2. Uids(s)[i] <= Uids(s)[j] /\ Uids(s)[i] \in Nat
        BY <1>1, <1>3, <4>1
      <4> QED
        BY <2>1, <4>2
    <3> QED
      BY <3>1, <3>2
  <2> QED
    BY <1>1, <2>2
<1> HIDE DEF S
<1>4. \A j \in 0..Len(s) : j \in S
  BY <1>1, <1>2, <1>3, CountUp
<1> QED
  BY <1>4 DEF S

\* A machine that is loaded gives its trays the next uids.
LEMMA TraysReadStep == SiteInv /\ TraysRead /\ [StartupNext]_<<startupVars, vars>> => TraysRead'
<1> SUFFICES ASSUME SiteInv, TraysRead, [StartupNext]_<<startupVars, vars>> PROVE TraysRead'
  OBVIOUS
<1>1. CASE UNCHANGED <<site, trays>>
  BY <1>1 DEF TraysRead
<1>2. ASSUME NEW r \in UNION {RecordsOf[m] : m \in {Len(line)} \cap Machines}, LoadMachine(r)
      PROVE  TraysRead'
  <2> DEFINE n == Len(site)
             k == Kept(r)
  <2>1. /\ site \in Seq(FileRecord) /\ r \in FileRecord /\ n \in Nat
        /\ trays \in Seq(Part) /\ Len(trays) = Uids(site)[n]
        /\ site' = Append(site, r) /\ trays' = trays \o k
    BY <1>2, StartupAssumption, LenProperties DEF LoadMachine, SiteInv, LineRead
  <2>2. /\ site' \in Seq(FileRecord) /\ Len(site') = n + 1 /\ site'[n + 1] = r
        /\ \A i \in 1..n : site'[i] = site[i]
        /\ \A i \in 0..n : Uids(site')[i] = Uids(site)[i]
    BY <2>1, UidsStay
  <2>3. k \in Seq(Part) /\ Len(k) \in Nat
    BY <2>1, KeptType
  <2>4. /\ \A i \in 1..Len(trays) : trays'[i] = trays[i]
        /\ \A i \in 1..Len(k) : trays'[Len(trays) + i] = k[i]
        /\ Len(trays) \in Nat
    <3>1. /\ Len(trays) \in Nat
          /\ \A i \in 1..Len(trays) + Len(k) :
                trays'[i] = IF i <= Len(trays) THEN trays[i] ELSE k[i - Len(trays)]
      <4> HIDE DEF k
      <4> QED
        BY <2>1, <2>3, ConcatProperties, LenProperties
    <3> HIDE DEF k
    <3>2. ASSUME NEW i \in 1..Len(k) PROVE trays'[Len(trays) + i] = k[i]
      <4>1. /\ Len(trays) + i \in 1..Len(trays) + Len(k)
            /\ ~(Len(trays) + i <= Len(trays)) /\ (Len(trays) + i) - Len(trays) = i
        BY <2>3, <3>1
      <4> QED
        BY <3>1, <4>1
    <3>3. \A i \in 1..Len(trays) : i \in 1..Len(trays) + Len(k) /\ i <= Len(trays)
      BY <2>3, <3>1
    <3> QED
      BY <3>1, <3>2, <3>3
  <2>5. ASSUME NEW m \in 0..n, NEW i \in 1..Len(Kept(site'[m + 1]))
        PROVE  trays'[Uids(site')[m] + i] = Kept(site'[m + 1])[i]
    <3>1. CASE m = n
      <4>1. Kept(site'[m + 1]) = k /\ Uids(site')[m] = Len(trays)
        BY <2>1, <2>2, <3>1
      <4>2. i \in 1..Len(k)
        BY <4>1
      <4> QED
        BY <2>4, <4>1, <4>2
    <3>2. CASE m # n
      <4>1. m \in 0..n - 1 /\ m + 1 \in 1..n /\ m \in 0..n /\ m + 1 \in 0..n /\ m + 1 - 1 = m
        BY <2>1, <3>2
      <4>2. /\ site'[m + 1] = site[m + 1] /\ Uids(site')[m] = Uids(site)[m]
            /\ site[m + 1] \in FileRecord
        BY <2>1, <2>2, <4>1, ElementOfSeq
      <4>3. Len(Kept(site[m + 1])) \in Nat
        BY <4>2, KeptType
      <4>4. Uids(site)[m + 1] = Uids(site)[m] + Len(Kept(site[m + 1]))
        BY <2>1, <4>1, UidsCount
      <4>5. Uids(site)[m + 1] <= Uids(site)[n] /\ Uids(site)[m + 1] \in Nat /\ Uids(site)[m] \in Nat
        <5>1. n \in 0..n
          BY <2>1
        <5> QED
          BY <2>1, <4>1, <5>1, UidsGrow, UidsCount
      <4>6. i \in 1..Len(Kept(site[m + 1]))
        BY <4>2
      <4>7. Uids(site)[m] + i \in 1..Len(trays)
        <5> DEFINE x == Uids(site)[m]
                   y == Uids(site)[m + 1]
                   l == Len(Kept(site[m + 1]))
        <5>1. x \in Nat /\ l \in Nat /\ y = x + l /\ y <= Len(trays) /\ Len(trays) \in Nat
          BY <2>1, <2>4, <4>3, <4>4, <4>5
        <5>2. i \in 1..l
          BY <4>6
        <5> HIDE DEF x, y, l
        <5>3. x + i \in 1..Len(trays)
          BY <5>1, <5>2
        <5> QED
          BY <5>3 DEF x
      <4>8. trays[Uids(site)[m] + i] = Kept(site[m + 1])[i]
        BY <4>1, <4>6 DEF TraysRead
      <4> QED
        BY <2>4, <4>2, <4>7, <4>8
    <3> QED
      BY <3>1, <3>2
  <2>6. 0..Len(site') - 1 = 0..n
    BY <2>1, <2>2
  <2> QED
    BY <2>5, <2>6 DEF TraysRead
<1>3. CASE UNCHANGED lineVars
  BY <1>1, <1>3 DEF lineVars
<1>4. CASE EnterMachine
  BY <1>1, <1>4 DEF EnterMachine
<1>5. CASE UNCHANGED <<startupVars, vars>>
  BY <1>3, <1>5 DEF startupVars
<1>6. CASE ReadRequirements
  BY <1>3, <1>6 DEF ReadRequirements, startupVars
<1> QED
  BY <1>2, <1>3, <1>4, <1>5, <1>6 DEF StartupNext, CannotOpen, GiveUp, LoadConstants,
     RefuseMachine, LineLoaded, LoadClocks, EnterBooks

\* The lanes of a machine hold the uids given while its record was read.
LEMMA LanesAreNumbers ==
    ASSUME SiteInv, SiteLoaded, NEW m \in Machines
    PROVE  OnMachine(m) = NumbersFrom(Uids(site)[m], Len(Kept(site[m + 1])))
<1>1. PICK r \in FileRecord : r = site[m + 1]
  BY AtTheStart
<1>2. PICK n \in Nat : n = UidsBefore(m) /\ n = Uids(site)[m]
  BY AtTheStart
<1>3. PICK w, k, o : w = Waiting(r) /\ k = InWork(r) /\ o = Len(r.output)
  OBVIOUS
<1>4. w \in Nat /\ k \in Nat /\ o \in Nat /\ n + w \in Nat /\ w + k \in Nat
  BY <1>3, LenProperties DEF FileRecord, Waiting, InWork
<1>5. PICK a, b, c : a = NumbersFrom(n, w) /\ b = NumbersFrom(n + w, k) /\ c = NumbersFrom(n + w + k, o)
  OBVIOUS
<1>6. PICK made : made = MachineOf(m, r, n)
  OBVIOUS
<1>7. /\ made.input = a \o (IF Generic[m] THEN b ELSE <<>>)
      /\ made.model = IF Generic[m] THEN <<>> ELSE b
      /\ made.output = c
  <2>1. m \in Machines /\ r \in FileRecord /\ n \in Nat
    BY <1>1, <1>2
  <2>2. LET mk == MachineOf(m, r, n)
        IN  /\ mk.input = NumbersFrom(n, Waiting(r))
                            \o (IF Generic[m] THEN NumbersFrom(n + Waiting(r), InWork(r)) ELSE <<>>)
            /\ mk.model = IF Generic[m] THEN <<>> ELSE NumbersFrom(n + Waiting(r), InWork(r))
            /\ mk.output = NumbersFrom(n + Waiting(r) + InWork(r), Len(r.output))
    BY <2>1, MachineLanes
  <2> QED
    BY <1>3, <1>5, <1>6, <2>2, Zenon
<1>8. /\ line[m + 1].input = made.input /\ line[m + 1].model = made.model
      /\ line[m + 1].output = made.output
  <2>1. made \in LoadedRecord
    BY <1>1, <1>2, <1>6, MachineOfType
  <2>2. Made(m) = made
    BY <1>1, <1>2, <1>6 DEF Made
  <2>3. line[m + 1] = IF site[m + 1].state = "S_ONLINE" THEN Repaired(made) ELSE made
    BY <2>2, AtTheStart
  <2> QED
    BY <2>1, <2>3, RepairedFields
<1>9. PICK x, y : x = made.input /\ y = made.model
  OBVIOUS
<1>10. x \o y = NumbersFrom(n, w + k)
  <2>1. a \o b = NumbersFrom(n, w + k) /\ a \in Seq(Nat) /\ b \in Seq(Nat)
    BY <1>4, <1>5, NumbersConcat, NumbersType
  <2>2. CASE Generic[m]
    <3>1. PICK ab : ab = a \o b
      OBVIOUS
    <3>2. x = ab /\ y = <<>> /\ ab \in Seq(Nat)
      BY <1>7, <1>9, <2>1, <2>2, <3>1, ConcatProperties
    <3>3. ab \o <<>> = ab
      BY <3>2, ConcatEmptySeq
    <3> QED
      BY <2>1, <3>1, <3>2, <3>3
  <2>3. CASE ~Generic[m]
    <3>1. x = a /\ y = b
      BY <1>7, <1>9, <2>1, <2>3, ConcatEmptySeq
    <3> QED
      BY <2>1, <3>1
  <2> QED
    BY <2>2, <2>3
<1>11. NumbersFrom(n, w + k) \o c = NumbersFrom(n, w + k + o)
  <2>1. n + w + k = n + (w + k)
    BY <1>4
  <2>2. c = NumbersFrom(n + (w + k), o)
    BY <1>5, <2>1
  <2> QED
    BY <1>4, <2>2, NumbersConcat
<1>12. OnMachine(m) = x \o y \o c
  BY <1>7, <1>8, <1>9 DEF OnMachine
<1>13. Len(Kept(r)) = w + k + o
  <2>1. r.input \in Seq(Part) /\ r.producting \in Seq(Part) /\ r.output \in Seq(Part)
    BY DEF FileRecord
  <2>2. CASE r.state = "S_ONLINE"
    <3>1. PICK ip : ip = r.input \o r.producting
      OBVIOUS
    <3>2. ip \in Seq(Part) /\ Len(ip) = Len(r.input) + Len(r.producting)
      BY <2>1, <3>1, ConcatProperties
    <3>3. Len(ip \o r.output) = Len(ip) + Len(r.output)
      BY <2>1, <3>2, ConcatProperties
    <3> QED
      BY <1>3, <2>2, <3>1, <3>2, <3>3 DEF Kept, Waiting, InWork
  <2>3. CASE r.state # "S_ONLINE"
    BY <1>3, <1>4, <2>3 DEF Kept, Waiting, InWork
  <2> QED
    BY <2>2, <2>3
<1> QED
  BY <1>1, <1>2, <1>10, <1>11, <1>12, <1>13

\* No two trays share a uid, and each is found under its own.
LEMMA OwnUids == ASSUME SiteInv, TraysRead, SiteLoaded PROVE TraysAreTheirOwn
<1>1. Len(site) = NumMachines /\ Len(site) \in Nat /\ site \in Seq(FileRecord)
  BY LenProperties DEF SiteInv, LineRead, StagesInOrder
<1> DEFINE U(m) == Uids(site)[m]
           K(m) == Len(Kept(site[m + 1]))
<1>2. \A m \in Machines : /\ U(m) \in Nat /\ K(m) \in Nat /\ U(m + 1) = U(m) + K(m)
                          /\ m \in 0..Len(site) - 1 /\ Kept(site[m + 1]) \in Seq(Part)
  <2> TAKE m \in Machines
  <2>1. m \in 0..Len(site) /\ m + 1 \in 1..Len(site) /\ m + 1 - 1 = m /\ m \in 0..Len(site) - 1
    BY <1>1 DEF Machines
  <2>2. site[m + 1] \in FileRecord
    BY <1>1, <2>1, ElementOfSeq
  <2>3. K(m) \in Nat /\ Kept(site[m + 1]) \in Seq(Part)
    BY <2>2, KeptType
  <2>4. U(m) \in Nat /\ U(m + 1) = U(m) + K(m)
    <3>1. \A i \in 1..Len(site) : Uids(site)[i] = Uids(site)[i - 1] + Len(Kept(site[i]))
      BY <1>1, UidsCount
    <3>2. Uids(site)[m + 1] = Uids(site)[m] + Len(Kept(site[m + 1]))
      BY <2>1, <3>1
    <3>3. Uids(site)[m] \in Nat
      BY <1>1, <2>1, UidsCount
    <3> QED
      BY <3>2, <3>3
  <2> QED
    BY <2>1, <2>3, <2>4
<1>3. \A m \in Machines : /\ OnMachine(m) \in Seq(Nat) /\ Len(OnMachine(m)) = K(m)
                          /\ \A i \in 1..K(m) : OnMachine(m)[i] = U(m) + i
                          /\ ToSet(OnMachine(m)) = U(m) + 1..U(m) + K(m)
  <2> TAKE m \in Machines
  <2>1. OnMachine(m) = NumbersFrom(U(m), K(m))
    BY LanesAreNumbers
  <2>2. U(m) \in Nat /\ K(m) \in Nat
    BY <1>2
  <2> HIDE DEF U, K
  <2> QED
    BY <2>1, <2>2, NumbersType
<1>4. ASSUME NEW m \in Machines, NEW n \in Machines, m < n PROVE U(m) + K(m) <= U(n)
  <2>1. n \in 0..Len(site) /\ m + 1 \in 0..n
    BY <1>1, <1>4 DEF Machines
  <2>2. U(m + 1) <= U(n)
    BY <1>1, <2>1, UidsGrow
  <2> QED
    BY <1>2, <2>2
<1>5. ASSUME NEW m \in Machines PROVE IsInjective(OnMachine(m))
  <2>1. DOMAIN OnMachine(m) = 1..K(m)
    BY <1>3, LenProperties
  <2>2. \A i, j \in 1..K(m) : U(m) + i = U(m) + j => i = j
    BY <1>2
  <2> HIDE DEF U, K
  <2> QED
    BY <1>3, <2>1, <2>2 DEF IsInjective
<1>6. ASSUME NEW m \in Machines, NEW n \in Machines, m # n
      PROVE  ToSet(OnMachine(m)) \cap ToSet(OnMachine(n)) = {}
  <2>1. m < n \/ n < m
    BY <1>6 DEF Machines
  <2>2. /\ ToSet(OnMachine(m)) = U(m) + 1..U(m) + K(m) /\ U(m) \in Nat /\ K(m) \in Nat
        /\ ToSet(OnMachine(n)) = U(n) + 1..U(n) + K(n) /\ U(n) \in Nat /\ K(n) \in Nat
    BY <1>2, <1>3
  <2>3. U(m) + K(m) <= U(n) \/ U(n) + K(n) <= U(m)
    BY <1>4, <2>1
  <2> HIDE DEF U, K
  <2> QED
    BY <2>2, <2>3
<1>7. ASSUME NEW m \in Machines
      PROVE  [i \in DOMAIN OnMachine(m) |-> trays[OnMachine(m)[i]]] = Kept(site[m + 1])
  <2>1. DOMAIN OnMachine(m) = 1..K(m)
    BY <1>3, LenProperties
  <2>2. PICK kept \in Seq(Part) : kept = Kept(site[m + 1]) /\ Len(kept) = K(m)
    BY <1>2
  <2>3. \A i \in 1..K(m) : trays[OnMachine(m)[i]] = kept[i]
    <3>1. m \in 0..Len(site) - 1
      BY <1>2
    <3>2. \A i \in 1..K(m) : trays[U(m) + i] = Kept(site[m + 1])[i]
      BY <3>1 DEF TraysRead
    <3>3. \A i \in 1..K(m) : OnMachine(m)[i] = U(m) + i
      BY <1>3
    <3> HIDE DEF U, K
    <3> QED
      BY <2>2, <3>2, <3>3
  <2>4. kept = [i \in 1..K(m) |-> kept[i]]
    BY <2>2
  <2> HIDE DEF K
  <2> QED
    BY <2>1, <2>2, <2>3, <2>4
<1> QED
  BY <1>5, <1>6, <1>7 DEF TraysAreTheirOwn

\* The books find every tray under its uid (loader.cpp:148-212).
THEOREM EveryTrayIsItsOwn == StartupSpec => []TraysAreTheirOwn
<1>1. StartupInit => TraysRead
  BY DEF StartupInit, TraysRead
<1>2. SiteInv /\ TraysRead => TraysAreTheirOwn
  BY OwnUids DEF TraysAreTheirOwn
<1> QED
  BY <1>1, <1>2, InitSite, NextSite, TraysReadStep, PTL DEF StartupSpec
=============================================================================
