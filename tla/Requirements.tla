------------------------------ MODULE Requirements ------------------------------
(***************************************************************************)
(* How the file of requirements becomes the days that refresh() reads in   *)
(* (parseRequirement2 of fits_core.cpp, put of tasks.hpp).  The file is a  *)
(* header of dates and a row of quantities for each model.  The header is  *)
(* read cell by cell, then the rows; then every date of the header is put  *)
(* into the TasksManager, which knows a day by its date and by its index.  *)
(*                                                                         *)
(* The cells are dates, names and numbers here, not text; the cell above   *)
(* the names, which is not a date, is left out.                            *)
(***************************************************************************)
EXTENDS Integers, Sequences, FiniteSets

CONSTANTS
    Heading,  \* what may stand in the header
    Date,     \* what of it looks like a date
    Name,     \* the models that may stand in the file
    Model,    \* the models the program knows
    Quantity, \* the numbers of parts that may be required
    CAPACITY, \* parts in a tray (48)
    MaxDays,  \* bound: columns of the file behind the names
    MaxRows   \* bound: rows of the file

ASSUME RequirementsAssumption ==
    /\ Date \subseteq Heading
    /\ Model \subseteq Name
    /\ Quantity \subseteq Nat
    /\ CAPACITY \in Nat \ {0}
    /\ MaxDays \in Nat /\ MaxRows \in Nat

VARIABLES
    header,  \* the cells of the header
    days,    \* those that are taken for dates
    mapping, \* mapping[n]: the row of model n; only for names that have one
    rows,    \* rows read so far
    column,  \* columns put so far
    tasks,   \* tasks[d]: the trays of each model for date d; only for dates that were put
    indexer, \* indexer[i]: the date with index i
    pc

vars == <<header, days, mapping, rows, column, tasks, indexer, pc>>

SeqUpTo(S, n) == UNION {[1..k -> S] : k \in 0..n}

Init ==
    /\ header = <<>>
    /\ days = <<>>
    /\ mapping = [n \in {} |-> <<>>]
    /\ rows = 0
    /\ column = 0
    /\ tasks = [d \in {} |-> <<>>]
    /\ indexer = [i \in {} |-> <<>>]
    /\ pc = "header"

Extended(f, x, y) == [z \in DOMAIN f \cup {x} |-> IF z = x THEN y ELSE f[z]]

\* A cell that is not a date is passed over; the numbers below it are not.
DaysWith(cell) == IF cell \in Date THEN Append(days, cell) ELSE days

\* A cell with a comma behind it.
ReadHeading(cell) ==
    /\ pc = "header"
    /\ Len(header) < MaxDays
    /\ header' = Append(header, cell)
    /\ days' = DaysWith(cell)
    /\ UNCHANGED <<mapping, rows, column, tasks, indexer, pc>>

\* What stands behind the last comma is taken for a date, whatever it is.
ReadLastHeading(cell) ==
    /\ pc = "header"
    /\ Len(header) < MaxDays
    /\ header' = Append(header, cell)
    /\ days' = Append(days, cell)
    /\ pc' = "rows"
    /\ UNCHANGED <<mapping, rows, column, tasks, indexer>>

\* Nothing stands behind the last comma.
EndOfHeader ==
    /\ pc = "header"
    /\ pc' = "rows"
    /\ UNCHANGED <<header, days, mapping, rows, column, tasks, indexer>>

\* A row is read; it replaces an earlier one of the same model.  It may have
\* fewer numbers than there are dates.
ReadRow(n, quantities) ==
    /\ pc = "rows"
    /\ rows < MaxRows
    /\ mapping' = Extended(mapping, n, quantities)
    /\ rows' = rows + 1
    /\ UNCHANGED <<header, days, column, tasks, indexer, pc>>

EndOfFile ==
    /\ pc = "rows"
    /\ pc' = "days"
    /\ UNCHANGED <<header, days, mapping, rows, column, tasks, indexer>>

\* Variant: a tray that is not full is not counted.
FullTrays(parts) == parts \div CAPACITY

\* The trays for a number of parts.
Trays(parts) == parts \div CAPACITY + IF parts % CAPACITY > 0 THEN 1 ELSE 0

\* What is required of model n in column i; nothing where the row has ended.
Cell(n, i) == IF i <= Len(mapping[n]) THEN mapping[n][i] ELSE 0

\* The tasks of a column: one for every model that has a row and is known.
TasksOf(i) == [n \in Model \cap DOMAIN mapping |-> Trays(Cell(n, i))]

\* Variant: the index is the column, whatever dates came before.
IndexedByColumn(d) ==
    IF column \in DOMAIN indexer THEN indexer ELSE Extended(indexer, column, d)

\* Variant: the index is taken from the number of dates before this one.
IndexedBeforePut(d) ==
    LET indexOfDay == Cardinality(DOMAIN tasks) - 1
    IN IF indexOfDay \in DOMAIN indexer THEN indexer ELSE Extended(indexer, indexOfDay, d)

\* The index of the date that was put last is one less than the number of
\* dates; an index that is taken stays.
Indexed(d) ==
    LET indexOfDay == Cardinality(DOMAIN tasks \cup {d}) - 1
    IN IF indexOfDay \in DOMAIN indexer THEN indexer ELSE Extended(indexer, indexOfDay, d)

\* put(): the tasks of the next column replace those its date may have.
Put ==
    /\ pc = "days"
    /\ column < Len(days)
    /\ LET d == days[column + 1]
       IN /\ tasks' = Extended(tasks, d, TasksOf(column + 1))
          /\ indexer' = Indexed(d)
    /\ column' = column + 1
    /\ UNCHANGED <<header, days, mapping, rows, pc>>

Done ==
    /\ pc = "days"
    /\ column = Len(days)
    /\ pc' = "done"
    /\ UNCHANGED <<header, days, mapping, rows, column, tasks, indexer>>

Next ==
    \/ \E cell \in Heading : ReadHeading(cell) \/ ReadLastHeading(cell)
    \/ EndOfHeader
    \/ \E n \in Name, quantities \in SeqUpTo(Quantity, MaxDays) : ReadRow(n, quantities)
    \/ EndOfFile \/ Put \/ Done

Spec == Init /\ [][Next]_vars

-----------------------------------------------------------------------------
\* fill() goes on from index to index until it has seen as many as there are
\* (tasks.hpp:46-50 and tasks.cpp:33): no index is missing and no date is there
\* twice, also when the header repeats a date.
DaysAreIndexed ==
    /\ DOMAIN indexer = 0..Cardinality(DOMAIN tasks) - 1
    /\ \A d \in DOMAIN tasks : \E i \in DOMAIN indexer : indexer[i] = d
    /\ \A i, j \in DOMAIN indexer : indexer[i] = indexer[j] => i = j

\* When no date is repeated, the index of a day is its column, by which its
\* tasks were given their deadline (fits_core.cpp:1082).
IndexIsColumn ==
    (\A i, j \in 1..Len(days) : days[i] = days[j] => i = j)
       => \A i \in DOMAIN indexer : i + 1 \in DOMAIN days /\ indexer[i] = days[i + 1]

\* The order of every date is covered, unless a later column is of the same
\* date: there are trays for all the parts below it, and none that would stay
\* empty (fits_core.cpp:1075-1080).  Behind a cell that is not a date the
\* columns belong to the dates before them (fits_core.cpp:1007).
OrdersCovered ==
    pc = "done" =>
       \A c \in 1..Len(header), n \in Model \cap DOMAIN mapping :
          /\ \A i \in 1..c : header[i] \in Date
          /\ \A j \in c + 1..Len(days) : days[j] # header[c]
          => LET parts == tasks[header[c]][n] * CAPACITY
             IN Cell(n, c) <= parts /\ parts < Cell(n, c) + CAPACITY
=============================================================================
