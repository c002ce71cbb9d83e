----------------------------- MODULE FetchKeys -----------------------------
(***************************************************************************)
(* How MysqlFetch names the columns of a result.  A row becomes a          *)
(* dictionary, and every reader spells the keys out.  A column's key is    *)
(* its name as long as all columns so far come from one table, and         *)
(* table.name once a second table has been seen: the key depends on what   *)
(* is selected to the left of the column.  The statements and the keys     *)
(* their readers use are in Statements.                                    *)
(***************************************************************************)
EXTENDS Naturals, Sequences

CONSTANTS
    Table, Field,
    Bare,           \* the table of a key without one
    Statement,      \* the statements the application fetches with
    Columns,        \* the columns each selects, <<table, field>>
    Reads           \* the keys its readers look up, <<table or Bare, field>>

Key == (Table \cup {Bare}) \X Field

ASSUME BareAssumption == Bare \notin Table
ASSUME ColumnsAssumption ==
    /\ Columns \in [Statement -> Seq(Table \X Field)]
    /\ \A s \in Statement : \A i, j \in 1..Len(Columns[s]) :
        Columns[s][i] = Columns[s][j] => i = j
ASSUME ReadsAssumption == Reads \in [Statement -> SUBSET Key]

\* What the text of a statement says of its n-th column: whether it and those to
\* its left come from one table, and the key a reader of that text expects.
OneTable(s, n) == \A i, j \in 1..n : Columns[s][i][1] = Columns[s][j][1]
ExpectedKey(s, n) ==
    <<IF OneTable(s, n) THEN Bare ELSE Columns[s][n][1], Columns[s][n][2]>>

\* The reader of the trigger of a Costco due date within three days spells the
\* date without its table, which is the second of the result.
Misread(s, key) == s = "dueTriggers" /\ key = <<Bare, "costcoDueDate">>

\* All others go by the text of the statement.
ASSUME ReadersAssumption ==
    \A s \in Statement : \A key \in Reads[s] :
        (\A n \in 1..Len(Columns[s]) : key # ExpectedKey(s, n)) <=> Misread(s, key)

VARIABLES
    statement,      \* what is being fetched
    x,              \* the columns described so far
    sourceTables,   \* their tables
    keys,           \* fieldNameCollector
    results         \* the keys of a row's dictionary, once rows are fetched

vars == <<statement, x, sourceTables, keys, results>>

TypeOK ==
    /\ statement \in Statement
    /\ x \in 0..Len(Columns[statement])
    /\ sourceTables \subseteq Table
    /\ keys \in Seq(Key) /\ Len(keys) = x
    /\ results \subseteq Key

Init ==
    /\ statement \in Statement
    /\ x = 0 /\ sourceTables = {} /\ keys = <<>> /\ results = {}

\* Mutant of KeyOf: the table is named when it is not the first column's.
KeyOfOther(column, tables) ==
    <<IF column[1] # Columns[statement][1][1] THEN column[1] ELSE Bare, column[2]>>

\* Mutant of KeyOf: the table is left out.
KeyOfBare(column, tables) == <<Bare, column[2]>>

\* [sourceTables count] > 1: tables holds the column's own and another one.
KeyOf(column, tables) ==
    <<IF \E table \in tables : table # column[1] THEN column[1] ELSE Bare, column[2]>>

\* Mutant of Describe: a table's columns after the first are passed over.
DescribeFirst ==
    /\ x < Len(Columns[statement])
    /\ LET column == Columns[statement][x + 1]
       IN  /\ sourceTables' = sourceTables \cup {column[1]}
           /\ keys' = (IF column[1] \in sourceTables THEN keys
                       ELSE Append(keys, KeyOf(column, sourceTables')))
    /\ x' = x + 1
    /\ UNCHANGED <<statement, results>>

\* One turn of the loop over the columns.
Describe ==
    /\ x < Len(Columns[statement])
    /\ LET column == Columns[statement][x + 1]
       IN  /\ sourceTables' = sourceTables \cup {column[1]}
           /\ keys' = Append(keys, KeyOf(column, sourceTables'))
    /\ x' = x + 1
    /\ UNCHANGED <<statement, results>>

\* A row becomes a dictionary with these keys.
FetchRows ==
    /\ x = Len(Columns[statement]) /\ results = {}
    /\ results' = {keys[i] : i \in 1..x}
    /\ UNCHANGED <<statement, x, sourceTables, keys>>

\* The rows are read, and the next statement is fetched.
FetchWithCommand(s) ==
    /\ results # {}
    /\ statement' = s
    /\ x' = 0 /\ sourceTables' = {} /\ keys' = <<>> /\ results' = {}

Next == Describe \/ FetchRows \/ \E s \in Statement : FetchWithCommand(s)

Spec == Init /\ [][Next]_vars

-----------------------------------------------------------------------------
(* Properties. *)

\* No two columns of a result share a key: a row's dictionary keeps every
\* column, although the tables have fields of the same name.
KeysDistinct == \A i, j \in 1..x : keys[i] = keys[j] => i = j

\* Every key the application looks up in a row is one of its columns, bar one:
\* the due date of a trigger, which shows (null).
KeysFound ==
    results # {} =>
        \A key \in Reads[statement] : key \notin results <=> Misread(statement, key)
=============================================================================
