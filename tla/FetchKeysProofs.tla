-------------------------- MODULE FetchKeysProofs --------------------------
(***************************************************************************)
(* Proofs about FetchKeys: whatever the statements are, the keys of a      *)
(* result are distinct, and a reader of the SELECT can tell them.          *)
(***************************************************************************)
EXTENDS FetchKeys, TLAPS

\* The tables of the first n columns.
TablesTo(s, n) == {Columns[s][i][1] : i \in 1..n}

\* What the loop has established after x turns.
KeysInv ==
    /\ TypeOK
    /\ sourceTables = TablesTo(statement, x)
    /\ \A n \in 1..x : keys[n] = ExpectedKey(statement, n)
    /\ results # {} => x = Len(Columns[statement]) /\ results = {keys[n] : n \in 1..x}

\* Two columns of one statement have two keys.
LEMMA ExpectedKeysDistinct ==
    ASSUME NEW s \in Statement, NEW i \in 1..Len(Columns[s]), NEW j \in 1..Len(Columns[s]),
           ExpectedKey(s, i) = ExpectedKey(s, j)
    PROVE  i = j
<1> DEFINE c == Columns[s]
<1>1. c \in Seq(Table \X Field)
  BY ColumnsAssumption
<1>2. c[i] \in Table \X Field /\ c[j] \in Table \X Field
  BY <1>1
<1>3. c[i][1] # Bare /\ c[j][1] # Bare
  BY <1>2, BareAssumption
<1>4. c[i][2] = c[j][2]
  BY DEF ExpectedKey
<1>5. OneTable(s, i) <=> OneTable(s, j)
  BY <1>3 DEF ExpectedKey
<1>6. c[i][1] = c[j][1]
  <2>1. CASE OneTable(s, i)
    <3>1. CASE i <= j
      BY <1>5, <2>1, <3>1 DEF OneTable
    <3>2. CASE j <= i
      BY <2>1, <3>2 DEF OneTable
    <3> QED
      BY <3>1, <3>2
  <2>2. CASE ~OneTable(s, i)
    BY <1>5, <2>2 DEF ExpectedKey
  <2> QED
    BY <2>1, <2>2
<1>7. c[i] = c[j]
  BY <1>2, <1>4, <1>6
<1> QED
  BY <1>7, ColumnsAssumption

\* The test of the loop, whether a second table has been seen, is the reader's.
LEMMA KeyOfExpected ==
    ASSUME NEW s \in Statement, NEW n \in 1..Len(Columns[s])
    PROVE  KeyOf(Columns[s][n], TablesTo(s, n)) = ExpectedKey(s, n)
<1>1. n \in 1..n
  BY ColumnsAssumption
<1>2. ASSUME NEW table \in TablesTo(s, n), table # Columns[s][n][1]
      PROVE  ~OneTable(s, n)
  <2>1. PICK i \in 1..n : table = Columns[s][i][1]
    BY <1>2 DEF TablesTo
  <2> QED
    BY <1>1, <1>2, <2>1 DEF OneTable
<1>3. ASSUME ~OneTable(s, n)
      PROVE  \E table \in TablesTo(s, n) : table # Columns[s][n][1]
  <2>1. PICK i \in 1..n, j \in 1..n : Columns[s][i][1] # Columns[s][j][1]
    BY <1>3 DEF OneTable
  <2>2. Columns[s][i][1] \in TablesTo(s, n) /\ Columns[s][j][1] \in TablesTo(s, n)
    BY DEF TablesTo
  <2> QED
    BY <2>1, <2>2
<1>4. (\E table \in TablesTo(s, n) : table # Columns[s][n][1]) <=> ~OneTable(s, n)
  BY <1>2, <1>3
<1> QED
  BY <1>4 DEF KeyOf, ExpectedKey

\* One more column adds its table.
LEMMA TablesGrow ==
    ASSUME NEW s \in Statement, NEW n \in Nat
    PROVE  TablesTo(s, n + 1) = TablesTo(s, n) \cup {Columns[s][n + 1][1]}
<1>1. 1..(n + 1) = (1..n) \cup {n + 1}
  OBVIOUS
<1> QED
  BY <1>1 DEF TablesTo

\* The loop makes the expected keys, at every turn and for every statement.
THEOREM KeysInvariance == Spec => []KeysInv
<1>1. Init => KeysInv
  <2> SUFFICES ASSUME Init PROVE KeysInv
    OBVIOUS
  <2>1. Len(Columns[statement]) \in Nat
    BY ColumnsAssumption DEF Init
  <2>2. <<>> \in Seq(Key) /\ Len(<<>>) = 0
    OBVIOUS
  <2>3. TypeOK
    BY <2>1, <2>2 DEF Init, TypeOK
  <2>4. sourceTables = TablesTo(statement, x)
    BY DEF Init, TablesTo
  <2> QED
    BY <2>3, <2>4 DEF Init, KeysInv
<1>2. KeysInv /\ [Next]_vars => KeysInv'
  <2> SUFFICES ASSUME KeysInv, [Next]_vars PROVE KeysInv'
    OBVIOUS
  <2>1. CASE Describe
    <3> DEFINE c == Columns[statement]
               key == KeyOf(c[x + 1], sourceTables')
    <3>1. Len(c) \in Nat /\ statement \in Statement /\ x \in Nat
      BY ColumnsAssumption DEF KeysInv, TypeOK
    <3>2. x + 1 \in 1..Len(c) /\ x + 1 \in 0..Len(c)
      BY <2>1, <3>1 DEF Describe
    <3>3. /\ x' = x + 1 /\ statement' = statement /\ results' = results
          /\ sourceTables' = sourceTables \cup {c[x + 1][1]}
          /\ keys' = Append(keys, key)
      BY <2>1 DEF Describe
    <3>4. c[x + 1] \in Table \X Field
      BY <3>1, <3>2, ColumnsAssumption
    <3>5. sourceTables' = TablesTo(statement, x + 1)
      BY <3>1, <3>3, TablesGrow DEF KeysInv
    <3>6. key = ExpectedKey(statement, x + 1)
      BY <3>1, <3>2, <3>5, KeyOfExpected
    <3>7. key \in Key
      BY <3>4 DEF KeyOf, Key
    <3> HIDE DEF key
    <3>8. /\ keys' \in Seq(Key) /\ Len(keys') = x + 1
          /\ keys'[x + 1] = key
          /\ \A n \in 1..x : keys'[n] = keys[n]
      BY <3>3, <3>7 DEF KeysInv, TypeOK
    <3>9. TypeOK'
      BY <3>2, <3>3, <3>4, <3>8 DEF KeysInv, TypeOK
    <3>10. \A n \in 1..(x + 1) : keys'[n] = ExpectedKey(statement, n)
      BY <3>1, <3>6, <3>8 DEF KeysInv
    <3>11. results' = {}
      BY <2>1, <3>1, <3>3 DEF Describe, KeysInv
    <3> QED
      BY <3>3, <3>5, <3>9, <3>10, <3>11 DEF KeysInv
  <2>2. CASE FetchRows
    <3>1. results' \subseteq Key
      BY <2>2 DEF FetchRows, KeysInv, TypeOK
    <3>2. UNCHANGED <<statement, x, sourceTables, keys>>
      BY <2>2 DEF FetchRows
    <3>3. TypeOK'
      BY <3>1, <3>2 DEF KeysInv, TypeOK
    <3>4. x' = Len(Columns[statement']) /\ results' = {keys'[n] : n \in 1..x'}
      BY <2>2, <3>2 DEF FetchRows
    <3> QED
      BY <3>2, <3>3, <3>4 DEF KeysInv
  <2>3. ASSUME NEW s \in Statement, FetchWithCommand(s) PROVE KeysInv'
    <3>1. Len(Columns[s]) \in Nat
      BY ColumnsAssumption
    <3>2. <<>> \in Seq(Key) /\ Len(<<>>) = 0
      OBVIOUS
    <3>3. TypeOK'
      BY <2>3, <3>1, <3>2 DEF FetchWithCommand, TypeOK
    <3>4. TablesTo(s, 0) = {}
      BY DEF TablesTo
    <3> QED
      BY <2>3, <3>3, <3>4 DEF FetchWithCommand, KeysInv
  <2>4. CASE UNCHANGED vars
    <3>1. TypeOK'
      BY <2>4 DEF vars, KeysInv, TypeOK
    <3> QED
      BY <2>4, <3>1 DEF vars, KeysInv
  <2> QED
    BY <2>1, <2>2, <2>3, <2>4 DEF Next
<1> QED
  BY <1>1, <1>2, PTL DEF Spec

\* The tables seen, the keys and the place of the loop keep to their types.
THEOREM FetchTyped == Spec => []TypeOK
<1>1. KeysInv => TypeOK
  BY DEF KeysInv
<1> QED
  BY <1>1, KeysInvariance, PTL

\* No row loses a column to another one of the same key, whatever is selected.
THEOREM NoColumnLost == Spec => []KeysDistinct
<1>1. KeysInv => KeysDistinct
  <2> SUFFICES ASSUME KeysInv, NEW i \in 1..x, NEW j \in 1..x, keys[i] = keys[j]
               PROVE  i = j
    BY DEF KeysDistinct
  <2>1. i \in 1..Len(Columns[statement]) /\ j \in 1..Len(Columns[statement])
    BY ColumnsAssumption DEF KeysInv, TypeOK
  <2>2. ExpectedKey(statement, i) = ExpectedKey(statement, j)
    BY DEF KeysInv
  <2> QED
    BY <2>1, <2>2, ExpectedKeysDistinct DEF KeysInv, TypeOK
<1> QED
  BY <1>1, KeysInvariance, PTL

\* A fetched row is found under the keys that the text of the statement calls
\* for and under no others: its readers need not know how the loop names columns.
LEMMA RowsHoldExpectedKeys ==
    ASSUME KeysInv, results # {}
    PROVE  results = {ExpectedKey(statement, n) : n \in 1..Len(Columns[statement])}
<1>1. x = Len(Columns[statement]) /\ results = {keys[n] : n \in 1..x}
  BY DEF KeysInv
<1>2. \A n \in 1..x : keys[n] = ExpectedKey(statement, n)
  BY DEF KeysInv
<1> QED
  BY <1>1, <1>2

\* Every key a screen looks up is in the rows it looks into, but for the due
\* date of a trigger: what the readers' keys say of the text of the statement
\* (ReadersAssumption) holds of the rows the loop makes.
THEOREM KeysAreFound == Spec => []KeysFound
<1>1. KeysInv => KeysFound
  <2> SUFFICES ASSUME KeysInv, results # {}, NEW key \in Reads[statement]
               PROVE  key \notin results <=> Misread(statement, key)
    BY DEF KeysFound
  <2>1. statement \in Statement
    BY DEF KeysInv, TypeOK
  <2>2. key \notin results <=>
          \A n \in 1..Len(Columns[statement]) : key # ExpectedKey(statement, n)
    BY RowsHoldExpectedKeys
  <2> QED
    BY <2>1, <2>2, ReadersAssumption
<1> QED
  BY <1>1, KeysInvariance, PTL
=============================================================================
