------------------------- MODULE StoredEvidenceProofs -------------------------
(***************************************************************************)
(* Theorems about what the database keeps as evidence: the rows of governed *)
(* actuation and restore, for any recommendations, principals and number   *)
(* of changed columns, and the audit trail, for any writers, clocks and    *)
(* bounds.                                                                 *)
(*                                                                         *)
(* A digest is a record of the row it is taken over, so one that fits is   *)
(* that of the row written; the rows written are linked as the steps made  *)
(* them, and reads climb those links.  No digest is taken over a           *)
(* transition: that a receipt names the one written for it is proved where *)
(* at most one column has changed, and is false beyond.                    *)
(*                                                                         *)
(* The links of the recorded events follow from those of every transaction *)
(* in progress: within what a writer sees, each event has its predecessor, *)
(* and so will the event it has added.  Others only ever add to that view. *)
(***************************************************************************)
EXTENDS GovernedEvidence, AuditChain, SequenceTheorems, TLAPS

-----------------------------------------------------------------------------
(* The rows of the tables and of their history *)

Kinds == {"recommendation", "request", "decision", "transition", "execution",
          "restore_request", "restore_decision", "restore_execution"}
Digested == Kinds \ {"recommendation", "transition"}

Columns ==
    [recommendation |-> {"id", "subject", "facts", "digest"},
     request |-> RequestColumns, decision |-> DecisionColumns,
     transition |-> {"id", "agent", "incident", "reference", "target", "by"},
     execution |-> ExecutionColumns, restore_request |-> RestoreRequestColumns,
     restore_decision |-> RestoreDecisionColumns,
     restore_execution |-> RestoreExecutionColumns]

\* The column that ties a row to what it was: a transition has a reference.
SealOf(kind) == IF kind = "transition" THEN "reference" ELSE "digest"

DigestOf(kind, row) == Over(row, Columns[kind] \ {"digest"})

IsRow(kind, i, row) == row = [c \in Columns[kind] |-> row[c]] /\ row.id = i

IsTable(rows) ==
    /\ rows = [kind \in Kinds |-> rows[kind]]
    /\ \A kind \in Kinds : \E S : rows[kind] \in Seq(S)
    /\ \A kind \in Kinds : \A i \in DOMAIN rows[kind] : IsRow(kind, i, rows[kind][i])

Shaped ==
    /\ IsTable(table) /\ IsTable(written)
    /\ \A kind \in Kinds : Len(table[kind]) = Len(written[kind])

\* A digest or a reference in a table, if it is one, is that of a row written.
SealsKnown ==
    \A kind \in Kinds : \A i \in Ids(kind) :
        \/ table[kind][i][SealOf(kind)] = Nonsense
        \/ \E j \in DOMAIN written[kind] :
              table[kind][i][SealOf(kind)] = written[kind][j][SealOf(kind)]

RowsSealed ==
    /\ \A kind \in Digested : \A i \in DOMAIN written[kind] :
          written[kind][i].digest = DigestOf(kind, written[kind][i])
    /\ written.recommendation = [r \in DOMAIN Promotions |-> Recommendation(r)]

ChangedOnly(kind, i, column) ==
    \A k \in Kinds : \A j \in Ids(k) : \A c \in Columns[k] :
        <<k, j, c>> # <<kind, i, column>> => table[k][j][c] = written[k][j][c]

\* Where one column has changed, the others are as they were written.
ColumnsStay ==
    /\ damages \in Nat
    /\ damages = 0 => table = written
    /\ damages = 1 =>
          \E kind \in Kinds : \E i, column : ChangedOnly(kind, i, column)

Stored == Shaped /\ SealsKnown /\ RowsSealed /\ ColumnsStay

-----------------------------------------------------------------------------
LEMMA AppendedRow ==
    ASSUME NEW S, NEW s \in Seq(S), NEW e
    PROVE  /\ \E T : Append(s, e) \in Seq(T)
           /\ Len(s) \in Nat
           /\ Len(Append(s, e)) = Len(s) + 1
           /\ DOMAIN s = 1..Len(s)
           /\ DOMAIN Append(s, e) = 1..(Len(s) + 1)
           /\ \A i \in DOMAIN s : Append(s, e)[i] = s[i]
           /\ Append(s, e)[Len(s) + 1] = e
<1> DEFINE T == S \cup {e}
<1>1. s \in Seq(T)
  BY SeqMonotonic
<1>2. e \in T
  OBVIOUS
<1> HIDE DEF T
<1>3. Append(s, e) \in Seq(T)
  BY <1>1, <1>2
<1> QED BY <1>1, <1>2, <1>3

LEMMA SealedRow ==
    ASSUME NEW columns, "digest" \notin columns, NEW row, DOMAIN row = columns
    PROVE  LET r == Sealed(row, Over(row, columns)) IN
           /\ r = [c \in columns \cup {"digest"} |-> r[c]]
           /\ \A c \in columns : r[c] = row[c]
           /\ r.digest = Over(r, columns)
BY DEF Sealed, Over

\* A row whose digest is over itself is the row that was written.
LEMMA FittingRow ==
    ASSUME Stored, NEW kind \in Digested, NEW i \in Ids(kind),
           table[kind][i].digest = DigestOf(kind, table[kind][i])
    PROVE  table[kind][i] = written[kind][i] /\ i \in DOMAIN written[kind]
<1> DEFINE C == Columns[kind] \ {"digest"}
<1>1. kind \in Kinds /\ SealOf(kind) = "digest" /\ Columns[kind] = C \cup {"digest"} /\ "id" \in C
  BY DEF Digested, Kinds, SealOf, Columns, RequestColumns, DecisionColumns, ExecutionColumns,
         RestoreRequestColumns, RestoreDecisionColumns, RestoreExecutionColumns
<1> HIDE DEF C
<1>2. PICK row : row = table[kind][i]
  OBVIOUS
<1>3. row = [c \in C \cup {"digest"} |-> row[c]] /\ row.id = i /\ row.digest = Over(row, C)
  <2>1. IsRow(kind, i, row)
    BY <1>1, <1>2 DEF Stored, Shaped, IsTable, Ids
  <2>2. row.digest = Over(row, C)
    BY <1>2 DEF DigestOf, C
  <2>3. row = [c \in Columns[kind] |-> row[c]] /\ row.id = i
    BY <2>1 DEF IsRow
  <2>4. row = [c \in C \cup {"digest"} |-> row[c]]
    BY ONLY <1>1, <2>3
  <2> QED BY <2>2, <2>3, <2>4
<1>4. row.digest # Nonsense
  BY <1>1, <1>3 DEF Over, Nonsense
<1>5. PICK j \in DOMAIN written[kind] : row.digest = written[kind][j].digest
  BY <1>1, <1>2, <1>4 DEF Stored, SealsKnown
<1>6. PICK made : made = written[kind][j]
  OBVIOUS
<1>7. made = [c \in C \cup {"digest"} |-> made[c]] /\ made.id = j /\ made.digest = Over(made, C)
  <2>1. IsRow(kind, j, made)
    BY <1>1, <1>6 DEF Stored, Shaped, IsTable
  <2>2. made.digest = Over(made, C)
    BY <1>6 DEF Stored, RowsSealed, DigestOf, C
  <2>3. made = [c \in Columns[kind] |-> made[c]] /\ made.id = j
    BY <2>1 DEF IsRow
  <2>4. made = [c \in C \cup {"digest"} |-> made[c]]
    BY ONLY <1>1, <2>3
  <2> QED BY <2>2, <2>3, <2>4
<1>8. Over(row, C) = Over(made, C)
  BY <1>3, <1>5, <1>6, <1>7
<1>9. \A c \in C : row[c] = made[c]
  BY <1>8 DEF Over
<1>10. row = made
  BY <1>3, <1>7, <1>8, <1>9
<1> QED BY <1>1, <1>2, <1>3, <1>6, <1>7, <1>9, <1>10

-----------------------------------------------------------------------------
(* A row is saved *)

\* What a row that may be saved is made of.
Savable(kind, row) ==
    /\ IsRow(kind, New(kind), row)
    /\ kind \in Digested => row.digest = DigestOf(kind, row)

\* What is written stays, and a row of the kind is added at the end.
Adds(kind, row) ==
    /\ \A k \in Kinds \ {kind} : written'[k] = written[k]
    /\ DOMAIN written'[kind] = DOMAIN written[kind] \cup {New(kind)}
    /\ \A i \in DOMAIN written[kind] : written'[kind][i] = written[kind][i]
    /\ written'[kind][New(kind)] = row
    /\ New(kind) \notin DOMAIN written[kind]

\* A row added at the end of the rows of a kind.
AddedTo(rows, more, kind, row) ==
    /\ more = [k \in Kinds |-> more[k]]
    /\ \A k \in Kinds : \E S : more[k] \in Seq(S)
    /\ \A k \in Kinds \ {kind} : more[k] = rows[k]
    /\ Len(more[kind]) = Len(rows[kind]) + 1
    /\ DOMAIN rows[kind] = 1..Len(rows[kind])
    /\ DOMAIN more[kind] = 1..(Len(rows[kind]) + 1)
    /\ \A i \in DOMAIN rows[kind] : more[kind][i] = rows[kind][i]
    /\ more[kind][Len(rows[kind]) + 1] = row

LEMMA TableGrows ==
    ASSUME NEW rows, IsTable(rows), NEW kind \in Kinds, NEW row,
           NEW more, more = [rows EXCEPT ![kind] = Append(@, row)]
    PROVE  AddedTo(rows, more, kind, row) /\ Len(rows[kind]) \in Nat
<1>0. PICK S : rows[kind] \in Seq(S)
  BY DEF IsTable
<1>1. PICK s \in Seq(S) : s = rows[kind]
  BY <1>0
<1>2. PICK new : new = Append(s, row)
  OBVIOUS
<1>3. /\ \E T : new \in Seq(T)
      /\ Len(rows[kind]) \in Nat
      /\ Len(new) = Len(rows[kind]) + 1
      /\ DOMAIN rows[kind] = 1..Len(rows[kind])
      /\ DOMAIN new = 1..(Len(rows[kind]) + 1)
      /\ \A i \in DOMAIN rows[kind] : new[i] = rows[kind][i]
      /\ new[Len(rows[kind]) + 1] = row
  <2>1. /\ \E T : Append(s, row) \in Seq(T)
        /\ Len(s) \in Nat
        /\ Len(Append(s, row)) = Len(s) + 1
        /\ DOMAIN s = 1..Len(s)
        /\ DOMAIN Append(s, row) = 1..(Len(s) + 1)
        /\ \A i \in DOMAIN s : Append(s, row)[i] = s[i]
        /\ Append(s, row)[Len(s) + 1] = row
    BY AppendedRow
  <2> QED BY ONLY <1>1, <1>2, <2>1
<1>4. rows = [k \in Kinds |-> rows[k]]
  BY DEF IsTable
<1>5. more = [k \in Kinds |-> IF k = kind THEN new ELSE rows[k]]
  BY <1>1, <1>2, <1>4
<1>6. more = [k \in Kinds |-> more[k]] /\ more[kind] = new /\ \A k \in Kinds \ {kind} : more[k] = rows[k]
  BY <1>5
<1>7. \A k \in Kinds : \E T : more[k] \in Seq(T)
  BY <1>3, <1>6 DEF IsTable
<1> QED BY <1>3, <1>6, <1>7 DEF AddedTo

LEMMA TableOfRows ==
    ASSUME NEW rows, NEW more, NEW kind \in Kinds, NEW row, IsTable(rows),
           Len(rows[kind]) \in Nat,
           AddedTo(rows, more, kind, row), IsRow(kind, Len(rows[kind]) + 1, row)
    PROVE  IsTable(more)
<1>1. ASSUME NEW k \in Kinds, NEW i \in DOMAIN more[k]
      PROVE  IsRow(k, i, more[k][i])
  <2>1. CASE k # kind
    BY <2>1 DEF AddedTo, IsTable
  <2>2. CASE k = kind /\ i \in DOMAIN rows[kind]
    BY <2>2 DEF AddedTo, IsTable
  <2>3. CASE k = kind /\ i = Len(rows[kind]) + 1
    BY <2>3 DEF AddedTo
  <2> QED BY <2>1, <2>2, <2>3 DEF AddedTo
<1> QED BY <1>1 DEF AddedTo, IsTable

LEMMA SaveKeeps ==
    ASSUME Stored, NEW kind \in Kinds \ {"recommendation"}, NEW row,
           Savable(kind, row), Save(kind, row)
    PROVE  Stored' /\ Adds(kind, row)
<1>1. /\ table' = [table EXCEPT ![kind] = Append(@, row)]
      /\ written' = [written EXCEPT ![kind] = Append(@, row)]
      /\ damages' = damages
  BY DEF Save
<1>2. IsTable(table) /\ IsTable(written) /\ \A k \in Kinds : Len(table[k]) = Len(written[k])
  BY DEF Stored, Shaped
<1>3. AddedTo(table, table', kind, row) /\ AddedTo(written, written', kind, row)
      /\ Len(table[kind]) \in Nat
  BY <1>1, <1>2, TableGrows
<1>4. New(kind) = Len(table[kind]) + 1 /\ Len(table[kind]) = Len(written[kind])
  BY <1>2 DEF New
<1>5. IsRow(kind, Len(table[kind]) + 1, row)
  BY <1>4 DEF Savable
<1>6. IsTable(table') /\ IsTable(written')
  BY <1>2, <1>3, <1>4, <1>5, TableOfRows
<1>7. Shaped'
  BY <1>2, <1>3, <1>4, <1>6 DEF Shaped, AddedTo
<1>8. Adds(kind, row)
  BY <1>3, <1>4 DEF Adds, AddedTo
<1>9. SealsKnown'
  <2> SUFFICES ASSUME NEW k \in Kinds, NEW i \in DOMAIN table'[k],
                      table'[k][i][SealOf(k)] # Nonsense
               PROVE  \E j \in DOMAIN written'[k] :
                          table'[k][i][SealOf(k)] = written'[k][j][SealOf(k)]
    BY DEF SealsKnown, Ids
  <2>1. CASE i \in Ids(k)
    <3>1. table'[k][i] = table[k][i]
      BY <1>3, <2>1 DEF AddedTo, Ids
    <3>2. PICK j \in DOMAIN written[k] : table[k][i][SealOf(k)] = written[k][j][SealOf(k)]
      BY <2>1, <3>1 DEF Stored, SealsKnown
    <3>3. j \in DOMAIN written'[k] /\ written'[k][j] = written[k][j]
      BY <1>8 DEF Adds
    <3> QED BY <3>1, <3>2, <3>3
  <2>2. CASE i \notin Ids(k)
    <3>1. k = kind /\ i = New(kind)
      BY <1>3, <1>4, <2>2 DEF AddedTo, Ids
    <3>2. table'[k][i] = row
      BY <1>3, <1>4, <3>1 DEF AddedTo
    <3> QED BY <1>8, <3>1, <3>2 DEF Adds
  <2> QED BY <2>1, <2>2
<1>10. RowsSealed'
  <2>1. ASSUME NEW k \in Digested, NEW i \in DOMAIN written'[k]
        PROVE  written'[k][i].digest = DigestOf(k, written'[k][i])
    <3>1. k \in Kinds
      BY DEF Digested
    <3>2. CASE k = kind /\ i = New(kind)
      BY <1>8, <3>2 DEF Adds, Savable
    <3>3. CASE i \in DOMAIN written[k] /\ written'[k][i] = written[k][i]
      BY <3>3 DEF Stored, RowsSealed
    <3> QED BY <1>8, <3>1, <3>2, <3>3 DEF Adds
  <2>2. written'.recommendation = written.recommendation
    BY <1>8 DEF Adds, Kinds
  <2> QED BY <2>1, <2>2 DEF Stored, RowsSealed
<1>11. ColumnsStay'
  <2>1. CASE damages = 0
    <3>1. table = written
      BY <2>1 DEF Stored, ColumnsStay
    <3> QED BY <1>1, <2>1, <3>1 DEF Stored, ColumnsStay
  <2>2. CASE damages = 1
    <3>0. PICK k0 \in Kinds : \E i, column : ChangedOnly(k0, i, column)
      BY <2>2 DEF Stored, ColumnsStay
    <3>1. PICK i0, c0 : ChangedOnly(k0, i0, c0)
      BY <3>0
    <3>2. ASSUME NEW k \in Kinds, NEW j \in DOMAIN table'[k], NEW c \in Columns[k],
                 <<k, j, c>> # <<k0, i0, c0>>
          PROVE  table'[k][j][c] = written'[k][j][c]
      <4>1. CASE j \in Ids(k)
        <5>1. j \in DOMAIN written[k]
          BY <1>2, <1>3, <4>1 DEF Ids, IsTable
        <5>2. table'[k][j] = table[k][j] /\ written'[k][j] = written[k][j]
          BY <1>3, <4>1, <5>1 DEF AddedTo, Ids
        <5> QED BY <3>1, <3>2, <4>1, <5>2 DEF ChangedOnly
      <4>2. CASE j \notin Ids(k)
        <5>1. k = kind /\ j = New(kind)
          BY <1>3, <1>4, <4>2 DEF AddedTo, Ids
        <5> QED BY <1>3, <1>4, <5>1 DEF AddedTo
      <4> QED BY <4>1, <4>2
    <3>3. ChangedOnly(k0, i0, c0)'
      BY <3>2 DEF ChangedOnly, Ids
    <3>4. damages' = 1
      BY <1>1, <2>2
    <3> QED BY <3>3, <3>4 DEF ColumnsStay
  <2> QED BY <1>1, <2>1, <2>2 DEF Stored, ColumnsStay
<1> QED BY <1>7, <1>8, <1>9, <1>10, <1>11 DEF Stored

-----------------------------------------------------------------------------
(* A column changes *)

LEMMA AdmittedSeal ==
    ASSUME NEW kind \in Kinds, NEW value \in Admitted(kind, SealOf(kind))
    PROVE  value = Nonsense \/ \E j \in Ids(kind) : value = table[kind][j][SealOf(kind)]
BY DEF Admitted, SealOf, ForeignKeys

\* One column of one row of a table takes a value.
Changes(kind, i, column, value) ==
    /\ \A k \in Kinds \ {kind} : table'[k] = table[k]
    /\ DOMAIN table'[kind] = DOMAIN table[kind]
    /\ \A j \in DOMAIN table[kind] \ {i} : table'[kind][j] = table[kind][j]
    /\ \A c \in Columns[kind] \ {column} : table'[kind][i][c] = table[kind][i][c]
    /\ table'[kind][i][column] = value

LEMMA ColumnChanges ==
    ASSUME Stored, NEW kind \in Kinds, NEW i \in Ids(kind),
           NEW column \in DOMAIN table[kind][i] \ {"id"}, NEW value,
           Damage(kind, i, column, value)
    PROVE  Shaped' /\ Changes(kind, i, column, value)
<1>1. PICK row : row = table[kind][i]
  OBVIOUS
<1>2. IsTable(table) /\ i \in DOMAIN table[kind] /\ IsRow(kind, i, row)
  BY <1>1 DEF Stored, Shaped, IsTable, Ids
<1>3. row = [c \in Columns[kind] |-> row[c]] /\ row.id = i
  BY <1>2 DEF IsRow
<1>4. PICK changed : changed = [row EXCEPT ![column] = value]
  OBVIOUS
<1>5. /\ changed = [c \in Columns[kind] |-> changed[c]]
      /\ \A c \in Columns[kind] \ {column} : changed[c] = row[c]
      /\ changed[column] = value
  BY <1>1, <1>3, <1>4
<1>6. "id" \in Columns[kind]
  BY DEF Columns, Kinds, RequestColumns, DecisionColumns, ExecutionColumns,
         RestoreRequestColumns, RestoreDecisionColumns, RestoreExecutionColumns
<1>7. IsRow(kind, i, changed)
  BY <1>3, <1>5, <1>6 DEF IsRow
<1>8. PICK S : table[kind] \in Seq(S)
  BY <1>2 DEF IsTable
<1>9. PICK s \in Seq(S) : s = table[kind]
  BY <1>8
<1>10. PICK new : new = [s EXCEPT ![i] = changed]
  OBVIOUS
<1>11. /\ \E T : new \in Seq(T)
       /\ Len(new) = Len(table[kind])
       /\ DOMAIN new = DOMAIN table[kind]
       /\ new[i] = changed
       /\ \A j \in DOMAIN table[kind] \ {i} : new[j] = table[kind][j]
  <2>1. i \in DOMAIN s
    BY <1>2, <1>9
  <2> DEFINE T == S \cup {changed}
  <2>2. s \in Seq(T) /\ changed \in T
    BY SeqMonotonic
  <2> HIDE DEF T
  <2>3. new \in Seq(T) /\ Len(new) = Len(s)
    BY <1>10, <2>1, <2>2, ExceptSeq
  <2>4. DOMAIN new = DOMAIN s /\ new[i] = changed /\ \A j \in DOMAIN s \ {i} : new[j] = s[j]
    BY <1>10, <2>1
  <2> QED BY <1>9, <2>3, <2>4
<1>12. table = [k \in Kinds |-> table[k]]
  BY <1>2 DEF IsTable
<1>13. table' = [table EXCEPT ![kind] = new] /\ UNCHANGED written
  BY <1>1, <1>4, <1>9, <1>10 DEF Damage
<1>14. /\ table' = [k \in Kinds |-> table'[k]] /\ table'[kind] = new
       /\ \A k \in Kinds \ {kind} : table'[k] = table[k]
  BY <1>12, <1>13
<1>15. Changes(kind, i, column, value)
  BY <1>1, <1>5, <1>11, <1>14 DEF Changes
<1>16. \A k \in Kinds : \A j \in DOMAIN table'[k] : IsRow(k, j, table'[k][j])
  BY <1>2, <1>7, <1>11, <1>14 DEF IsTable
<1>17. \A k \in Kinds : (\E T : table'[k] \in Seq(T)) /\ Len(table'[k]) = Len(table[k])
  BY <1>2, <1>11, <1>14 DEF IsTable
<1>18. IsTable(table')
  BY <1>14, <1>16, <1>17 DEF IsTable
<1> QED BY <1>13, <1>15, <1>17, <1>18 DEF Stored, Shaped

LEMMA DamageKeeps ==
    ASSUME Stored, NEW kind \in Kinds, NEW i \in Ids(kind),
           NEW column \in DOMAIN table[kind][i] \ {"id"}, NEW value \in Admitted(kind, column),
           Damage(kind, i, column, value)
    PROVE  Stored' /\ UNCHANGED written
<1>1. Shaped' /\ Changes(kind, i, column, value) /\ UNCHANGED written /\ damages' = damages + 1
  <2>1. Shaped' /\ Changes(kind, i, column, value)
    BY ColumnChanges
  <2>2. UNCHANGED written /\ damages' = damages + 1
    BY DEF Damage
  <2> QED BY <2>1, <2>2
<1>2. SealsKnown'
  <2> SUFFICES ASSUME NEW k \in Kinds, NEW j \in DOMAIN table'[k]
               PROVE  \/ table'[k][j][SealOf(k)] = Nonsense
                      \/ \E l \in DOMAIN written[k] :
                            table'[k][j][SealOf(k)] = written[k][l][SealOf(k)]
    BY <1>1 DEF SealsKnown, Ids
  <2>1. j \in Ids(k)
    BY <1>1 DEF Changes, Ids
  <2>2. CASE k = kind /\ j = i /\ column = SealOf(kind)
    <3>1. table'[k][j][SealOf(k)] = value
      BY <1>1, <2>2 DEF Changes
    <3>2. value = Nonsense \/ \E l \in Ids(kind) : value = table[kind][l][SealOf(kind)]
      BY <2>2, AdmittedSeal
    <3> QED BY <2>2, <3>1, <3>2 DEF Stored, SealsKnown
  <2>3. CASE ~(k = kind /\ j = i /\ column = SealOf(kind))
    <3>1. SealOf(k) \in Columns[k]
      BY DEF SealOf, Columns, Kinds, RequestColumns, DecisionColumns, ExecutionColumns,
             RestoreRequestColumns, RestoreDecisionColumns, RestoreExecutionColumns
    <3>2. table'[k][j][SealOf(k)] = table[k][j][SealOf(k)]
      BY <1>1, <2>1, <2>3, <3>1 DEF Changes, Ids
    <3> QED BY <2>1, <3>2 DEF Stored, SealsKnown
  <2> QED BY <2>2, <2>3
<1>3. RowsSealed'
  BY <1>1 DEF Stored, RowsSealed
<1>4. ColumnsStay'
  <2>1. damages \in Nat /\ damages' \in Nat /\ damages' # 0 /\ (damages' = 1 => damages = 0)
    BY <1>1 DEF Stored, ColumnsStay
  <2>2. ASSUME damages' = 1
        PROVE  ChangedOnly(kind, i, column)'
    <3>1. table = written
      BY <2>1, <2>2 DEF Stored, ColumnsStay
    <3>2. ASSUME NEW k \in Kinds, NEW j \in DOMAIN table'[k], NEW c \in Columns[k],
                 <<k, j, c>> # <<kind, i, column>>
          PROVE  table'[k][j][c] = written[k][j][c]
      <4>1. k # kind \/ j # i \/ c # column
        BY <3>2
      <4>2. table'[k][j][c] = table[k][j][c]
        BY <1>1, <4>1 DEF Changes
      <4> QED BY <3>1, <4>2
    <3> QED BY <1>1, <3>2 DEF ChangedOnly, Ids
  <2> QED BY <2>1, <2>2 DEF ColumnsStay
<1> QED BY <1>1, <1>2, <1>3, <1>4 DEF Stored

-----------------------------------------------------------------------------
(* What the rows written say of each other *)

MadeRequest(q) ==
    /\ q.recommendation \in DOMAIN Promotions
    /\ q.subject = Promotions[q.recommendation]

MadeDecision(d) ==
    /\ d.request \in DOMAIN written.request
    /\ d.by # written.request[d.request].by

StopOf(t, i) ==
    LET d == written.decision[i]
        q == written.request[d.request]
    IN  /\ t.reference = Reference("actuation", d)
        /\ t.target = "active"
        /\ t.agent = q.subject.agent /\ t.incident = q.subject.incident

MadeExecution(x) ==
    /\ x.decision \in DOMAIN written.decision
    /\ x.subject = written.request[written.decision[x.decision].request].subject
    /\ x.transition \in DOMAIN written.transition

MadeRestoreRequest(q) ==
    /\ q.source \in DOMAIN written.execution
    /\ q.subject = written.execution[q.source].subject

MadeRestoreDecision(d) ==
    /\ d.request \in DOMAIN written.restore_request
    /\ d.by # written.restore_request[d.request].by

RestoreOf(t, i) ==
    LET d == written.restore_decision[i]
        q == written.restore_request[d.request]
    IN  /\ t.reference = Reference("restore", d)
        /\ t.target = "inactive"
        /\ t.agent = q.subject.agent /\ t.incident = q.subject.incident
        /\ t.id > written.execution[q.source].transition

MadeRestoreExecution(x) ==
    /\ x.decision \in DOMAIN written.restore_decision
    /\ x.transition \in DOMAIN written.transition

MadeTransition(t) ==
    \/ \E i \in DOMAIN written.decision :
          written.decision[i].outcome = "approved" /\ StopOf(t, i)
    \/ \E i \in DOMAIN written.restore_decision :
          written.restore_decision[i].outcome = "approved" /\ RestoreOf(t, i)

Made ==
    /\ \A i \in DOMAIN written.request : MadeRequest(written.request[i])
    /\ \A i \in DOMAIN written.decision : MadeDecision(written.decision[i])
    /\ \A i \in DOMAIN written.transition : MadeTransition(written.transition[i])
    /\ \A i \in DOMAIN written.execution : MadeExecution(written.execution[i])
    /\ \A i \in DOMAIN written.restore_request : MadeRestoreRequest(written.restore_request[i])
    /\ \A i \in DOMAIN written.restore_decision : MadeRestoreDecision(written.restore_decision[i])
    /\ \A i \in DOMAIN written.restore_execution :
          MadeRestoreExecution(written.restore_execution[i])

\* The transition of a receipt is, as written, the one its decision asked for:
\* no digest covers it, so this takes that no two columns have changed.
ReceiptsStand ==
    /\ \A i \in DOMAIN written.execution :
          LET x == written.execution[i] IN StopOf(written.transition[x.transition], x.decision)
    /\ \A i \in DOMAIN written.restore_execution :
          LET x == written.restore_execution[i] IN
          RestoreOf(written.transition[x.transition], x.decision)

-----------------------------------------------------------------------------
(* What a read answers is what was written *)

LEMMA RecommendationFits ==
    ASSUME Stored, NEW r \in DOMAIN Promotions, RecommendationHolds(r)
    PROVE  table.recommendation[r] = written.recommendation[r]
<1> DEFINE row == table.recommendation[r]
           made == written.recommendation[r]
<1>1. /\ IsTable(table) /\ IsTable(written) /\ Len(table.recommendation) = Len(written.recommendation)
      /\ "recommendation" \in Kinds
  BY DEF Stored, Shaped, Kinds
<1>2. made = Recommendation(r) /\ DOMAIN written.recommendation = DOMAIN Promotions
  BY DEF Stored, RowsSealed
<1>3. DOMAIN table.recommendation = DOMAIN Promotions
  BY <1>1, <1>2 DEF IsTable
<1>4. IsRow("recommendation", r, row) /\ IsRow("recommendation", r, made)
  BY <1>1, <1>2, <1>3 DEF IsTable
<1>5. /\ row.digest = Nonsense
      \/ \E j \in DOMAIN Promotions : row.digest = Recommendation(j).digest
  BY <1>1, <1>2, <1>3 DEF Stored, SealsKnown, SealOf, RowsSealed, Ids
<1>6. row.subject = Promotions[r] /\ row.digest = Over(row, {"subject", "facts"})
  BY DEF RecommendationHolds, RecommendationDigest
<1>7. \A j \in DOMAIN Promotions :
          /\ Recommendation(j).id = j
          /\ Recommendation(j).subject = Promotions[j]
          /\ Recommendation(j).facts = [of |-> "breach"]
          /\ Recommendation(j).digest = Over(Recommendation(j), {"subject", "facts"})
  BY DEF Recommendation, RecommendationDigest, Sealed, Over
<1>8. row.digest # Nonsense
  BY <1>6 DEF Over, Nonsense
<1>9. PICK j \in DOMAIN Promotions : row.digest = Recommendation(j).digest
  BY <1>5, <1>8
<1>10. row.facts = [of |-> "breach"]
  <2>1. PICK other : other = Recommendation(j)
    OBVIOUS
  <2>2. Over(row, {"subject", "facts"}) = Over(other, {"subject", "facts"})
    BY <1>6, <1>7, <1>9, <2>1
  <2>3. Over(row, {"subject", "facts"})["facts"] = row.facts
        /\ Over(other, {"subject", "facts"})["facts"] = other.facts
    BY DEF Over
  <2> QED BY <1>7, <2>1, <2>2, <2>3
<1>11. made.subject = Promotions[r] /\ made.facts = [of |-> "breach"]
       /\ made.digest = Over(made, {"subject", "facts"})
  BY <1>2, <1>7
<1>12. row.digest = made.digest
  BY <1>6, <1>10, <1>11 DEF Over
<1>13. row = [c \in {"id", "subject", "facts", "digest"} |-> row[c]] /\ row.id = r
       /\ made = [c \in {"id", "subject", "facts", "digest"} |-> made[c]] /\ made.id = r
  BY <1>4 DEF IsRow, Columns
<1> HIDE DEF row, made
<1>14. row = made
  BY <1>6, <1>10, <1>11, <1>12, <1>13
<1> QED BY <1>14 DEF row, made

LEMMA DigestsOfKinds ==
    ASSUME NEW row
    PROVE  /\ DigestOf("request", row) = RequestDigest(row)
           /\ DigestOf("decision", row) = DecisionDigest(row)
           /\ DigestOf("execution", row) = ExecutionDigest(row)
           /\ DigestOf("restore_request", row) = RestoreRequestDigest(row)
           /\ DigestOf("restore_decision", row) = RestoreDecisionDigest(row)
           /\ DigestOf("restore_execution", row) = RestoreExecutionDigest(row)
BY DEF DigestOf, Columns, RequestDigest, DecisionDigest, ExecutionDigest, RestoreRequestDigest,
       RestoreDecisionDigest, RestoreExecutionDigest

LEMMA SameRows ==
    ASSUME Stored, NEW kind \in Kinds
    PROVE  DOMAIN written[kind] = Ids(kind) /\ \A i \in Ids(kind) : IsRow(kind, i, table[kind][i])
                                                     /\ IsRow(kind, i, written[kind][i])
BY DEF Stored, Shaped, IsTable, Ids

LEMMA RequestFits ==
    ASSUME Stored, Made, NEW i \in Ids("request"), RequestHolds(i)
    PROVE  /\ table.request[i] = written.request[i]
           /\ MadeRequest(table.request[i]) /\ table.request[i].id = i
           /\ AsWritten(OfRequest(i))
<1>1. "request" \in Digested /\ "request" \in Kinds /\ "recommendation" \in Kinds
  BY DEF Digested, Kinds
<1>2. table.request[i].digest = DigestOf("request", table.request[i])
  BY DigestsOfKinds DEF RequestHolds, RequestBinding
<1>3. table.request[i] = written.request[i] /\ i \in DOMAIN written.request
  BY <1>1, <1>2, FittingRow
<1>4. MadeRequest(table.request[i])
  BY <1>3 DEF Made
<1>5. table.recommendation[table.request[i].recommendation]
          = written.recommendation[table.request[i].recommendation]
  BY <1>4, RecommendationFits DEF MadeRequest, RequestHolds
<1>6. table.request[i].id = i
  BY <1>1, SameRows DEF IsRow
<1> QED BY <1>3, <1>4, <1>5, <1>6 DEF AsWritten, OfRequest

LEMMA DecisionFits ==
    ASSUME Stored, Made, NEW i \in Ids("decision"), DecisionHolds(i)
    PROVE  /\ table.decision[i] = written.decision[i]
           /\ MadeDecision(table.decision[i]) /\ table.decision[i].id = i
           /\ table.decision[i].request \in Ids("request") /\ RequestHolds(table.decision[i].request)
           /\ AsWritten(OfDecision(i))
<1>1. "decision" \in Digested /\ "decision" \in Kinds /\ "request" \in Kinds
  BY DEF Digested, Kinds
<1>2. table.decision[i].digest = DigestOf("decision", table.decision[i])
  BY DigestsOfKinds DEF DecisionHolds, DecisionBinding
<1>3. table.decision[i] = written.decision[i] /\ i \in DOMAIN written.decision
  BY <1>1, <1>2, FittingRow
<1>4. MadeDecision(table.decision[i])
  BY <1>3 DEF Made
<1>5. table.decision[i].request \in Ids("request") /\ RequestHolds(table.decision[i].request)
  BY <1>1, <1>4, SameRows DEF MadeDecision, DecisionHolds
<1>6. table.decision[i].id = i
  BY <1>1, SameRows DEF IsRow
<1>7. AsWritten(OfRequest(table.decision[i].request))
  BY <1>5, RequestFits
<1> QED BY <1>3, <1>4, <1>5, <1>6, <1>7 DEF AsWritten, OfDecision

LEMMA ReceiptRow ==
    ASSUME NEW id, NEW d, NEW q, NEW t
    PROVE  LET x == Receipt(id, d, q, t) IN
           /\ x = [c \in ExecutionColumns |-> x[c]]
           /\ x.id = id /\ x.decision = d.id /\ x.request = q.id /\ x.subject = q.subject
           /\ x.transition = t.id /\ x.by = t.by
           /\ x.digest = ExecutionDigest(x)
<1> DEFINE row == [id |-> id, decision |-> d.id, decision_digest |-> d.digest,
                   request |-> q.id, request_digest |-> q.digest, subject |-> q.subject,
                   transition |-> t.id, target |-> t.target, by |-> t.by]
           columns == ExecutionColumns \ {"digest"}
           x == Sealed(row, Over(row, columns))
<1>1. DOMAIN row = columns
  BY DEF ExecutionColumns
<1>2. /\ row.id = id /\ row.decision = d.id /\ row.request = q.id /\ row.subject = q.subject
      /\ row.transition = t.id /\ row.by = t.by
  OBVIOUS
<1>3. columns \cup {"digest"} = ExecutionColumns
      /\ {"id", "decision", "request", "subject", "transition", "by"} \subseteq columns
  BY DEF ExecutionColumns
<1>4. x = Receipt(id, d, q, t)
  BY DEF Receipt, ExecutionDigest
<1> HIDE DEF row, columns
<1>5. /\ x = [c \in columns \cup {"digest"} |-> x[c]]
      /\ \A c \in columns : x[c] = row[c]
      /\ x.digest = Over(x, columns)
  <2>1. "digest" \notin columns
    BY DEF columns
  <2> QED BY <1>1, <2>1, SealedRow
<1> HIDE DEF x
<1>6. x.digest = ExecutionDigest(x)
  BY <1>5 DEF ExecutionDigest, columns
<1>7. x = [c \in ExecutionColumns |-> x[c]]
  BY ONLY <1>3, <1>5
<1> QED BY <1>2, <1>3, <1>4, <1>5, <1>6, <1>7

LEMMA ExecutionFits ==
    ASSUME Stored, Made, NEW i \in Ids("execution"), ExecutionHolds(i)
    PROVE  LET x == table.execution[i] IN
           /\ x = written.execution[i]
           /\ MadeExecution(x) /\ x.id = i
           /\ x.decision \in Ids("decision") /\ Approved(x.decision)
           /\ AsWritten(OfExecution(i))
           /\ x.transition \in MatchingTransition(x.decision)
           /\ x.transition \in Ids("transition")
           /\ TransitionBinding(table.transition[x.transition],
                                table.request[table.decision[x.decision].request],
                                Reference("actuation", table.decision[x.decision]))
           /\ table.transition[x.transition].by = x.by
<1>1. /\ "execution" \in Digested /\ "execution" \in Kinds /\ "decision" \in Kinds
      /\ "transition" \in Kinds
  BY DEF Digested, Kinds
<1>2. PICK x : x = table.execution[i]
  OBVIOUS
<1>3. PICK d, q : d = table.decision[x.decision] /\ q = table.request[d.request]
  OBVIOUS
<1>4. PICK t \in MatchingTransition(x.decision) :
          /\ TransitionBinding(table.transition[t], q, Reference("actuation", d))
          /\ x = Receipt(i, d, q, table.transition[t])
  BY <1>2, <1>3 DEF ExecutionHolds
<1>5. t \in Ids("transition") /\ table.transition[t].id = t
  <2>1. t \in Ids("transition")
    BY <1>4 DEF MatchingTransition, MatchingTransitions, Found
  <2> QED BY <1>1, <2>1, SameRows DEF IsRow
<1>6. x.transition = t /\ x.by = table.transition[t].by /\ x.digest = ExecutionDigest(x)
  BY <1>4, <1>5, ReceiptRow
<1>7. table.execution[i] = written.execution[i] /\ i \in DOMAIN written.execution
  <2>1. table.execution[i].digest = DigestOf("execution", table.execution[i])
    BY <1>2, <1>6, DigestsOfKinds
  <2> QED BY <1>1, <2>1, FittingRow
<1>8. MadeExecution(x)
  BY <1>2, <1>7 DEF Made
<1>9. x.decision \in Ids("decision") /\ Approved(x.decision)
  BY <1>1, <1>2, <1>8, SameRows DEF MadeExecution, ExecutionHolds
<1>10. AsWritten(OfDecision(x.decision))
  BY <1>9, DecisionFits DEF Approved
<1>11. x.id = i
  BY <1>1, <1>2, SameRows DEF IsRow
<1>12. AsWritten(OfExecution(i))
  BY <1>2, <1>7, <1>10 DEF AsWritten, OfExecution
<1>13. /\ x.transition \in MatchingTransition(x.decision) /\ x.transition \in Ids("transition")
       /\ TransitionBinding(table.transition[x.transition], q, Reference("actuation", d))
       /\ table.transition[x.transition].by = x.by
  BY <1>4, <1>5, <1>6
<1>14. x = written.execution[i]
  BY <1>2, <1>7
<1> QED BY <1>2, <1>3, <1>8, <1>9, <1>11, <1>12, <1>13, <1>14

LEMMA RestoreRequestFits ==
    ASSUME Stored, Made, NEW i \in Ids("restore_request"), RestoreRequestHolds(i)
    PROVE  LET q == table.restore_request[i] IN
           /\ q = written.restore_request[i]
           /\ MadeRestoreRequest(q) /\ q.id = i
           /\ q.source \in Ids("execution") /\ ExecutionHolds(q.source)
           /\ AsWritten(OfRestoreRequest(i))
<1>1. "restore_request" \in Digested /\ "restore_request" \in Kinds /\ "execution" \in Kinds
  BY DEF Digested, Kinds
<1>2. table.restore_request[i].digest = DigestOf("restore_request", table.restore_request[i])
  BY DigestsOfKinds DEF RestoreRequestHolds, RestoreRequestBinding
<1>3. table.restore_request[i] = written.restore_request[i] /\ i \in DOMAIN written.restore_request
  BY <1>1, <1>2, FittingRow
<1>4. MadeRestoreRequest(table.restore_request[i])
  BY <1>3 DEF Made
<1>5. /\ table.restore_request[i].source \in Ids("execution")
      /\ ExecutionHolds(table.restore_request[i].source)
  BY <1>1, <1>4, SameRows DEF MadeRestoreRequest, RestoreRequestHolds, SourceHolds
<1>6. table.restore_request[i].id = i
  BY <1>1, SameRows DEF IsRow
<1>7. AsWritten(OfExecution(table.restore_request[i].source))
  BY <1>5, ExecutionFits
<1> QED BY <1>3, <1>4, <1>5, <1>6, <1>7 DEF AsWritten, OfRestoreRequest

LEMMA RestoreDecisionFits ==
    ASSUME Stored, Made, NEW i \in Ids("restore_decision"), RestoreDecisionHolds(i)
    PROVE  LET d == table.restore_decision[i] IN
           /\ d = written.restore_decision[i]
           /\ MadeRestoreDecision(d) /\ d.id = i
           /\ d.request \in Ids("restore_request") /\ RestoreRequestHolds(d.request)
           /\ AsWritten(OfRestoreDecision(i))
<1>1. "restore_decision" \in Digested /\ "restore_decision" \in Kinds /\ "restore_request" \in Kinds
  BY DEF Digested, Kinds
<1>2. table.restore_decision[i].digest = DigestOf("restore_decision", table.restore_decision[i])
  BY DigestsOfKinds DEF RestoreDecisionHolds, RestoreDecisionBinding
<1>3. table.restore_decision[i] = written.restore_decision[i] /\ i \in DOMAIN written.restore_decision
  BY <1>1, <1>2, FittingRow
<1>4. MadeRestoreDecision(table.restore_decision[i])
  BY <1>3 DEF Made
<1>5. /\ table.restore_decision[i].request \in Ids("restore_request")
      /\ RestoreRequestHolds(table.restore_decision[i].request)
  BY <1>1, <1>4, SameRows DEF MadeRestoreDecision, RestoreDecisionHolds
<1>6. table.restore_decision[i].id = i
  BY <1>1, SameRows DEF IsRow
<1>7. AsWritten(OfRestoreRequest(table.restore_decision[i].request))
  BY <1>5, RestoreRequestFits
<1> QED BY <1>3, <1>4, <1>5, <1>6, <1>7 DEF AsWritten, OfRestoreDecision

LEMMA RestoreReceiptRow ==
    ASSUME NEW id, NEW d, NEW q, NEW t
    PROVE  LET x == RestoreReceipt(id, d, q, t) IN
           /\ x = [c \in RestoreExecutionColumns |-> x[c]]
           /\ x.id = id /\ x.decision = d.id /\ x.transition = t.id /\ x.by = t.by
           /\ x.digest = RestoreExecutionDigest(x)
<1> DEFINE row == [id |-> id, decision |-> d.id, decision_digest |-> d.digest,
                   request |-> q.id, request_digest |-> q.digest,
                   source |-> q.source, source_digest |-> q.source_digest,
                   subject |-> q.subject, transition |-> t.id, target |-> t.target, by |-> t.by]
           columns == RestoreExecutionColumns \ {"digest"}
           x == Sealed(row, Over(row, columns))
<1>1. DOMAIN row = columns
  BY DEF RestoreExecutionColumns, ExecutionColumns
<1>2. /\ row.id = id /\ row.decision = d.id
      /\ row.transition = t.id /\ row.by = t.by
  OBVIOUS
<1>3. columns \cup {"digest"} = RestoreExecutionColumns
      /\ {"id", "decision", "transition", "by"} \subseteq columns
  BY DEF RestoreExecutionColumns, ExecutionColumns
<1>4. x = RestoreReceipt(id, d, q, t)
  BY DEF RestoreReceipt, RestoreExecutionDigest
<1> HIDE DEF row, columns
<1>5. /\ x = [c \in columns \cup {"digest"} |-> x[c]]
      /\ \A c \in columns : x[c] = row[c]
      /\ x.digest = Over(x, columns)
  <2>1. "digest" \notin columns
    BY DEF columns
  <2> QED BY <1>1, <2>1, SealedRow
<1> HIDE DEF x
<1>6. x.digest = RestoreExecutionDigest(x)
  BY <1>5 DEF RestoreExecutionDigest, columns
<1>7. x = [c \in RestoreExecutionColumns |-> x[c]]
  BY ONLY <1>3, <1>5
<1> QED BY <1>2, <1>3, <1>4, <1>5, <1>6, <1>7

LEMMA RestoreExecutionFits ==
    ASSUME Stored, Made, NEW i \in Ids("restore_execution"), RestoreExecutionHolds(i)
    PROVE  LET x == table.restore_execution[i] IN
           /\ x = written.restore_execution[i]
           /\ MadeRestoreExecution(x)
           /\ x.decision \in Ids("restore_decision") /\ RestoreApproved(x.decision)
           /\ AsWritten(OfRestoreExecution(i))
           /\ x.transition \in Ids("transition")
           /\ RestoreTransitionBinding(
                  table.transition[x.transition],
                  table.restore_request[table.restore_decision[x.decision].request],
                  Reference("restore", table.restore_decision[x.decision]))
           /\ table.transition[x.transition].by = x.by
<1>1. /\ "restore_execution" \in Digested /\ "restore_execution" \in Kinds
      /\ "restore_decision" \in Kinds /\ "transition" \in Kinds
  BY DEF Digested, Kinds
<1>2. PICK x : x = table.restore_execution[i]
  OBVIOUS
<1>3. PICK d, q : d = table.restore_decision[x.decision] /\ q = table.restore_request[d.request]
  OBVIOUS
<1>4. PICK t \in MatchingRestore(x.decision) :
          /\ RestoreTransitionBinding(table.transition[t], q, Reference("restore", d))
          /\ x = RestoreReceipt(i, d, q, table.transition[t])
  BY <1>2, <1>3 DEF RestoreExecutionHolds
<1>5. t \in Ids("transition") /\ table.transition[t].id = t
  <2>1. t \in Ids("transition")
    BY <1>4 DEF MatchingRestore, MatchingTransitions, Found
  <2> QED BY <1>1, <2>1, SameRows DEF IsRow
<1>6. x.transition = t /\ x.by = table.transition[t].by /\ x.digest = RestoreExecutionDigest(x)
  BY <1>4, <1>5, RestoreReceiptRow
<1>7. table.restore_execution[i] = written.restore_execution[i] /\ i \in DOMAIN written.restore_execution
  <2>1. table.restore_execution[i].digest = DigestOf("restore_execution", table.restore_execution[i])
    BY <1>2, <1>6, DigestsOfKinds
  <2> QED BY <1>1, <2>1, FittingRow
<1>8. MadeRestoreExecution(x)
  BY <1>2, <1>7 DEF Made
<1>9. x.decision \in Ids("restore_decision") /\ RestoreApproved(x.decision)
  BY <1>1, <1>2, <1>8, SameRows DEF MadeRestoreExecution, RestoreExecutionHolds
<1>10. AsWritten(OfRestoreDecision(x.decision))
  BY <1>9, RestoreDecisionFits DEF RestoreApproved
<1>11. AsWritten(OfRestoreExecution(i))
  BY <1>2, <1>7, <1>10 DEF AsWritten, OfRestoreExecution
<1>12. /\ x.transition \in Ids("transition")
       /\ RestoreTransitionBinding(table.transition[x.transition], q, Reference("restore", d))
       /\ table.transition[x.transition].by = x.by
  BY <1>4, <1>5, <1>6
<1>13. x = written.restore_execution[i]
  BY <1>2, <1>7
<1> QED BY <1>2, <1>3, <1>8, <1>9, <1>11, <1>12, <1>13

-----------------------------------------------------------------------------
(* What is written stays true *)

MadeRow(kind, row) ==
    /\ kind = "request" => MadeRequest(row)
    /\ kind = "decision" => MadeDecision(row)
    /\ kind = "transition" => MadeTransition(row)
    /\ kind = "execution" => MadeExecution(row)
    /\ kind = "restore_request" => MadeRestoreRequest(row)
    /\ kind = "restore_decision" => MadeRestoreDecision(row)
    /\ kind = "restore_execution" => MadeRestoreExecution(row)

LEMMA WrittenStays ==
    ASSUME NEW kind \in Kinds, NEW row, Adds(kind, row), NEW k \in Kinds
    PROVE  /\ DOMAIN written[k] \subseteq DOMAIN written'[k]
           /\ \A i \in DOMAIN written[k] : written'[k][i] = written[k][i]
BY DEF Adds

LEMMA StopStays ==
    ASSUME Made, NEW kind \in Kinds, NEW row, Adds(kind, row),
           NEW t, NEW i \in DOMAIN written.decision
    PROVE  /\ i \in DOMAIN written'.decision
           /\ written'.decision[i] = written.decision[i]
           /\ written'.request[written.decision[i].request]
                  = written.request[written.decision[i].request]
           /\ StopOf(t, i)' <=> StopOf(t, i)
<1>1. /\ \A k \in DOMAIN written.decision :
             k \in DOMAIN written'.decision /\ written'.decision[k] = written.decision[k]
      /\ \A k \in DOMAIN written.request : written'.request[k] = written.request[k]
  <2>1. "decision" \in Kinds /\ "request" \in Kinds
    BY DEF Kinds
  <2> QED BY <2>1, WrittenStays
<1>2. written.decision[i].request \in DOMAIN written.request
  BY DEF Made, MadeDecision
<1> QED BY <1>1, <1>2 DEF StopOf, Reference

LEMMA RestoreStays ==
    ASSUME Made, NEW kind \in Kinds, NEW row, Adds(kind, row),
           NEW t, NEW i \in DOMAIN written.restore_decision
    PROVE  /\ i \in DOMAIN written'.restore_decision
           /\ written'.restore_decision[i] = written.restore_decision[i]
           /\ RestoreOf(t, i)' <=> RestoreOf(t, i)
<1>1. /\ \A k \in DOMAIN written.restore_decision :
             /\ k \in DOMAIN written'.restore_decision
             /\ written'.restore_decision[k] = written.restore_decision[k]
      /\ \A k \in DOMAIN written.restore_request :
             written'.restore_request[k] = written.restore_request[k]
      /\ \A k \in DOMAIN written.execution : written'.execution[k] = written.execution[k]
  <2>1. "restore_decision" \in Kinds /\ "restore_request" \in Kinds /\ "execution" \in Kinds
    BY DEF Kinds
  <2> QED BY <2>1, WrittenStays
<1>2. written.restore_decision[i].request \in DOMAIN written.restore_request
  BY DEF Made, MadeRestoreDecision
<1>3. written.restore_request[written.restore_decision[i].request].source \in DOMAIN written.execution
  BY <1>2 DEF Made, MadeRestoreRequest
<1>4. PICK d, q, x :
          /\ d = written.restore_decision[i] /\ q = written.restore_request[d.request]
          /\ x = written.execution[q.source]
  OBVIOUS
<1>5. /\ i \in DOMAIN written'.restore_decision /\ written'.restore_decision[i] = d
      /\ written'.restore_request[d.request] = q /\ written'.execution[q.source] = x
  BY <1>1, <1>2, <1>3, <1>4
<1>6. RestoreOf(t, i)' <=> RestoreOf(t, i)
  BY <1>4, <1>5 DEF RestoreOf, Reference
<1> QED BY <1>4, <1>5, <1>6

LEMMA MadeStays ==
    ASSUME Made, NEW kind \in Kinds, NEW row, Adds(kind, row), MadeRow(kind, row)
    PROVE  Made'
<1>0. /\ "request" \in Kinds /\ "decision" \in Kinds /\ "transition" \in Kinds
      /\ "execution" \in Kinds /\ "restore_request" \in Kinds
      /\ "restore_decision" \in Kinds /\ "restore_execution" \in Kinds
  BY DEF Kinds
<1>1. ASSUME NEW q, MadeRequest(q) PROVE MadeRequest(q)'
  BY <1>1 DEF MadeRequest
<1>2. ASSUME NEW d, MadeDecision(d) PROVE MadeDecision(d)'
  BY <1>0, <1>2, WrittenStays DEF MadeDecision
<1>3. ASSUME NEW t, MadeTransition(t) PROVE MadeTransition(t)'
  BY <1>3, StopStays, RestoreStays DEF MadeTransition
<1>4. ASSUME NEW x, MadeExecution(x) PROVE MadeExecution(x)'
  <2>1. x.transition \in DOMAIN written'.transition
    BY <1>0, <1>4, WrittenStays DEF MadeExecution
  <2> QED BY <1>4, <2>1, StopStays DEF MadeExecution
<1>5. ASSUME NEW q, MadeRestoreRequest(q) PROVE MadeRestoreRequest(q)'
  BY <1>0, <1>5, WrittenStays DEF MadeRestoreRequest
<1>6. ASSUME NEW d, MadeRestoreDecision(d) PROVE MadeRestoreDecision(d)'
  BY <1>0, <1>6, WrittenStays DEF MadeRestoreDecision
<1>7. ASSUME NEW x, MadeRestoreExecution(x) PROVE MadeRestoreExecution(x)'
  BY <1>0, <1>7, WrittenStays DEF MadeRestoreExecution
<1>8. ASSUME NEW k \in Kinds, NEW i \in DOMAIN written'[k]
      PROVE  \/ k = kind /\ written'[k][i] = row
             \/ i \in DOMAIN written[k] /\ written'[k][i] = written[k][i]
  BY DEF Adds
<1>11. \A i \in DOMAIN written'.request : MadeRequest(written.request[i])'
  BY <1>0, <1>1, <1>8 DEF Made, MadeRow, MadeRequest
<1>12. \A i \in DOMAIN written'.decision : MadeDecision(written.decision[i])'
  BY <1>0, <1>2, <1>8 DEF Made, MadeRow
<1>13. \A i \in DOMAIN written'.transition : MadeTransition(written.transition[i])'
  BY <1>0, <1>3, <1>8 DEF Made, MadeRow
<1>14. \A i \in DOMAIN written'.execution : MadeExecution(written.execution[i])'
  BY <1>0, <1>4, <1>8 DEF Made, MadeRow
<1>15. \A i \in DOMAIN written'.restore_request : MadeRestoreRequest(written.restore_request[i])'
  BY <1>0, <1>5, <1>8 DEF Made, MadeRow
<1>16. \A i \in DOMAIN written'.restore_decision : MadeRestoreDecision(written.restore_decision[i])'
  BY <1>0, <1>6, <1>8 DEF Made, MadeRow
<1>17. \A i \in DOMAIN written'.restore_execution :
           MadeRestoreExecution(written.restore_execution[i])'
  BY <1>0, <1>7, <1>8 DEF Made, MadeRow
<1> QED BY <1>11, <1>12, <1>13, <1>14, <1>15, <1>16, <1>17 DEF Made

-----------------------------------------------------------------------------
(* The steps of a stop *)

Saves(kind, row) == Save(kind, row) /\ Savable(kind, row) /\ MadeRow(kind, row)

LEMMA SealedIsRow ==
    ASSUME NEW kind \in Digested, NEW row, DOMAIN row = Columns[kind] \ {"digest"}
    PROVE  LET r == Sealed(row, DigestOf(kind, row)) IN
           /\ r = [c \in Columns[kind] |-> r[c]]
           /\ \A c \in Columns[kind] \ {"digest"} : r[c] = row[c]
           /\ r.digest = DigestOf(kind, r)
<1> DEFINE columns == Columns[kind] \ {"digest"}
           r == Sealed(row, Over(row, columns))
<1>1. "digest" \in Columns[kind]
  BY DEF Digested, Kinds, Columns, RequestColumns, DecisionColumns, ExecutionColumns,
         RestoreRequestColumns, RestoreDecisionColumns, RestoreExecutionColumns
<1>2. columns \cup {"digest"} = Columns[kind] /\ "digest" \notin columns
  BY <1>1
<1>3. Over(row, columns) = DigestOf(kind, row)
  BY DEF DigestOf
<1>4. DOMAIN row = columns
  OBVIOUS
<1> HIDE DEF columns
<1>5. /\ r = [c \in columns \cup {"digest"} |-> r[c]]
      /\ \A c \in columns : r[c] = row[c]
      /\ r.digest = Over(r, columns)
  <2>1. ASSUME NEW C, "digest" \notin C, DOMAIN row = C
        PROVE  /\ Sealed(row, Over(row, C)) = [c \in C \cup {"digest"} |-> Sealed(row, Over(row, C))[c]]
               /\ \A c \in C : Sealed(row, Over(row, C))[c] = row[c]
               /\ Sealed(row, Over(row, C)).digest = Over(Sealed(row, Over(row, C)), C)
    BY ONLY <2>1, SealedRow
  <2> QED BY ONLY <1>2, <1>4, <2>1
<1>6. r = Sealed(row, DigestOf(kind, row))
  BY <1>3
<1> HIDE DEF r
<1>7. r = [c \in Columns[kind] |-> r[c]]
  BY ONLY <1>2, <1>5
<1>8. r.digest = DigestOf(kind, r)
  BY <1>5 DEF DigestOf, columns
<1> QED BY <1>5, <1>6, <1>7, <1>8 DEF columns

LEMMA NewRequestRow ==
    ASSUME NEW r, NEW p
    PROVE  LET row == NewRequest(r, p) IN
           /\ Savable("request", row)
           /\ row.recommendation = r.id /\ row.subject = r.subject
<1> DEFINE plain == [id |-> New("request"), recommendation |-> r.id,
                     recommendation_digest |-> r.digest, subject |-> r.subject, by |-> p]
           row == Sealed(plain, DigestOf("request", plain))
<1>1. "request" \in Digested
  BY DEF Digested, Kinds
<1>2. Columns["request"] = RequestColumns
  BY DEF Columns
<1>3. DOMAIN plain = Columns["request"] \ {"digest"}
  BY <1>2 DEF RequestColumns
<1>4. row = NewRequest(r, p)
  BY DigestsOfKinds DEF NewRequest
<1>5. plain.id = New("request") /\ plain.recommendation = r.id /\ plain.subject = r.subject
  OBVIOUS
<1>6. {"id", "recommendation", "subject"} \subseteq Columns["request"] \ {"digest"}
  BY <1>2 DEF RequestColumns
<1> HIDE DEF plain
<1>7. /\ row = [c \in Columns["request"] |-> row[c]]
      /\ \A c \in Columns["request"] \ {"digest"} : row[c] = plain[c]
      /\ row.digest = DigestOf("request", row)
  BY <1>1, <1>3, SealedIsRow
<1> HIDE DEF row
<1> QED BY <1>4, <1>5, <1>6, <1>7 DEF Savable, IsRow

LEMMA RequestStopSaves ==
    ASSUME Stored, NEW r \in Ids("recommendation"), NEW p, RequestStop(r, p)
    PROVE  \E row : Saves("request", row)
<1> DEFINE row == NewRequest(table.recommendation[r], p)
<1>1. "recommendation" \in Kinds
  BY DEF Kinds
<1>2. r \in DOMAIN Promotions /\ IsRow("recommendation", r, table.recommendation[r])
  BY <1>1, SameRows DEF Stored, RowsSealed
<1>3. /\ Savable("request", row)
      /\ row.recommendation = table.recommendation[r].id
      /\ row.subject = table.recommendation[r].subject
  BY NewRequestRow
<1>4. Save("request", row) /\ table.recommendation[r].subject = Promotions[r]
  BY DEF RequestStop, RecommendationHolds
<1> HIDE DEF row
<1>5. MadeRow("request", row)
  BY <1>2, <1>3, <1>4 DEF MadeRow, MadeRequest, IsRow
<1> QED BY <1>3, <1>4, <1>5 DEF Saves

LEMMA NewDecisionRow ==
    ASSUME NEW q, NEW outcome, NEW p
    PROVE  LET row == NewDecision(q, outcome, p) IN
           /\ Savable("decision", row)
           /\ row.request = q.id /\ row.by = p
<1> DEFINE plain == [id |-> New("decision"), request |-> q.id, request_digest |-> q.digest,
                     outcome |-> outcome, by |-> p]
           row == Sealed(plain, DigestOf("decision", plain))
<1>1. "decision" \in Digested
  BY DEF Digested, Kinds
<1>2. Columns["decision"] = DecisionColumns
  BY DEF Columns
<1>3. DOMAIN plain = Columns["decision"] \ {"digest"}
  BY <1>2 DEF DecisionColumns
<1>4. row = NewDecision(q, outcome, p)
  BY DigestsOfKinds DEF NewDecision
<1>5. plain.id = New("decision")
      /\ plain.request = q.id /\ plain.by = p
  OBVIOUS
<1>6. {"id", "request", "by"} \subseteq Columns["decision"] \ {"digest"}
  BY <1>2 DEF DecisionColumns
<1> HIDE DEF plain
<1>7. /\ row = [c \in Columns["decision"] |-> row[c]]
      /\ \A c \in Columns["decision"] \ {"digest"} : row[c] = plain[c]
      /\ row.digest = DigestOf("decision", row)
  BY <1>1, <1>3, SealedIsRow
<1> HIDE DEF row
<1> QED BY <1>4, <1>5, <1>6, <1>7 DEF Savable, IsRow

LEMMA DecideSaves ==
    ASSUME Stored, Made, NEW i \in Ids("request"), NEW p, NEW outcome, Decide(i, p, outcome)
    PROVE  \E row : Saves("decision", row)
<1> DEFINE row == NewDecision(table.request[i], outcome, p)
<1>1. /\ table.request[i] = written.request[i] /\ table.request[i].id = i
      /\ i \in DOMAIN written.request
  <2>1. "request" \in Kinds
    BY DEF Kinds
  <2> QED BY <2>1, RequestFits, SameRows DEF Decide
<1>2. Savable("decision", row) /\ row.request = table.request[i].id /\ row.by = p
  BY NewDecisionRow
<1>3. Save("decision", row) /\ p # table.request[i].by
  BY DEF Decide, Independent
<1> HIDE DEF row
<1>4. MadeRow("decision", row)
  BY <1>1, <1>2, <1>3 DEF MadeRow, MadeDecision
<1> QED BY <1>2, <1>3, <1>4 DEF Saves

LEMMA SwitchedRow ==
    ASSUME NEW q, NEW reference, NEW target, NEW p, Switch(q, reference, target, p)
    PROVE  \E row :
               /\ Save("transition", row) /\ Savable("transition", row)
               /\ row.id = New("transition") /\ row.reference = reference /\ row.target = target
               /\ row.agent = q.subject.agent /\ row.incident = q.subject.incident
<1> DEFINE row == [id |-> New("transition"), agent |-> q.subject.agent,
                   incident |-> q.subject.incident, reference |-> reference,
                   target |-> target, by |-> p]
<1>1. Columns["transition"] = {"id", "agent", "incident", "reference", "target", "by"}
  BY DEF Columns
<1>2. IsRow("transition", New("transition"), row)
  BY <1>1 DEF IsRow
<1>3. "transition" \notin Digested
  BY DEF Digested
<1>4. Save("transition", row)
  BY DEF Switch
<1> QED BY <1>2, <1>3, <1>4 DEF Savable

LEMMA ExecuteSaves ==
    ASSUME Stored, Made, NEW i \in Ids("decision"), NEW p, Execute(i, p)
    PROVE  \E row : Saves("transition", row)
<1> DEFINE d == table.decision[i]
           q == table.request[d.request]
<1>1. Approved(i) /\ Switch(q, Reference("actuation", d), "active", p)
  BY DEF Execute
<1>2. PICK row :
          /\ Save("transition", row) /\ Savable("transition", row)
          /\ row.reference = Reference("actuation", d) /\ row.target = "active"
          /\ row.agent = q.subject.agent /\ row.incident = q.subject.incident
  BY <1>1, SwitchedRow
<1>3. /\ d = written.decision[i] /\ d.request \in Ids("request") /\ RequestHolds(d.request)
      /\ d.outcome = "approved"
  BY <1>1, DecisionFits DEF Approved
<1>4. q = written.request[d.request]
  BY <1>3, RequestFits
<1>5. i \in DOMAIN written.decision
  <2>1. "decision" \in Kinds
    BY DEF Kinds
  <2> QED BY <2>1, SameRows
<1>6. StopOf(row, i)
  BY <1>2, <1>3, <1>4 DEF StopOf
<1>7. MadeRow("transition", row)
  BY <1>3, <1>5, <1>6 DEF MadeRow, MadeTransition
<1> QED BY <1>2, <1>7 DEF Saves

LEMMA SaveReceiptSaves ==
    ASSUME Stored, Made, NEW i \in Ids("decision"), SaveReceipt(i)
    PROVE  \E row, t :
               /\ Saves("execution", row)
               /\ row.decision = i /\ row.transition = t
               /\ MatchingTransition(i) = {t} /\ DecisionHolds(i)
               /\ TransitionBinding(table.transition[t], table.request[table.decision[i].request],
                                    Reference("actuation", table.decision[i]))
<1> DEFINE d == table.decision[i]
           q == table.request[d.request]
<1>0. "decision" \in Kinds /\ "transition" \in Kinds
  BY DEF Kinds
<1>1. PICK t \in MatchingTransition(i) :
          /\ MatchingTransition(i) = {t}
          /\ TransitionBinding(table.transition[t], q, Reference("actuation", d))
          /\ SaveExecution(Receipt(New("execution"), d, q, table.transition[t]))
  BY DEF SaveReceipt
<1>2. t \in Ids("transition") /\ table.transition[t].id = t /\ t \in DOMAIN written.transition
  <2>1. t \in Ids("transition")
    BY DEF MatchingTransition, MatchingTransitions, Found
  <2> QED BY <1>0, <2>1, SameRows DEF IsRow
<1>3. PICK row : row = Receipt(New("execution"), d, q, table.transition[t])
  OBVIOUS
<1>4. /\ row = [c \in ExecutionColumns |-> row[c]]
      /\ row.id = New("execution") /\ row.decision = d.id /\ row.subject = q.subject
      /\ row.transition = t /\ row.digest = ExecutionDigest(row)
  <2>1. PICK n, c : n = New("execution") /\ c = table.transition[t]
    OBVIOUS
  <2>2. row = Receipt(n, d, q, c) /\ c.id = t
    BY <1>2, <1>3, <2>1
  <2> HIDE DEF d, q
  <2>3. /\ row = [column \in ExecutionColumns |-> row[column]]
        /\ row.id = n /\ row.decision = d.id /\ row.subject = q.subject
        /\ row.transition = c.id /\ row.digest = ExecutionDigest(row)
    BY <2>2, ReceiptRow
  <2> QED BY ONLY <2>1, <2>2, <2>3
<1>5. Savable("execution", row)
  BY <1>4, DigestsOfKinds DEF Savable, IsRow, Columns
<1>6. Save("execution", row)
  BY <1>1, <1>3 DEF SaveExecution
<1>7. Approved(i) /\ DecisionHolds(i)
  BY DEF SaveReceipt, Approved
<1>8. /\ d = written.decision[i] /\ d.id = i /\ d.request \in Ids("request")
      /\ RequestHolds(d.request) /\ i \in DOMAIN written.decision
  BY <1>0, <1>7, DecisionFits, SameRows
<1>9. q = written.request[d.request]
  BY <1>8, RequestFits
<1>10. MadeRow("execution", row)
  BY <1>2, <1>4, <1>8, <1>9 DEF MadeRow, MadeExecution
<1>11. Saves("execution", row) /\ row.decision = i /\ row.transition = t
  BY <1>4, <1>5, <1>6, <1>8, <1>10 DEF Saves
<1> QED BY <1>1, <1>7, <1>11

-----------------------------------------------------------------------------
(* The steps of a restore *)

LEMMA NewRestoreRequestRow ==
    ASSUME NEW x, NEW remediation, NEW p
    PROVE  LET row == NewRestoreRequest(x, remediation, p) IN
           /\ Savable("restore_request", row)
           /\ row.source = x.id /\ row.subject = x.subject
<1> DEFINE plain == [id |-> New("restore_request"), source |-> x.id, source_digest |-> x.digest,
                     subject |-> x.subject, remediation |-> remediation, by |-> p]
           row == Sealed(plain, DigestOf("restore_request", plain))
<1>1. "restore_request" \in Digested
  BY DEF Digested, Kinds
<1>2. Columns["restore_request"] = RestoreRequestColumns
  BY DEF Columns
<1>3. DOMAIN plain = Columns["restore_request"] \ {"digest"}
  BY <1>2 DEF RestoreRequestColumns
<1>4. row = NewRestoreRequest(x, remediation, p)
  BY DigestsOfKinds DEF NewRestoreRequest
<1>5. plain.id = New("restore_request") /\ plain.source = x.id /\ plain.subject = x.subject
  OBVIOUS
<1>6. {"id", "source", "subject"} \subseteq Columns["restore_request"] \ {"digest"}
  BY <1>2 DEF RestoreRequestColumns
<1> HIDE DEF plain
<1>7. /\ row = [c \in Columns["restore_request"] |-> row[c]]
      /\ \A c \in Columns["restore_request"] \ {"digest"} : row[c] = plain[c]
      /\ row.digest = DigestOf("restore_request", row)
  BY <1>1, <1>3, SealedIsRow
<1> HIDE DEF row
<1> QED BY <1>4, <1>5, <1>6, <1>7 DEF Savable, IsRow

LEMMA RequestRestoreSaves ==
    ASSUME Stored, Made, NEW i \in Ids("execution"), NEW remediation, NEW p,
           RequestRestore(i, remediation, p)
    PROVE  \E row : Saves("restore_request", row)
<1> DEFINE row == NewRestoreRequest(table.execution[i], remediation, p)
<1>1. ExecutionHolds(i) /\ Save("restore_request", row)
  BY DEF RequestRestore, SourceHolds
<1>2. /\ table.execution[i] = written.execution[i] /\ table.execution[i].id = i
      /\ i \in DOMAIN written.execution
  <2>1. "execution" \in Kinds
    BY DEF Kinds
  <2> QED BY <1>1, <2>1, ExecutionFits, SameRows
<1>3. /\ Savable("restore_request", row)
      /\ row.source = table.execution[i].id /\ row.subject = table.execution[i].subject
  BY NewRestoreRequestRow
<1> HIDE DEF row
<1>4. MadeRow("restore_request", row)
  BY <1>2, <1>3 DEF MadeRow, MadeRestoreRequest
<1> QED BY <1>1, <1>3, <1>4 DEF Saves

LEMMA NewRestoreDecisionRow ==
    ASSUME NEW q, NEW outcome, NEW p
    PROVE  LET row == NewRestoreDecision(q, outcome, p) IN
           /\ Savable("restore_decision", row)
           /\ row.request = q.id /\ row.by = p
<1> DEFINE plain == [id |-> New("restore_decision"), request |-> q.id, request_digest |-> q.digest,
                     source |-> q.source, source_digest |-> q.source_digest,
                     outcome |-> outcome, by |-> p]
           row == Sealed(plain, DigestOf("restore_decision", plain))
<1>1. "restore_decision" \in Digested
  BY DEF Digested, Kinds
<1>2. Columns["restore_decision"] = RestoreDecisionColumns
  BY DEF Columns
<1>3. DOMAIN plain = Columns["restore_decision"] \ {"digest"}
  BY <1>2 DEF RestoreDecisionColumns, DecisionColumns
<1>4. row = NewRestoreDecision(q, outcome, p)
  BY DigestsOfKinds DEF NewRestoreDecision
<1>5. plain.id = New("restore_decision") /\ plain.request = q.id /\ plain.by = p
  OBVIOUS
<1>6. {"id", "request", "by"} \subseteq Columns["restore_decision"] \ {"digest"}
  BY <1>2 DEF RestoreDecisionColumns, DecisionColumns
<1> HIDE DEF plain
<1>7. /\ row = [c \in Columns["restore_decision"] |-> row[c]]
      /\ \A c \in Columns["restore_decision"] \ {"digest"} : row[c] = plain[c]
      /\ row.digest = DigestOf("restore_decision", row)
  BY <1>1, <1>3, SealedIsRow
<1> HIDE DEF row
<1> QED BY <1>4, <1>5, <1>6, <1>7 DEF Savable, IsRow

LEMMA DecideRestoreSaves ==
    ASSUME Stored, Made, NEW i \in Ids("restore_request"), NEW p, NEW outcome,
           DecideRestore(i, p, outcome)
    PROVE  \E row : Saves("restore_decision", row)
<1> DEFINE row == NewRestoreDecision(table.restore_request[i], outcome, p)
<1>1. /\ table.restore_request[i] = written.restore_request[i] /\ table.restore_request[i].id = i
      /\ i \in DOMAIN written.restore_request
  <2>1. "restore_request" \in Kinds
    BY DEF Kinds
  <2> QED BY <2>1, RestoreRequestFits, SameRows DEF DecideRestore
<1>2. /\ Savable("restore_decision", row)
      /\ row.request = table.restore_request[i].id /\ row.by = p
  BY NewRestoreDecisionRow
<1>3. Save("restore_decision", row) /\ p # table.restore_request[i].by
  BY DEF DecideRestore, Independent
<1> HIDE DEF row
<1>4. MadeRow("restore_decision", row)
  BY <1>1, <1>2, <1>3 DEF MadeRow, MadeRestoreDecision
<1> QED BY <1>2, <1>3, <1>4 DEF Saves

LEMMA ExecuteRestoreSaves ==
    ASSUME Stored, Made, NEW i \in Ids("restore_decision"), NEW p, ExecuteRestore(i, p)
    PROVE  \E row : Saves("transition", row)
<1> DEFINE d == table.restore_decision[i]
           q == table.restore_request[d.request]
<1>0. "restore_decision" \in Kinds /\ "transition" \in Kinds /\ "execution" \in Kinds
  BY DEF Kinds
<1>1. RestoreApproved(i) /\ Switch(q, Reference("restore", d), "inactive", p)
  BY DEF ExecuteRestore
<1>2. PICK row :
          /\ Save("transition", row) /\ Savable("transition", row) /\ row.id = New("transition")
          /\ row.reference = Reference("restore", d) /\ row.target = "inactive"
          /\ row.agent = q.subject.agent /\ row.incident = q.subject.incident
  BY <1>1, SwitchedRow
<1>3. /\ d = written.restore_decision[i] /\ d.request \in Ids("restore_request")
      /\ RestoreRequestHolds(d.request) /\ d.outcome = "approved"
  BY <1>1, RestoreDecisionFits DEF RestoreApproved
<1>4. q = written.restore_request[d.request] /\ MadeRestoreRequest(q)
  BY <1>3, RestoreRequestFits
<1>5. i \in DOMAIN written.restore_decision
  BY <1>0, SameRows
<1>6. written.execution[q.source].transition \in 1..Len(table.transition) /\ Len(table.transition) \in Nat
  <2>1. written.execution[q.source].transition \in DOMAIN table.transition
    BY <1>0, <1>4, SameRows DEF Made, MadeRestoreRequest, MadeExecution, Ids
  <2>2. PICK rows : rows = table.transition
    OBVIOUS
  <2>3. \E S : table["transition"] \in Seq(S)
    BY <1>0 DEF Stored, Shaped, IsTable
  <2>4. PICK S : rows \in Seq(S)
    BY <2>2, <2>3
  <2>5. PICK seq \in Seq(S) : seq = rows
    BY <2>4
  <2>6. DOMAIN rows = 1..Len(rows) /\ Len(rows) \in Nat
    BY <2>5
  <2> QED BY <2>1, <2>2, <2>6
<1>7. row.id > written.execution[q.source].transition
  <2>1. PICK n \in Nat : n = Len(table.transition)
    BY <1>6
  <2>2. PICK m \in 1..n : m = written.execution[q.source].transition
    BY <1>6, <2>1
  <2>3. row.id = n + 1
    BY <1>2, <2>1 DEF New
  <2>4. n + 1 > m
    BY ONLY n \in Nat, m \in 1..n
  <2> QED BY <2>2, <2>3, <2>4
<1>8. RestoreOf(row, i)
  BY <1>2, <1>3, <1>4, <1>7 DEF RestoreOf
<1>9. MadeRow("transition", row)
  BY <1>3, <1>5, <1>8 DEF MadeRow, MadeTransition
<1> QED BY <1>2, <1>9 DEF Saves

LEMMA SaveRestoreReceiptSaves ==
    ASSUME Stored, Made, NEW i \in Ids("restore_decision"), SaveRestoreReceipt(i)
    PROVE  \E row, t :
               /\ Saves("restore_execution", row)
               /\ row.decision = i /\ row.transition = t
               /\ MatchingRestore(i) = {t} /\ RestoreDecisionHolds(i)
               /\ RestoreTransitionBinding(
                      table.transition[t], table.restore_request[table.restore_decision[i].request],
                      Reference("restore", table.restore_decision[i]))
<1> DEFINE d == table.restore_decision[i]
           q == table.restore_request[d.request]
<1>0. "restore_decision" \in Kinds /\ "transition" \in Kinds
  BY DEF Kinds
<1>1. PICK t \in MatchingRestore(i) :
          /\ MatchingRestore(i) = {t}
          /\ RestoreTransitionBinding(table.transition[t], q, Reference("restore", d))
          /\ SaveRestoreExecution(RestoreReceipt(New("restore_execution"), d, q,
                                                 table.transition[t]))
  BY DEF SaveRestoreReceipt
<1>2. t \in Ids("transition") /\ table.transition[t].id = t /\ t \in DOMAIN written.transition
  <2>1. t \in Ids("transition")
    BY DEF MatchingRestore, MatchingTransitions, Found
  <2> QED BY <1>0, <2>1, SameRows DEF IsRow
<1>3. PICK row : row = RestoreReceipt(New("restore_execution"), d, q, table.transition[t])
  OBVIOUS
<1>4. /\ row = [c \in RestoreExecutionColumns |-> row[c]]
      /\ row.id = New("restore_execution") /\ row.decision = d.id
      /\ row.transition = t /\ row.digest = RestoreExecutionDigest(row)
  <2>1. PICK n, c : n = New("restore_execution") /\ c = table.transition[t]
    OBVIOUS
  <2>2. row = RestoreReceipt(n, d, q, c) /\ c.id = t
    BY <1>2, <1>3, <2>1
  <2> HIDE DEF d, q
  <2>3. /\ row = [column \in RestoreExecutionColumns |-> row[column]]
        /\ row.id = n /\ row.decision = d.id
        /\ row.transition = c.id /\ row.digest = RestoreExecutionDigest(row)
    BY <2>2, RestoreReceiptRow
  <2> QED BY ONLY <2>1, <2>2, <2>3
<1>5. Savable("restore_execution", row)
  BY <1>4, DigestsOfKinds DEF Savable, IsRow, Columns
<1>6. Save("restore_execution", row)
  BY <1>1, <1>3 DEF SaveRestoreExecution
<1>7. RestoreApproved(i) /\ RestoreDecisionHolds(i)
  BY DEF SaveRestoreReceipt, RestoreApproved
<1>8. d.id = i /\ i \in DOMAIN written.restore_decision
  BY <1>0, <1>7, RestoreDecisionFits, SameRows
<1>9. MadeRow("restore_execution", row)
  BY <1>2, <1>4, <1>8 DEF MadeRow, MadeRestoreExecution
<1>10. Saves("restore_execution", row) /\ row.decision = i /\ row.transition = t
  BY <1>4, <1>5, <1>6, <1>8, <1>9 DEF Saves
<1> QED BY <1>1, <1>7, <1>10

-----------------------------------------------------------------------------
(* A receipt and the transition it names *)

OneColumnChanged == damages \in {0, 1}

LEMMA OtherColumnsStay ==
    ASSUME Stored, OneColumnChanged, NEW kind \in Kinds, NEW i \in Ids(kind),
           NEW column \in Columns[kind], table[kind][i][column] # written[kind][i][column],
           NEW k \in Kinds, NEW j \in Ids(k), NEW c \in Columns[k],
           <<k, j, c>> # <<kind, i, column>>
    PROVE  table[k][j][c] = written[k][j][c]
<1>1. damages = 1
  BY DEF OneColumnChanged, Stored, ColumnsStay
<1>2. PICK k0 \in Kinds : \E i0, c0 : ChangedOnly(k0, i0, c0)
  BY <1>1 DEF Stored, ColumnsStay
<1>3. PICK i0, c0 : ChangedOnly(k0, i0, c0)
  BY <1>2
<1>4. <<kind, i, column>> = <<k0, i0, c0>>
  BY <1>3 DEF ChangedOnly
<1> QED BY <1>3, <1>4 DEF ChangedOnly

LEMMA StopReferenced ==
    ASSUME Stored, Made, NEW t \in DOMAIN written.transition, NEW i \in DOMAIN written.decision,
           written.transition[t].reference = Reference("actuation", written.decision[i])
    PROVE  StopOf(written.transition[t], i)
<1>0. \A j \in DOMAIN written.decision : written.decision[j].id = j
  <2>1. "decision" \in Kinds
    BY DEF Kinds
  <2> QED BY <2>1, SameRows DEF IsRow
<1>1. ASSUME NEW j \in DOMAIN written.decision, StopOf(written.transition[t], j)
      PROVE  j = i
  <2>1. Reference("actuation", written.decision[j]) = Reference("actuation", written.decision[i])
    BY <1>1 DEF StopOf
  <2>2. written.decision[j].id = written.decision[i].id
    BY <2>1 DEF Reference
  <2> QED BY <1>0, <2>2
<1>2. ASSUME NEW j \in DOMAIN written.restore_decision, RestoreOf(written.transition[t], j)
      PROVE  FALSE
  <2>1. Reference("restore", written.restore_decision[j])
            = Reference("actuation", written.decision[i])
    BY <1>2 DEF RestoreOf
  <2>2. "restore" = "actuation"
    BY <2>1 DEF Reference
  <2> QED BY <2>2
<1>3. MadeTransition(written.transition[t])
  BY DEF Made
<1> QED BY <1>1, <1>2, <1>3 DEF MadeTransition

LEMMA RestoreReferenced ==
    ASSUME Stored, Made, NEW t \in DOMAIN written.transition,
           NEW i \in DOMAIN written.restore_decision,
           written.transition[t].reference = Reference("restore", written.restore_decision[i])
    PROVE  RestoreOf(written.transition[t], i)
<1>0. \A j \in DOMAIN written.restore_decision : written.restore_decision[j].id = j
  <2>1. "restore_decision" \in Kinds
    BY DEF Kinds
  <2> QED BY <2>1, SameRows DEF IsRow
<1>1. ASSUME NEW j \in DOMAIN written.restore_decision, RestoreOf(written.transition[t], j)
      PROVE  j = i
  <2>1. Reference("restore", written.restore_decision[j])
            = Reference("restore", written.restore_decision[i])
    BY <1>1 DEF RestoreOf
  <2>2. written.restore_decision[j].id = written.restore_decision[i].id
    BY <2>1 DEF Reference
  <2> QED BY <1>0, <2>2
<1>2. ASSUME NEW j \in DOMAIN written.decision, StopOf(written.transition[t], j)
      PROVE  FALSE
  <2>1. Reference("actuation", written.decision[j])
            = Reference("restore", written.restore_decision[i])
    BY <1>2 DEF StopOf
  <2>2. "restore" = "actuation"
    BY <2>1 DEF Reference
  <2> QED BY <2>2
<1>3. MadeTransition(written.transition[t])
  BY DEF Made
<1> QED BY <1>1, <1>2, <1>3 DEF MadeTransition

\* Where at most one column has changed, the one transition found for a decision
\* that holds was written for it: had its reference been changed to that of
\* another, the other would be found as well.
LEMMA TheOneFound ==
    ASSUME Stored, OneColumnChanged, NEW q, NEW reference, reference # Nonsense, NEW t,
           MatchingTransitions(q, reference) = {t},
           \A s \in DOMAIN written.transition :
               written.transition[s].reference = reference =>
                   written.transition[s].agent = q.subject.agent
    PROVE  t \in DOMAIN written.transition /\ written.transition[t].reference = reference
<1>0. "transition" \in Kinds /\ DOMAIN written.transition = Ids("transition")
      /\ {"agent", "reference"} \subseteq Columns["transition"]
      /\ SealOf("transition") = "reference"
  <2>1. "transition" \in Kinds
    BY DEF Kinds
  <2> QED BY <2>1, SameRows DEF Columns, SealOf
<1>1. t \in Ids("transition") /\ table.transition[t].reference = reference
  BY DEF MatchingTransitions, Found
<1>2. PICK s \in DOMAIN written.transition : written.transition[s].reference = reference
  BY <1>0, <1>1 DEF Stored, SealsKnown
<1>3. SUFFICES ASSUME written.transition[t].reference # reference PROVE FALSE
  BY <1>0, <1>1
<1>4. s # t
  BY <1>2, <1>3
<1>5. \A c \in {"agent", "reference"} : table.transition[s][c] = written.transition[s][c]
  BY <1>0, <1>1, <1>2, <1>3, <1>4, OtherColumnsStay
<1>6. s \in MatchingTransitions(q, reference)
  BY <1>0, <1>2, <1>5 DEF MatchingTransitions, Found
<1> QED BY <1>4, <1>6

LEMMA ReceiptOfStop ==
    ASSUME Stored, Made, OneColumnChanged, NEW i \in Ids("decision"), NEW t,
           DecisionHolds(i), MatchingTransition(i) = {t}
    PROVE  StopOf(written.transition[t], i)
<1> DEFINE d == table.decision[i]
           q == table.request[d.request]
<1>1. "decision" \in Kinds
  BY DEF Kinds
<1>2. /\ i \in DOMAIN written.decision /\ d = written.decision[i]
      /\ d.request \in Ids("request") /\ RequestHolds(d.request)
  BY <1>1, SameRows, DecisionFits
<1>3. q = written.request[d.request]
  BY <1>2, RequestFits
<1>4. Reference("actuation", d) # Nonsense
  BY DEF Reference, Nonsense
<1>5. \A s \in DOMAIN written.transition :
          written.transition[s].reference = Reference("actuation", d) =>
              written.transition[s].agent = q.subject.agent
  <2> SUFFICES ASSUME NEW s \in DOMAIN written.transition,
                      written.transition[s].reference = Reference("actuation", d)
               PROVE  written.transition[s].agent = q.subject.agent
    OBVIOUS
  <2>1. StopOf(written.transition[s], i)
    BY <1>2, StopReferenced
  <2>2. written.transition[s].agent =
            written.request[written.decision[i].request].subject.agent
    BY <2>1 DEF StopOf
  <2> QED BY <1>2, <1>3, <2>2
<1>6. MatchingTransitions(q, Reference("actuation", d)) = {t}
  BY DEF MatchingTransition
<1>7. /\ t \in DOMAIN written.transition
      /\ written.transition[t].reference = Reference("actuation", d)
  BY ONLY <1>4, <1>5, <1>6, Stored, OneColumnChanged, TheOneFound
<1> QED BY <1>2, <1>7, StopReferenced

LEMMA ReceiptOfRestore ==
    ASSUME Stored, Made, OneColumnChanged, NEW i \in Ids("restore_decision"), NEW t,
           RestoreDecisionHolds(i), MatchingRestore(i) = {t}
    PROVE  RestoreOf(written.transition[t], i)
<1> DEFINE d == table.restore_decision[i]
           q == table.restore_request[d.request]
<1>1. "restore_decision" \in Kinds
  BY DEF Kinds
<1>2. /\ i \in DOMAIN written.restore_decision /\ d = written.restore_decision[i]
      /\ d.request \in Ids("restore_request") /\ RestoreRequestHolds(d.request)
  BY <1>1, SameRows, RestoreDecisionFits
<1>3. q = written.restore_request[d.request]
  BY <1>2, RestoreRequestFits
<1>4. Reference("restore", d) # Nonsense
  BY DEF Reference, Nonsense
<1>5. \A s \in DOMAIN written.transition :
          written.transition[s].reference = Reference("restore", d) =>
              written.transition[s].agent = q.subject.agent
  <2> SUFFICES ASSUME NEW s \in DOMAIN written.transition,
                      written.transition[s].reference = Reference("restore", d)
               PROVE  written.transition[s].agent = q.subject.agent
    OBVIOUS
  <2>1. RestoreOf(written.transition[s], i)
    BY <1>2, RestoreReferenced
  <2>2. written.transition[s].agent =
            written.restore_request[written.restore_decision[i].request].subject.agent
    BY <2>1 DEF RestoreOf
  <2> QED BY <1>2, <1>3, <2>2
<1>6. MatchingTransitions(q, Reference("restore", d)) = {t}
  BY DEF MatchingRestore
<1>7. /\ t \in DOMAIN written.transition
      /\ written.transition[t].reference = Reference("restore", d)
  BY ONLY <1>4, <1>5, <1>6, Stored, OneColumnChanged, TheOneFound
<1> QED BY <1>2, <1>7, RestoreReferenced

-----------------------------------------------------------------------------
(* The invariant *)

\* Whatever has changed, what is written is linked as it was made; where at most
\* one column has changed, every receipt also names the transition it is for.
EvidenceInv ==
    /\ Stored
    /\ Made
    /\ MaxDamages \in {0, 1} => damages <= MaxDamages /\ ReceiptsStand

LEMMA ReceiptsStay ==
    ASSUME Made, ReceiptsStand, NEW kind \in Kinds, NEW row, Adds(kind, row),
           kind = "execution" => /\ row.decision \in DOMAIN written.decision
                                 /\ row.transition \in DOMAIN written.transition
                                 /\ StopOf(written.transition[row.transition], row.decision),
           kind = "restore_execution" =>
               /\ row.decision \in DOMAIN written.restore_decision
               /\ row.transition \in DOMAIN written.transition
               /\ RestoreOf(written.transition[row.transition], row.decision)
    PROVE  ReceiptsStand'
<1>0. "transition" \in Kinds /\ "execution" \in Kinds /\ "restore_execution" \in Kinds
  BY DEF Kinds
<1>1. \A t \in DOMAIN written.transition : written'.transition[t] = written.transition[t]
  BY <1>0, WrittenStays
<1>2. ASSUME NEW i \in DOMAIN written'.execution
      PROVE  StopOf(written.transition[written.execution[i].transition],
                    written.execution[i].decision)'
  <2>1. PICK x : x = written'.execution[i]
    OBVIOUS
  <2>2. /\ x.decision \in DOMAIN written.decision /\ x.transition \in DOMAIN written.transition
        /\ StopOf(written.transition[x.transition], x.decision)
    <3>1. CASE i \in DOMAIN written.execution
      <4>1. x = written.execution[i]
        BY <1>0, <2>1, <3>1, WrittenStays
      <4> QED BY <3>1, <4>1 DEF Made, MadeExecution, ReceiptsStand
    <3>2. CASE i \notin DOMAIN written.execution
      <4>1. kind = "execution" /\ x = row
        BY <1>0, <2>1, <3>2 DEF Adds
      <4> QED BY <4>1
    <3> QED BY <3>1, <3>2
  <2>3. PICK t : t = written.transition[x.transition]
    OBVIOUS
  <2>4. StopOf(t, x.decision)'
    BY <2>2, <2>3, StopStays
  <2>5. t = written'.transition[x.transition]
    BY <1>1, <2>2, <2>3
  <2> QED BY <2>1, <2>4, <2>5 DEF StopOf
<1>3. ASSUME NEW i \in DOMAIN written'.restore_execution
      PROVE  RestoreOf(written.transition[written.restore_execution[i].transition],
                       written.restore_execution[i].decision)'
  <2>1. PICK x : x = written'.restore_execution[i]
    OBVIOUS
  <2>2. /\ x.decision \in DOMAIN written.restore_decision
        /\ x.transition \in DOMAIN written.transition
        /\ RestoreOf(written.transition[x.transition], x.decision)
    <3>1. CASE i \in DOMAIN written.restore_execution
      <4>1. x = written.restore_execution[i]
        BY <1>0, <2>1, <3>1, WrittenStays
      <4> QED BY <3>1, <4>1 DEF Made, MadeRestoreExecution, ReceiptsStand
    <3>2. CASE i \notin DOMAIN written.restore_execution
      <4>1. kind = "restore_execution" /\ x = row
        BY <1>0, <2>1, <3>2 DEF Adds
      <4> QED BY <4>1
    <3> QED BY <3>1, <3>2
  <2>3. PICK t : t = written.transition[x.transition]
    OBVIOUS
  <2>4. RestoreOf(t, x.decision)'
    BY <2>2, <2>3, RestoreStays
  <2>5. t = written'.transition[x.transition]
    BY <1>1, <2>2, <2>3
  <2> QED BY <2>1, <2>4, <2>5 DEF RestoreOf
<1> QED BY <1>2, <1>3 DEF ReceiptsStand

\* A row that is saved leaves the invariant standing.
LEMMA SaveStep ==
    ASSUME EvidenceInv, NEW kind \in Kinds \ {"recommendation"}, NEW row, Saves(kind, row),
           ASSUME OneColumnChanged
           PROVE  /\ kind = "execution" =>
                         StopOf(written.transition[row.transition], row.decision)
                  /\ kind = "restore_execution" =>
                         RestoreOf(written.transition[row.transition], row.decision)
    PROVE  EvidenceInv'
<1>1. Stored' /\ Adds(kind, row)
  BY SaveKeeps DEF EvidenceInv, Saves
<1>2. Made'
  BY <1>1, MadeStays DEF EvidenceInv, Saves
<1>3. damages' = damages
  BY DEF Saves, Save
<1>4. ASSUME MaxDamages \in {0, 1}
      PROVE  ReceiptsStand'
  <2>1. ReceiptsStand /\ OneColumnChanged
    BY <1>4 DEF EvidenceInv, OneColumnChanged, Stored, ColumnsStay
  <2>2. /\ kind = "execution" => MadeExecution(row)
        /\ kind = "restore_execution" => MadeRestoreExecution(row)
    BY DEF Saves, MadeRow
  <2> QED BY <1>1, <2>1, <2>2, ReceiptsStay DEF EvidenceInv, MadeExecution, MadeRestoreExecution
<1> QED BY <1>1, <1>2, <1>3, <1>4 DEF EvidenceInv

LEMMA SavesByStop ==
    ASSUME EvidenceInv, StopStep
    PROVE  EvidenceInv'
<1>0. Stored /\ Made
  BY DEF EvidenceInv
<1>1. ASSUME NEW kind \in {"request", "decision", "transition", "restore_request",
                           "restore_decision"},
             \E row : Saves(kind, row)
      PROVE  EvidenceInv'
  BY <1>1, SaveStep DEF Kinds
<1>2. ASSUME NEW r \in Ids("recommendation"), NEW p \in OwnerOrAdmin, RequestStop(r, p)
      PROVE  EvidenceInv'
  <2>1. \E row : Saves("request", row)
    BY <1>0, <1>2, RequestStopSaves
  <2> QED BY <1>1, <2>1
<1>3. ASSUME NEW i \in Ids("request"), NEW p \in Security, NEW outcome \in Outcomes,
             Decide(i, p, outcome)
      PROVE  EvidenceInv'
  <2>1. \E row : Saves("decision", row)
    BY <1>0, <1>3, DecideSaves
  <2> QED BY <1>1, <2>1
<1>4. ASSUME NEW i \in Ids("decision"), NEW p \in OwnerOrAdmin, Execute(i, p)
      PROVE  EvidenceInv'
  <2>1. \E row : Saves("transition", row)
    BY <1>0, <1>4, ExecuteSaves
  <2> QED BY <1>1, <2>1
<1>5. ASSUME NEW i \in Ids("decision"), SaveReceipt(i)
      PROVE  EvidenceInv'
  <2>1. PICK row, t :
            /\ Saves("execution", row) /\ row.decision = i /\ row.transition = t
            /\ MatchingTransition(i) = {t} /\ DecisionHolds(i)
    BY <1>0, <1>5, SaveReceiptSaves
  <2>2. ASSUME OneColumnChanged PROVE StopOf(written.transition[row.transition], row.decision)
    BY <1>0, <2>1, <2>2, ReceiptOfStop
  <2>3. "execution" \in Kinds \ {"recommendation"}
    BY DEF Kinds
  <2> QED BY <2>1, <2>2, <2>3, SaveStep
<1> QED BY <1>2, <1>3, <1>4, <1>5 DEF StopStep

LEMMA SavesByRestore ==
    ASSUME EvidenceInv, RestoreStep
    PROVE  EvidenceInv'
<1>0. Stored /\ Made
  BY DEF EvidenceInv
<1>1. ASSUME NEW kind \in {"request", "decision", "transition", "restore_request",
                           "restore_decision"},
             \E row : Saves(kind, row)
      PROVE  EvidenceInv'
  BY <1>1, SaveStep DEF Kinds
<1>2. ASSUME NEW i \in Ids("execution"), NEW m \in Remediations, NEW p \in OwnerOrAdmin,
             RequestRestore(i, m, p)
      PROVE  EvidenceInv'
  <2>1. \E row : Saves("restore_request", row)
    BY <1>0, <1>2, RequestRestoreSaves
  <2> QED BY <1>1, <2>1
<1>3. ASSUME NEW i \in Ids("restore_request"), NEW p \in Security, NEW outcome \in Outcomes,
             DecideRestore(i, p, outcome)
      PROVE  EvidenceInv'
  <2>1. \E row : Saves("restore_decision", row)
    BY <1>0, <1>3, DecideRestoreSaves
  <2> QED BY <1>1, <2>1
<1>4. ASSUME NEW i \in Ids("restore_decision"), NEW p \in OwnerOrAdmin, ExecuteRestore(i, p)
      PROVE  EvidenceInv'
  <2>1. \E row : Saves("transition", row)
    BY <1>0, <1>4, ExecuteRestoreSaves
  <2> QED BY <1>1, <2>1
<1>5. ASSUME NEW i \in Ids("restore_decision"), SaveRestoreReceipt(i)
      PROVE  EvidenceInv'
  <2>1. PICK row, t :
            /\ Saves("restore_execution", row) /\ row.decision = i /\ row.transition = t
            /\ MatchingRestore(i) = {t} /\ RestoreDecisionHolds(i)
    BY <1>0, <1>5, SaveRestoreReceiptSaves
  <2>2. ASSUME OneColumnChanged PROVE RestoreOf(written.transition[row.transition], row.decision)
    BY <1>0, <2>1, <2>2, ReceiptOfRestore
  <2>3. "restore_execution" \in Kinds \ {"recommendation"}
    BY DEF Kinds
  <2> QED BY <2>1, <2>2, <2>3, SaveStep
<1> QED BY <1>2, <1>3, <1>4, <1>5 DEF RestoreStep

\* Made and ReceiptsStand are about the rows written only.
LEMMA MadeOfWritten ==
    ASSUME UNCHANGED written
    PROVE  (Made => Made') /\ (ReceiptsStand => ReceiptsStand')
<1>1. \A t, i : StopOf(t, i) => StopOf(t, i)'
  BY DEF StopOf, Reference
<1>2. \A t, i : RestoreOf(t, i) => RestoreOf(t, i)'
  BY DEF RestoreOf, Reference
<1>3. \A t : MadeTransition(t) => MadeTransition(t)'
  BY <1>1, <1>2 DEF MadeTransition
<1>4. /\ \A q : MadeRequest(q) => MadeRequest(q)'
      /\ \A d : MadeDecision(d) => MadeDecision(d)'
      /\ \A x : MadeExecution(x) => MadeExecution(x)'
      /\ \A q : MadeRestoreRequest(q) => MadeRestoreRequest(q)'
      /\ \A d : MadeRestoreDecision(d) => MadeRestoreDecision(d)'
      /\ \A x : MadeRestoreExecution(x) => MadeRestoreExecution(x)'
  BY DEF MadeRequest, MadeDecision, MadeExecution, MadeRestoreRequest, MadeRestoreDecision,
         MadeRestoreExecution
<1>5. Made => Made'
  BY <1>3, <1>4 DEF Made, MadeTransition, MadeRequest, MadeDecision, MadeExecution,
                    MadeRestoreRequest, MadeRestoreDecision, MadeRestoreExecution
<1>6. ReceiptsStand => ReceiptsStand'
  BY <1>1, <1>2 DEF ReceiptsStand
<1> QED BY <1>5, <1>6

LEMMA ChangeStep ==
    ASSUME EvidenceInv, Fault
    PROVE  EvidenceInv'
<1>1. Stored /\ DOMAIN table = Kinds
  BY DEF EvidenceInv, Stored, Shaped, IsTable
<1>2. PICK kind \in Kinds : \E i \in Ids(kind) : \E column \in DOMAIN table[kind][i] \ {"id"} :
          \E value \in Admitted(kind, column) : Damage(kind, i, column, value)
  BY <1>1 DEF Fault
<1>3. PICK i \in Ids(kind) : \E column \in DOMAIN table[kind][i] \ {"id"} :
          \E value \in Admitted(kind, column) : Damage(kind, i, column, value)
  BY <1>2
<1>4. PICK column \in DOMAIN table[kind][i] \ {"id"} :
          \E value \in Admitted(kind, column) : Damage(kind, i, column, value)
  BY <1>3
<1>5. PICK value \in Admitted(kind, column) : Damage(kind, i, column, value)
  BY <1>4
<1>6. Stored' /\ UNCHANGED written
  BY <1>1, <1>5, DamageKeeps
<1>7. Made' /\ (ReceiptsStand => ReceiptsStand')
  BY <1>6, MadeOfWritten DEF EvidenceInv
<1>8. MaxDamages \in {0, 1} => damages' <= MaxDamages
  BY <1>5 DEF Damage, EvidenceInv, Stored, ColumnsStay
<1> QED BY <1>6, <1>7, <1>8 DEF EvidenceInv

LEMMA FirstRows ==
    ASSUME Init
    PROVE  EvidenceInv
<1>1. /\ table.recommendation = [r \in DOMAIN Promotions |-> Recommendation(r)]
      /\ \A kind \in Kinds \ {"recommendation"} : table[kind] = << >>
      /\ table = [kind \in Kinds |-> table[kind]]
      /\ written = table /\ damages = 0
  BY DEF Init, Kinds
<1>2. /\ \E S : table.recommendation \in Seq(S)
      /\ DOMAIN table.recommendation = DOMAIN Promotions
  <2>1. PICK n \in Nat : DOMAIN Promotions = 1..n
    BY PromotionsAssumption
  <2>2. \A r \in 1..n : Recommendation(r) \in {Recommendation(k) : k \in 1..n}
    OBVIOUS
  <2>3. [r \in 1..n |-> Recommendation(r)] \in Seq({Recommendation(k) : k \in 1..n})
    BY <2>2, IsASeq
  <2> QED BY <1>1, <2>1, <2>3
<1>3. \A r \in DOMAIN Promotions : IsRow("recommendation", r, Recommendation(r))
  BY DEF IsRow, Columns, Recommendation, Sealed
<1>4. << >> \in Seq({}) /\ DOMAIN << >> = {}
  OBVIOUS
<1>5. IsTable(table)
  <2>1. \A kind \in Kinds : \E S : table[kind] \in Seq(S)
    BY <1>1, <1>2, <1>4
  <2>2. \A kind \in Kinds : \A i \in DOMAIN table[kind] : IsRow(kind, i, table[kind][i])
    BY <1>1, <1>2, <1>3, <1>4
  <2> QED BY <1>1, <2>1, <2>2 DEF IsTable
<1>6. Shaped /\ SealsKnown /\ ColumnsStay
  BY <1>1, <1>5 DEF Shaped, SealsKnown, ColumnsStay, Ids
<1>7. \A kind \in Kinds \ {"recommendation"} : DOMAIN written[kind] = {}
  BY <1>1, <1>4
<1>8. RowsSealed
  BY <1>1, <1>7 DEF RowsSealed, Digested
<1>9. Made /\ ReceiptsStand
  BY <1>7 DEF Made, ReceiptsStand, Kinds
<1> QED BY <1>1, <1>6, <1>8, <1>9 DEF EvidenceInv, Stored

LEMMA NothingChanges ==
    ASSUME EvidenceInv, UNCHANGED vars
    PROVE  EvidenceInv'
<1>1. table' = table /\ written' = written /\ damages' = damages
  BY DEF vars
<1>2. Stored'
  BY <1>1 DEF EvidenceInv, Stored, Shaped, SealsKnown, RowsSealed, ColumnsStay, ChangedOnly, Ids
<1>3. Made' /\ (ReceiptsStand => ReceiptsStand')
  BY <1>1, MadeOfWritten DEF EvidenceInv
<1> QED BY <1>1, <1>2, <1>3 DEF EvidenceInv

\* The inductive invariant of the evidence: whatever columns have changed, the
\* rows written rest on each other as the steps of governed actuation and restore
\* made them, for any recommendations, principals and number of changes.
THEOREM EvidenceIsLinked == Spec => []EvidenceInv
<1>1. Init => EvidenceInv
  BY FirstRows
<1>2. EvidenceInv /\ [Next]_vars => EvidenceInv'
  BY SavesByStop, SavesByRestore, ChangeStep, NothingChanges DEF Next
<1> QED BY <1>1, <1>2, PTL DEF Spec

-----------------------------------------------------------------------------
(* What is answered is what was written *)

\* The rows of ServedAsWritten that a digest covers.
ChainsServedAsWritten ==
    /\ \A r \in Ids("recommendation") : \A i \in GetRequest(r) : AsWritten(OfRequest(i))
    /\ \A q \in Ids("request") : \A i \in GetDecision(q) : AsWritten(OfDecision(i))
    /\ \A d \in Ids("decision") : \A i \in GetExecution(d) : AsWritten(OfExecution(i))
    /\ \A x \in Ids("execution"), m \in Remediations : \A i \in GetRestoreRequest(x, m) :
          AsWritten(OfRestoreRequest(i))
    /\ \A q \in Ids("restore_request") : \A i \in GetRestoreDecision(q) :
          AsWritten(OfRestoreDecision(i))
    /\ \A d \in Ids("restore_decision") : \A i \in GetRestoreExecution(d) :
          AsWritten(OfRestoreExecution(i))

LEMMA ReadsAreOfChains ==
    ASSUME Stored, Made
    PROVE  ChainsServedAsWritten
<1>1. ASSUME NEW r, NEW i \in GetRequest(r) PROVE AsWritten(OfRequest(i))
  <2>1. i \in Ids("request") /\ RequestHolds(i)
    BY <1>1 DEF GetRequest, RequestOf, Found
  <2> QED BY <2>1, RequestFits
<1>2. ASSUME NEW q, NEW i \in GetDecision(q) PROVE AsWritten(OfDecision(i))
  <2>1. i \in Ids("decision") /\ DecisionHolds(i)
    BY <1>2 DEF GetDecision, DecisionOf, Found
  <2> QED BY <2>1, DecisionFits
<1>3. ASSUME NEW d, NEW i \in GetExecution(d) PROVE AsWritten(OfExecution(i))
  <2>1. i \in Ids("execution") /\ ExecutionHolds(i)
    BY <1>3 DEF GetExecution, ExecutionOf, Found
  <2> QED BY <2>1, ExecutionFits
<1>4. ASSUME NEW x, NEW m, NEW i \in GetRestoreRequest(x, m) PROVE AsWritten(OfRestoreRequest(i))
  <2>1. i \in Ids("restore_request") /\ RestoreRequestHolds(i)
    BY <1>4 DEF GetRestoreRequest, RestoreRequestOf, Found
  <2> QED BY <2>1, RestoreRequestFits
<1>5. ASSUME NEW q, NEW i \in GetRestoreDecision(q) PROVE AsWritten(OfRestoreDecision(i))
  <2>1. i \in Ids("restore_decision") /\ RestoreDecisionHolds(i)
    BY <1>5 DEF GetRestoreDecision, RestoreDecisionOf, Found
  <2> QED BY <2>1, RestoreDecisionFits
<1>6. ASSUME NEW d, NEW i \in GetRestoreExecution(d) PROVE AsWritten(OfRestoreExecution(i))
  <2>1. i \in Ids("restore_execution") /\ RestoreExecutionHolds(i)
    BY <1>6 DEF GetRestoreExecution, RestoreExecutionOf, Found
  <2> QED BY <2>1, RestoreExecutionFits
<1> QED BY <1>1, <1>2, <1>3, <1>4, <1>5, <1>6 DEF ChainsServedAsWritten

\* A transition bound as its receipt says is the one written, but for its by.
LEMMA SameTransition ==
    ASSUME Stored, NEW t \in Ids("transition"),
           \A c \in {"agent", "incident", "reference", "target"} :
               table.transition[t][c] = written.transition[t][c]
    PROVE  table.transition[t] = [written.transition[t] EXCEPT !.by = table.transition[t].by]
<1>1. PICK row, made : row = table.transition[t] /\ made = written.transition[t]
  OBVIOUS
<1>2. "transition" \in Kinds /\ Columns["transition"]
          = {"id", "agent", "incident", "reference", "target", "by"}
  BY DEF Kinds, Columns
<1>3. IsRow("transition", t, row) /\ IsRow("transition", t, made)
  BY <1>1, <1>2, SameRows
<1>4. /\ row = [c \in {"id", "agent", "incident", "reference", "target", "by"} |-> row[c]]
      /\ made = [c \in {"id", "agent", "incident", "reference", "target", "by"} |-> made[c]]
      /\ row.id = made.id
  BY <1>2, <1>3 DEF IsRow
<1>5. \A c \in {"agent", "incident", "reference", "target"} : row[c] = made[c]
  BY <1>1
<1>6. row = [made EXCEPT !.by = row.by]
  BY ONLY <1>4, <1>5
<1> QED BY <1>1, <1>6

LEMMA ReceiptsServedAsWritten ==
    ASSUME Stored, Made, ReceiptsStand, NEW i \in Ids("execution"), ExecutionHolds(i)
    PROVE  TransitionAsWritten(table.execution[i])
<1>0. "execution" \in Kinds /\ DOMAIN written.execution = Ids("execution")
  BY SameRows DEF Kinds
<1>1. PICK x : x = table.execution[i]
  OBVIOUS
<1>2. /\ x = written.execution[i] /\ x.decision \in Ids("decision") /\ Approved(x.decision)
      /\ x.transition \in Ids("transition") /\ table.transition[x.transition].by = x.by
      /\ TransitionBinding(table.transition[x.transition],
                           table.request[table.decision[x.decision].request],
                           Reference("actuation", table.decision[x.decision]))
  BY <1>1, ExecutionFits
<1>3. PICK d, q : d = table.decision[x.decision] /\ q = table.request[d.request]
  OBVIOUS
<1>4. d = written.decision[x.decision] /\ q = written.request[d.request]
  <2>1. /\ d = written.decision[x.decision] /\ d.request \in Ids("request")
        /\ RequestHolds(d.request)
    BY <1>2, <1>3, DecisionFits DEF Approved
  <2> QED BY <1>3, <2>1, RequestFits
<1>5. StopOf(written.transition[x.transition], x.decision)
  BY <1>0, <1>2 DEF ReceiptsStand
<1>6. \A c \in {"agent", "incident", "reference", "target"} :
          table.transition[x.transition][c] = written.transition[x.transition][c]
  <2>1. PICK t : t = written.transition[x.transition]
    OBVIOUS
  <2>2. /\ t.reference = Reference("actuation", d) /\ t.target = "active"
        /\ t.agent = q.subject.agent /\ t.incident = q.subject.incident
    BY <1>4, <1>5, <2>1 DEF StopOf
  <2>3. PICK s : s = table.transition[x.transition]
    OBVIOUS
  <2>4. /\ s.reference = Reference("actuation", d) /\ s.target = "active"
        /\ s.agent = q.subject.agent /\ s.incident = q.subject.incident
    BY <1>2, <1>3, <2>3 DEF TransitionBinding
  <2> QED BY <2>1, <2>2, <2>3, <2>4
<1> QED BY <1>1, <1>2, <1>6, SameTransition DEF TransitionAsWritten

LEMMA RestoresServedAsWritten ==
    ASSUME Stored, Made, ReceiptsStand, NEW i \in Ids("restore_execution"),
           RestoreExecutionHolds(i)
    PROVE  TransitionAsWritten(table.restore_execution[i])
<1>0. "restore_execution" \in Kinds /\ DOMAIN written.restore_execution = Ids("restore_execution")
  BY SameRows DEF Kinds
<1>1. PICK x : x = table.restore_execution[i]
  OBVIOUS
<1>2. /\ x = written.restore_execution[i]
      /\ x.decision \in Ids("restore_decision") /\ RestoreApproved(x.decision)
      /\ x.transition \in Ids("transition") /\ table.transition[x.transition].by = x.by
      /\ RestoreTransitionBinding(
             table.transition[x.transition],
             table.restore_request[table.restore_decision[x.decision].request],
             Reference("restore", table.restore_decision[x.decision]))
  BY <1>1, RestoreExecutionFits
<1>3. PICK d, q : d = table.restore_decision[x.decision] /\ q = table.restore_request[d.request]
  OBVIOUS
<1>4. d = written.restore_decision[x.decision] /\ q = written.restore_request[d.request]
  <2>1. /\ d = written.restore_decision[x.decision] /\ d.request \in Ids("restore_request")
        /\ RestoreRequestHolds(d.request)
    BY <1>2, <1>3, RestoreDecisionFits DEF RestoreApproved
  <2> QED BY <1>3, <2>1, RestoreRequestFits
<1>5. RestoreOf(written.transition[x.transition], x.decision)
  BY <1>0, <1>2 DEF ReceiptsStand
<1>6. \A c \in {"agent", "incident", "reference", "target"} :
          table.transition[x.transition][c] = written.transition[x.transition][c]
  <2>1. PICK t : t = written.transition[x.transition]
    OBVIOUS
  <2>2. /\ t.reference = Reference("restore", d) /\ t.target = "inactive"
        /\ t.agent = q.subject.agent /\ t.incident = q.subject.incident
    BY <1>4, <1>5, <2>1 DEF RestoreOf
  <2>3. PICK s : s = table.transition[x.transition]
    OBVIOUS
  <2>4. /\ s.reference = Reference("restore", d) /\ s.target = "inactive"
        /\ s.agent = q.subject.agent /\ s.incident = q.subject.incident
    BY <1>2, <1>3, <2>3 DEF RestoreTransitionBinding
  <2> QED BY <2>1, <2>2, <2>3, <2>4
<1> QED BY <1>1, <1>2, <1>6, SameTransition DEF TransitionAsWritten

\* Every answer of a read, and every replay of a retry, gives the rows that were
\* written, from the receipt down to the recommendation, however many columns of
\* the stored rows have changed since (the digests of governed actuation and
\* restore, recomputed by each read).
THEOREM ChainsServedAsWrittenHolds == Spec => []ChainsServedAsWritten
<1>1. EvidenceInv => ChainsServedAsWritten
  BY ReadsAreOfChains DEF EvidenceInv
<1> QED BY <1>1, EvidenceIsLinked, PTL

\* Where one column of one stored row changes, the transition a receipt names is
\* answered as it was written too, though no digest is taken over a transition
\* (the reference and the one match a read asks for).
THEOREM ServedAsWrittenHolds ==
    ASSUME MaxDamages \in {0, 1}
    PROVE  Spec => []ServedAsWritten
<1>1. ASSUME EvidenceInv
      PROVE  ServedAsWritten
  <2>1. Stored /\ Made /\ ReceiptsStand
    BY <1>1 DEF EvidenceInv
  <2>2. ChainsServedAsWritten
    BY <2>1, ReadsAreOfChains
  <2>3. ASSUME NEW d, NEW i \in GetExecution(d) PROVE TransitionAsWritten(table.execution[i])
    <3>1. i \in Ids("execution") /\ ExecutionHolds(i)
      BY <2>3 DEF GetExecution, ExecutionOf, Found
    <3> QED BY <2>1, <3>1, ReceiptsServedAsWritten
  <2>4. ASSUME NEW d, NEW i \in GetRestoreExecution(d)
        PROVE  TransitionAsWritten(table.restore_execution[i])
    <3>1. i \in Ids("restore_execution") /\ RestoreExecutionHolds(i)
      BY <2>4 DEF GetRestoreExecution, RestoreExecutionOf, Found
    <3> QED BY <2>1, <3>1, RestoresServedAsWritten
  <2> QED BY <2>2, <2>3, <2>4 DEF ChainsServedAsWritten, ServedAsWritten
<1> QED BY <1>1, EvidenceIsLinked, PTL

-----------------------------------------------------------------------------
(* The effects follow an approval *)

StopsFollowApproval ==
    \A i \in DOMAIN written.transition :
        written.transition[i].target = "active" => ApprovedStop(written.transition[i])

LEMMA StopsAreApproved ==
    ASSUME Stored, Made, NEW i \in DOMAIN written.transition,
           written.transition[i].target = "active"
    PROVE  ApprovedStop(written.transition[i])
<1>1. PICK t : t = written.transition[i]
  OBVIOUS
<1>2. PICK n \in DOMAIN written.decision : written.decision[n].outcome = "approved" /\ StopOf(t, n)
  <2>1. ASSUME NEW n, RestoreOf(t, n) PROVE FALSE
    BY <1>1, <2>1 DEF RestoreOf
  <2> QED BY <1>1, <2>1 DEF Made, MadeTransition
<1>3. PICK d, q : d = written.decision[n] /\ q = written.request[d.request]
  OBVIOUS
<1>4. d.request \in DOMAIN written.request /\ d.by # q.by
  BY <1>3 DEF Made, MadeDecision
<1>5. q.recommendation \in DOMAIN Promotions /\ q.subject = Promotions[q.recommendation]
  BY <1>3, <1>4 DEF Made, MadeRequest
<1>6. Promotions[q.recommendation] = [agent |-> q.subject.agent, incident |-> q.subject.incident]
  <2>1. Promotions[q.recommendation] \in [agent : STRING, incident : STRING]
    <3>1. PICK S : S = [agent : STRING, incident : STRING]
      OBVIOUS
    <3>2. PICK seq \in Seq(S) : seq = Promotions
      BY <3>1, PromotionsAssumption
    <3>3. q.recommendation \in 1..Len(seq)
      BY <1>5, <3>2
    <3>4. seq[q.recommendation] \in S
      BY <3>3, ElementOfSeq
    <3> QED BY <3>1, <3>2, <3>4
  <2>2. PICK p \in [agent : STRING, incident : STRING] : p = Promotions[q.recommendation]
    BY <2>1
  <2>3. p = [agent |-> p.agent, incident |-> p.incident]
    OBVIOUS
  <2> QED BY <1>5, <2>2, <2>3
<1>7. /\ t.reference = Reference("actuation", d)
      /\ t.agent = q.subject.agent /\ t.incident = q.subject.incident
  BY <1>2, <1>3 DEF StopOf
<1>8. ApprovedStop(t)
  BY <1>2, <1>3, <1>4, <1>6, <1>7 DEF ApprovedStop
<1> QED BY <1>1, <1>8

LEMMA RestoresAreApproved ==
    ASSUME Stored, Made, ReceiptsStand, NEW i \in DOMAIN written.transition,
           written.transition[i].target # "active"
    PROVE  ApprovedRestore(written.transition[i])
<1>1. PICK t : t = written.transition[i]
  OBVIOUS
<1>2. PICK n \in DOMAIN written.restore_decision :
          written.restore_decision[n].outcome = "approved" /\ RestoreOf(t, n)
  <2>1. ASSUME NEW n, StopOf(t, n) PROVE FALSE
    BY <1>1, <2>1 DEF StopOf
  <2> QED BY <1>1, <2>1 DEF Made, MadeTransition
<1>3. PICK d, q : d = written.restore_decision[n] /\ q = written.restore_request[d.request]
  OBVIOUS
<1>4. d.request \in DOMAIN written.restore_request /\ d.by # q.by
  BY <1>3 DEF Made, MadeRestoreDecision
<1>5. PICK x : x = written.execution[q.source]
  OBVIOUS
<1>6. q.source \in DOMAIN written.execution /\ q.subject = x.subject
  BY <1>3, <1>4, <1>5 DEF Made, MadeRestoreRequest
<1>7. /\ x.decision \in DOMAIN written.decision /\ x.transition \in DOMAIN written.transition
      /\ x.subject = written.request[written.decision[x.decision].request].subject
  BY <1>5, <1>6 DEF Made, MadeExecution
<1>8. PICK stop : stop = written.transition[x.transition]
  OBVIOUS
<1>9. StopOf(stop, x.decision)
  BY <1>5, <1>6, <1>8 DEF ReceiptsStand
<1>10. stop.target = "active" /\ stop.agent = x.subject.agent /\ stop.incident = x.subject.incident
  BY <1>7, <1>9 DEF StopOf
<1>11. stop.id = x.transition
  <2>1. "transition" \in Kinds
    BY DEF Kinds
  <2> QED BY <1>7, <1>8, <2>1, SameRows DEF IsRow
<1>12. /\ t.reference = Reference("restore", d)
       /\ t.agent = q.subject.agent /\ t.incident = q.subject.incident
       /\ t.id > x.transition
  BY <1>2, <1>3, <1>5 DEF RestoreOf
<1>13. x.transition < t.id
  <2>1. PICK rows : rows = written.transition
    OBVIOUS
  <2>2. \E S : written["transition"] \in Seq(S)
    BY DEF Stored, Shaped, IsTable, Kinds
  <2>3. PICK S : rows \in Seq(S)
    BY <2>1, <2>2
  <2>4. PICK seq \in Seq(S) : seq = rows
    BY <2>3
  <2>5. DOMAIN rows \subseteq Nat
    BY <2>4
  <2>6. t.id = i
    <3>1. "transition" \in Kinds
      BY DEF Kinds
    <3> QED BY <1>1, <3>1, SameRows DEF IsRow
  <2>7. PICK a \in Nat, b \in Nat : a = x.transition /\ b = t.id
    BY <1>7, <2>1, <2>5, <2>6
  <2>8. b > a
    BY <1>12, <2>7
  <2>9. a < b
    BY ONLY <2>8, a \in Nat, b \in Nat
  <2> QED BY <2>7, <2>9
<1>14. ApprovedRestore(t)
  <2>1. stop.id < t.id
    BY <1>11, <1>13
  <2>2. stop.agent = t.agent /\ stop.incident = t.incident
    BY <1>6, <1>10, <1>12
  <2> QED BY <1>2, <1>3, <1>4, <1>5, <1>8, <1>10, <1>12, <2>1, <2>2 DEF ApprovedRestore
<1> QED BY <1>1, <1>14

\* A stop is written only where somebody other than its requester has approved
\* it for the agent and the incident of a recommendation, however many columns
\* of the stored rows have changed.
THEOREM StopsFollowApprovalHolds == Spec => []StopsFollowApproval
<1>1. EvidenceInv => StopsFollowApproval
  BY StopsAreApproved DEF EvidenceInv, StopsFollowApproval
<1> QED BY <1>1, EvidenceIsLinked, PTL

\* Where one column of one stored row changes, a restore too is written only
\* where somebody other than its requester has approved it, after the stop of
\* the same agent for the same incident.
THEOREM EffectsFollowApprovalHolds ==
    ASSUME MaxDamages \in {0, 1}
    PROVE  Spec => []EffectsFollowApproval
<1>1. EvidenceInv => EffectsFollowApproval
  BY StopsAreApproved, RestoresAreApproved DEF EvidenceInv, EffectsFollowApproval
<1> QED BY <1>1, EvidenceIsLinked, PTL

-----------------------------------------------------------------------------
(* The audit trail *)


Linked(hash, rows) == Front(hash) # NoHash => Front(hash) \in HashesOf(rows)

Writing(w) ==
    /\ \A e \in Visible(w) : Linked(e.hash, Visible(w))
    /\ session[w].added # NoHash => Linked(session[w].added, Visible(w))

ChainInv == TypeOK /\ LinksResolve /\ \A w \in Writers : Writing(w)

LEMMA FrontOfAppend ==
    ASSUME NEW S, NEW s \in Seq(S), NEW x \in S
    PROVE  Front(Append(s, x)) = s
<1> DEFINE t == Append(s, x)
<1>1. t \in Seq(S) /\ Len(t) = Len(s) + 1 /\ \A i \in 1..Len(s) : t[i] = s[i]
  OBVIOUS
<1> HIDE DEF t
<1>2. SubSeq(t, 1, Len(t) - 1) \in Seq(S) /\ Len(SubSeq(t, 1, Len(t) - 1)) = Len(s)
  BY <1>1
<1>3. \A i \in 1..Len(s) : SubSeq(t, 1, Len(t) - 1)[i] = s[i]
  BY <1>1
<1>4. SubSeq(t, 1, Len(t) - 1) = s
  BY <1>2, <1>3
<1> QED BY <1>4 DEF Front, t

LEMMA ChainInit == TrailInit => ChainInv
<1> SUFFICES ASSUME TrailInit PROVE ChainInv
  OBVIOUS
<1>1. \A w \in Writers : session[w].added = NoHash /\ Flushed(w) = {}
  BY DEF TrailInit, Flushed, Empty
<1>2. Rows = {}
  BY <1>1 DEF TrailInit, Rows
<1>3. Empty \in [flushed: SUBSET Event, added: Seq(Bodies)]
  BY DEF Empty, NoHash
<1>4. session \in [Writers -> [flushed: SUBSET Event, added: Seq(Bodies)]]
  BY <1>3 DEF TrailInit
<1>5. offset \in [Writers -> Nat]
  BY AheadAssumption DEF TrailInit
<1>6. TypeOK
  BY <1>2, <1>4, <1>5 DEF TrailInit, TypeOK
<1> QED BY <1>1, <1>6 DEF TrailInit, ChainInv, LinksResolve, Writing, Visible

LEMMA PreviousIsHash ==
    ASSUME TypeOK, NEW w \in Writers, NEW previous \in LatestHashes(Visible(w))
    PROVE  previous \in Seq(Bodies)
<1>1. \A e \in Visible(w) : e \in Event
  BY DEF Visible, Flushed, TypeOK
<1>2. \A e \in Event : e.hash \in Seq(Bodies)
  BY DEF Event, Hashes
<1>3. CASE Visible(w) = {}
  <2>1. previous = << >>
    BY <1>3 DEF LatestHashes, NoHash
  <2> QED BY <2>1
<1>4. CASE Visible(w) # {}
  BY <1>1, <1>2, <1>4 DEF LatestHashes, Latest, HashesOf
<1> QED BY <1>3, <1>4

LEMMA TypeStep ==
    ASSUME TypeOK, [TrailNext]_trailVars
    PROVE  TypeOK'
<1>1. ASSUME NEW w \in Writers, NEW body \in Bodies, AppendEvent(w, body) PROVE TypeOK'
  <2>1. PICK previous \in LatestHashes(Visible(w)) :
           session' = [session EXCEPT ![w] =
                [flushed |-> Flushed(w), added |-> Append(previous, body)]]
    BY <1>1 DEF AppendEvent
  <2>2. previous \in Seq(Bodies)
    BY PreviousIsHash
  <2>3. Append(previous, body) \in Seq(Bodies)
    BY <2>2
  <2>4. session' \in [Writers -> [flushed: SUBSET Event, added: Seq(Bodies)]]
    BY <2>1, <2>3 DEF TypeOK, Flushed
  <2>5. Rows' = Rows
    BY <1>1, <2>1 DEF Rows, Flushed, TypeOK, AppendEvent
  <2> QED BY <1>1, <2>4, <2>5 DEF TypeOK, AppendEvent
<1>2. ASSUME NEW w \in Writers, Flush(w) PROVE TypeOK'
  <2> DEFINE e == [hash |-> session[w].added, at |-> Stamp(w)]
  <2>1. e \in Event
    <3>1. Stamp(w) \in Nat
      BY DEF TypeOK, Stamp
    <3>2. session[w].added \in Hashes
      BY <1>2 DEF Flush, TypeOK, Hashes, NoHash
    <3> QED BY <3>1, <3>2 DEF Event
  <2>2. session' = [session EXCEPT ![w] = [flushed |-> Flushed(w) \cup {e}, added |-> NoHash]]
    BY <1>2 DEF Flush
  <2>3. e.hash \notin HashesOf(Rows)
    BY <1>2 DEF Flush, Taken
  <2> HIDE DEF e
  <2>4. session' \in [Writers -> [flushed: SUBSET Event, added: Seq(Bodies)]]
    BY <2>1, <2>2 DEF TypeOK, Flushed, NoHash
  <2>5. Rows' = Rows \cup {e}
    BY <1>2, <2>2 DEF Rows, Flushed, TypeOK, Flush
  <2>6. \A d, f \in Rows' : d.hash = f.hash => d = f
    BY <2>3, <2>5 DEF TypeOK, HashesOf
  <2> QED BY <1>2, <2>4, <2>6 DEF TypeOK, Flush
<1>3. ASSUME NEW w \in Writers, Commit(w) PROVE TypeOK'
  <2>1. session' \in [Writers -> [flushed: SUBSET Event, added: Seq(Bodies)]]
    BY <1>3 DEF Commit, TypeOK, Empty, NoHash
  <2>2. Rows' \subseteq Rows
    BY <1>3 DEF Commit, Rows, Flushed, TypeOK, Empty
  <2>3. events' \subseteq Event
    BY <1>3 DEF Commit, Flushed, TypeOK
  <2> QED BY <1>3, <2>1, <2>2, <2>3 DEF TypeOK, Commit
<1>4. ASSUME NEW w \in Writers, RollBack(w) PROVE TypeOK'
  <2>1. session' \in [Writers -> [flushed: SUBSET Event, added: Seq(Bodies)]]
    BY <1>4 DEF RollBack, TypeOK, Empty, NoHash
  <2>2. Rows' \subseteq Rows
    BY <1>4 DEF RollBack, Rows, Flushed, TypeOK, Empty
  <2> QED BY <1>4, <2>1, <2>2 DEF TypeOK, RollBack
<1>5. CASE UNCHANGED trailVars
  BY <1>5 DEF trailVars, TypeOK, Rows, Flushed
<1> QED BY <1>1, <1>2, <1>3, <1>4, <1>5 DEF TrailNext

\* A view that gains rows, each linked within it, keeps every link.
LEMMA LinkedGrows ==
    ASSUME NEW hash, NEW rows, NEW more, rows \subseteq more, Linked(hash, rows)
    PROVE  Linked(hash, more)
  BY DEF Linked, HashesOf

LEMMA ChainStep ==
    ASSUME ChainInv, [TrailNext]_trailVars
    PROVE  ChainInv'
<1>1. TypeOK'
  BY TypeStep DEF ChainInv
<1>2. ASSUME NEW w \in Writers, NEW body \in Bodies, AppendEvent(w, body)
      PROVE LinksResolve' /\ \A v \in Writers : Writing(v)'
  <2>1. PICK previous \in LatestHashes(Visible(w)) :
           session' = [session EXCEPT ![w] =
                [flushed |-> Flushed(w), added |-> Append(previous, body)]]
    BY <1>2 DEF AppendEvent
  <2>2. previous \in Seq(Bodies)
    BY PreviousIsHash DEF ChainInv
  <2>3. previous # NoHash => previous \in HashesOf(Visible(w))
    BY DEF LatestHashes, Latest, HashesOf
  <2>4. \A v \in Writers : Visible(v)' = Visible(v)
    BY <1>2, <2>1 DEF Visible, Flushed, AppendEvent, ChainInv, TypeOK
  <2>5. Linked(session'[w].added, Visible(w))
    BY <2>1, <2>2, <2>3, FrontOfAppend DEF Linked, ChainInv, TypeOK
  <2>6. \A v \in Writers : v # w => session'[v] = session[v]
    BY <2>1 DEF ChainInv, TypeOK
  <2>7. \A v \in Writers : Writing(v)'
    BY <2>4, <2>5, <2>6 DEF ChainInv, Writing, Linked, HashesOf
  <2> QED BY <1>2, <2>7 DEF AppendEvent, ChainInv, LinksResolve, Previous, HashesOf
<1>3. ASSUME NEW w \in Writers, Flush(w)
      PROVE LinksResolve' /\ \A v \in Writers : Writing(v)'
  <2> DEFINE e == [hash |-> session[w].added, at |-> Stamp(w)]
  <2>1. session' = [session EXCEPT ![w] = [flushed |-> Flushed(w) \cup {e}, added |-> NoHash]]
    BY <1>3 DEF Flush
  <2>2. e.hash = session[w].added /\ e.hash # NoHash
    BY <1>3 DEF Flush
  <2> HIDE DEF e
  <2>3. Visible(w)' = Visible(w) \cup {e} /\ session'[w].added = NoHash
    BY <1>3, <2>1 DEF Visible, Flushed, Flush, ChainInv, TypeOK
  <2>4. \A v \in Writers : v # w => Visible(v)' = Visible(v) /\ session'[v] = session[v]
    BY <1>3, <2>1 DEF Visible, Flushed, Flush, ChainInv, TypeOK
  <2>5. Writing(w)'
    <3>1. \A f \in Visible(w) \cup {e} : Linked(f.hash, Visible(w))
      BY <2>2 DEF ChainInv, Writing
    <3> QED BY <2>3, <3>1, LinkedGrows DEF Writing, Linked, HashesOf
  <2>6. \A v \in Writers : v # w => Writing(v)'
    BY <2>4 DEF ChainInv, Writing, Linked, HashesOf
  <2> QED BY <1>3, <2>5, <2>6 DEF Flush, ChainInv, LinksResolve, Previous, HashesOf
<1>4. ASSUME NEW w \in Writers, Commit(w)
      PROVE LinksResolve' /\ \A v \in Writers : Writing(v)'
  <2>1. events' = Visible(w)
    BY <1>4 DEF Commit, Visible
  <2>2. \A f \in events' : Linked(f.hash, events')
    BY <2>1 DEF ChainInv, Writing, Linked, HashesOf
  <2>3. Visible(w)' = events' /\ session'[w].added = NoHash
    BY <1>4, <2>1 DEF Commit, Visible, Flushed, Empty, ChainInv, TypeOK
  <2>4. \A v \in Writers : v # w =>
           Visible(v)' = Visible(v) \cup events' /\ session'[v] = session[v]
    BY <1>4 DEF Commit, Visible, Flushed, ChainInv, TypeOK
  <2>5. \A v \in Writers : Writing(v)'
    <3>1. Writing(w)'
      BY <2>2, <2>3 DEF Writing, Linked, HashesOf
    <3>2. ASSUME NEW v \in Writers, v # w PROVE Writing(v)'
      <4>1. \A f \in Visible(v)' : Linked(f.hash, Visible(v) \cup events')
        BY <2>2, <2>4, <3>2 DEF ChainInv, Writing, Linked, HashesOf
      <4>2. session[v].added # NoHash => Linked(session[v].added, Visible(v) \cup events')
        BY LinkedGrows DEF ChainInv, Writing
      <4> QED BY <2>4, <3>2, <4>1, <4>2 DEF Writing, Linked, HashesOf
    <3> QED BY <3>1, <3>2
  <2> QED BY <2>2, <2>5 DEF LinksResolve, Linked, Previous, HashesOf
<1>5. ASSUME NEW w \in Writers, RollBack(w)
      PROVE LinksResolve' /\ \A v \in Writers : Writing(v)'
  <2>1. Visible(w)' = events /\ session'[w].added = NoHash
    BY <1>5 DEF RollBack, Visible, Flushed, Empty, ChainInv, TypeOK
  <2>2. \A v \in Writers : v # w => Visible(v)' = Visible(v) /\ session'[v] = session[v]
    BY <1>5 DEF RollBack, Visible, Flushed, ChainInv, TypeOK
  <2>3. Writing(w)'
    BY <2>1 DEF Writing, Linked, ChainInv, LinksResolve, Previous, HashesOf
  <2>4. \A v \in Writers : v # w => Writing(v)'
    BY <2>2 DEF ChainInv, Writing, Linked, HashesOf
  <2> QED BY <1>5, <2>3, <2>4 DEF RollBack, ChainInv, LinksResolve, Previous, HashesOf
<1>6. CASE UNCHANGED trailVars
  BY <1>6 DEF trailVars, ChainInv, LinksResolve, Previous, HashesOf, Writing, Visible, Flushed,
     Linked, TypeOK, Rows
<1> QED BY <1>1, <1>2, <1>3, <1>4, <1>5, <1>6 DEF TrailNext, ChainInv

\* The type invariant: rows and transactions stay within their domains, and no two rows
\* share their hash.
THEOREM TrailTypeCorrect == TrailSpec => []TypeOK
<1>1. TrailInit => TypeOK
  BY ChainInit DEF ChainInv
<1> QED BY <1>1, TypeStep, PTL DEF TrailSpec

\* The predecessor of every recorded event is recorded, for any number of concurrent
\* transactions of append_audit_event, on processes with any clocks.
THEOREM LinksResolveHolds == TrailSpec => []LinksResolve
<1>1. ChainInv => LinksResolve
  BY DEF ChainInv
<1> QED BY <1>1, ChainInit, ChainStep, PTL DEF TrailSpec

-----------------------------------------------------------------------------
\* No row is ahead of every clock, so a row is later than those it may name but for the
\* difference between the clock of its writer and that of theirs.
InOrder(e, f) ==
    Previous(e) = f.hash => \E v, w \in Writers : f.at < e.at + offset[v] - offset[w]

TimeInv ==
    /\ ChainInv
    /\ \A e \in Rows : \E w \in Writers : e.at < now + offset[w]
    /\ \A e, f \in Rows : InOrder(e, f)

LEMMA FrontIsShorter ==
    ASSUME NEW S, NEW s \in Seq(S), s # << >>
    PROVE  Front(s) # s
<1>1. Len(s) \in Nat /\ Len(s) > 0
  OBVIOUS
<1>2. Len(SubSeq(s, 1, Len(s) - 1)) = Len(s) - 1
  <2> DEFINE n == Len(s) - 1
  <2>1. n \in Nat /\ n <= Len(s)
    BY <1>1
  <2> HIDE DEF n
  <2>2. \A i \in 1..n : s[i] \in S
    BY <1>1, <2>1
  <2>3. SubSeq(s, 1, n) = [i \in 1..n |-> s[i]]
    BY <2>1
  <2>4. Len(SubSeq(s, 1, n)) = n
    BY <2>1, <2>2, <2>3
  <2> QED BY <2>4 DEF n
<1> QED BY <1>1, <1>2 DEF Front

LEMMA RowsLinked ==
    ASSUME ChainInv, NEW e \in Rows
    PROVE  Linked(e.hash, Rows)
<1>1. CASE e \in events
  BY <1>1 DEF ChainInv, LinksResolve, Linked, Previous, HashesOf, Rows
<1>2. ASSUME NEW w \in Writers, e \in Flushed(w) PROVE Linked(e.hash, Rows)
  <2>1. e \in Visible(w) /\ Visible(w) \subseteq Rows
    BY <1>2 DEF Visible, Rows
  <2> QED BY <2>1, LinkedGrows DEF ChainInv, Writing
<1> QED BY <1>1, <1>2 DEF Rows

LEMMA TimeStep ==
    ASSUME TimeInv, [TrailNext]_trailVars
    PROVE  TimeInv'
<1>1. ChainInv'
  BY ChainStep DEF TimeInv
<1>2. ASSUME Rows' \subseteq Rows, now' = now, offset' = offset PROVE TimeInv'
  BY <1>1, <1>2 DEF TimeInv, InOrder, Previous
<1>3. ASSUME NEW w \in Writers, NEW body \in Bodies, AppendEvent(w, body) PROVE TimeInv'
  <2>1. \A v \in Writers : Flushed(v)' = Flushed(v)
    BY <1>3 DEF AppendEvent, Flushed, TimeInv, ChainInv, TypeOK
  <2> QED BY <1>2, <1>3, <2>1 DEF Rows, AppendEvent
<1>4. ASSUME NEW w \in Writers, Flush(w) PROVE TimeInv'
  <2> DEFINE e == [hash |-> session[w].added, at |-> Stamp(w)]
  <2>1. e.hash = session[w].added /\ e.at = now + offset[w] /\ e.hash \notin HashesOf(Rows)
    BY <1>4 DEF Flush, Taken, Stamp
  <2>2. session' = [session EXCEPT ![w] = [flushed |-> Flushed(w) \cup {e}, added |-> NoHash]]
    BY <1>4 DEF Flush
  <2>3. e.hash \in Seq(Bodies) /\ e.hash # NoHash
    BY <1>4, <2>1 DEF Flush, TimeInv, ChainInv, TypeOK
  <2> HIDE DEF e
  <2>4. Rows' = Rows \cup {e}
    BY <1>4, <2>2 DEF Rows, Flushed, TimeInv, ChainInv, TypeOK, Flush
  <2>5. now \in Nat /\ now' = now + 1 /\ offset' = offset /\ \A v \in Writers : offset[v] \in Nat
    BY <1>4 DEF Flush, TimeInv, ChainInv, TypeOK
  <2>6. \A f \in Rows : f.at \in Nat
    BY DEF Rows, Flushed, TimeInv, ChainInv, TypeOK, Event
  <2>7. \A f \in Rows : \E v \in Writers : f.at < now' + offset[v]
    BY <2>5, <2>6 DEF TimeInv
  <2>8. e.at < now' + offset[w]
    BY <2>1, <2>5
  <2>9. \A f \in Rows : \E v, u \in Writers : f.at < e.at + offset[v] - offset[u]
    <3>1. ASSUME NEW f \in Rows, NEW v \in Writers, f.at < now + offset[v]
          PROVE  f.at < e.at + offset[v] - offset[w]
      BY <2>1, <2>5, <2>6, <3>1
    <3> QED BY <3>1 DEF TimeInv
  <2>10. \A f \in Rows : Previous(f) # e.hash
    BY <2>1, <2>3, RowsLinked DEF Linked, Previous, TimeInv
  <2>11. Previous(e) # e.hash
    BY <2>3, FrontIsShorter DEF Previous, NoHash
  <2>12. \A f, g \in Rows' : InOrder(f, g)
    <3>1. \A g \in Rows : InOrder(e, g)
      BY <2>9 DEF InOrder
    <3>2. \A f \in Rows : InOrder(f, e)
      BY <2>10 DEF InOrder
    <3>3. InOrder(e, e)
      BY <2>11 DEF InOrder
    <3> QED BY <2>4, <3>1, <3>2, <3>3 DEF TimeInv
  <2> QED BY <1>1, <2>4, <2>5, <2>7, <2>8, <2>12 DEF TimeInv, InOrder, Previous
<1>5. ASSUME NEW w \in Writers, Commit(w) PROVE TimeInv'
  <2>1. Rows' \subseteq Rows
    BY <1>5 DEF Commit, Rows, Flushed, TimeInv, ChainInv, TypeOK, Empty
  <2> QED BY <1>2, <1>5, <2>1 DEF Commit
<1>6. ASSUME NEW w \in Writers, RollBack(w) PROVE TimeInv'
  <2>1. Rows' \subseteq Rows
    BY <1>6 DEF RollBack, Rows, Flushed, TimeInv, ChainInv, TypeOK, Empty
  <2> QED BY <1>2, <1>6, <2>1 DEF RollBack
<1>7. CASE UNCHANGED trailVars
  BY <1>2, <1>7 DEF trailVars, Rows, Flushed
<1> QED BY <1>3, <1>4, <1>5, <1>6, <1>7 DEF TrailNext

\* But for the difference between two clocks, every event is recorded as later than its
\* predecessor, so that on one clock no link points forward in the trail as it is read.
THEOREM TimesFollowLinksHolds == TrailSpec => []TimesFollowLinks
<1>1. TrailInit => TimeInv
  BY ChainInit DEF TrailInit, TimeInv, Rows, Flushed, Empty
<1>2. TimeInv => TimesFollowLinks
  BY DEF TimeInv, TimesFollowLinks, InOrder, Rows
<1> QED BY <1>1, <1>2, TimeStep, PTL DEF TrailSpec

-----------------------------------------------------------------------------
(* One chain, when no two transactions overlap and all read one clock. *)

Chain(rows) == \A e \in rows : Previous(e) \in LatestHashes({f \in rows : f.at < e.at})

\* What one writer sees is a chain, and what it has added continues it.
Continues(w) ==
    /\ Chain(Visible(w))
    /\ session[w].added # NoHash => Front(session[w].added) \in LatestHashes(Visible(w))

Alone ==
    /\ Chain(events)
    /\ \A v, w \in Writers : session[v] # Empty /\ session[w] # Empty => v = w
    /\ \A w \in Writers : Continues(w)

OneInv == TimeInv /\ (OneClock /\ ~overlapped => Alone)

LEMMA ChainGrows ==
    ASSUME NEW rows, Chain(rows), NEW e, e.at \in Int, \A f \in rows : f.at \in Int /\ f.at < e.at,
           Previous(e) \in LatestHashes(rows)
    PROVE  Chain(rows \cup {e})
<1>1. {f \in rows \cup {e} : f.at < e.at} = rows
  OBVIOUS
<1>2. ASSUME NEW g \in rows PROVE {f \in rows \cup {e} : f.at < g.at} = {f \in rows : f.at < g.at}
  OBVIOUS
<1> QED BY <1>1, <1>2 DEF Chain

LEMMA AloneStep ==
    ASSUME TimeInv, OneClock, Alone, [TrailNext]_trailVars, ~overlapped'
    PROVE  Alone'
<1> USE DEF TimeInv, ChainInv
<1>1. ASSUME NEW w \in Writers, NEW body \in Bodies, AppendEvent(w, body) PROVE Alone'
  <2>1. PICK previous \in LatestHashes(Visible(w)) :
           session' = [session EXCEPT ![w] =
                [flushed |-> Flushed(w), added |-> Append(previous, body)]]
    BY <1>1 DEF AppendEvent
  <2>2. Front(Append(previous, body)) = previous
    BY PreviousIsHash, FrontOfAppend
  <2>3. \A v \in Writers \ {w} : session[v] = Empty /\ session'[v] = session[v]
    BY <1>1, <2>1 DEF AppendEvent, TypeOK
  <2>4. events' = events /\ \A v \in Writers : Visible(v)' = Visible(v)
    BY <1>1, <2>1 DEF Visible, Flushed, AppendEvent, TypeOK
  <2>5. session'[w].added = Append(previous, body)
    BY <2>1 DEF TypeOK
  <2>6. \A v \in Writers : Continues(v)'
    <3>1. Chain(Visible(w)) /\ \A v \in Writers \ {w} : Continues(v)
      BY DEF Alone, Continues
    <3>2. Continues(w)'
      BY <2>2, <2>4, <2>5, <3>1 DEF Continues, Chain, Previous
    <3>3. ASSUME NEW v \in Writers \ {w} PROVE Continues(v)'
      BY <2>3, <2>4, <3>1 DEF Continues, Chain, Previous
    <3> QED BY <3>2, <3>3
  <2> QED BY <2>3, <2>4, <2>6 DEF Alone, Chain, Previous
<1>2. ASSUME NEW w \in Writers, Flush(w) PROVE Alone'
  <2> DEFINE e == [hash |-> session[w].added, at |-> Stamp(w)]
  <2>1. session' = [session EXCEPT ![w] = [flushed |-> Flushed(w) \cup {e}, added |-> NoHash]]
    BY <1>2 DEF Flush
  <2>2. e.hash = session[w].added /\ e.at = now + offset[w] /\ e.at \in Int
    BY DEF Stamp, TypeOK
  <2> HIDE DEF e
  <2>3. /\ Visible(w)' = Visible(w) \cup {e} /\ session'[w].added = NoHash /\ events' = events
        /\ session[w].added # NoHash
    BY <1>2, <2>1 DEF Visible, Flushed, Flush, TypeOK
  <2>4. session[w] # Empty
    BY <2>3 DEF Empty
  <2>5. \A v \in Writers \ {w} :
            Visible(v)' = Visible(v) /\ session'[v] = session[v] /\ session[v] = Empty
    BY <1>2, <2>1, <2>4 DEF Visible, Flushed, Flush, Alone, TypeOK
  <2>6. \A f \in Visible(w) : f.at \in Int /\ f.at < e.at
    <3>1. ASSUME NEW f \in Rows PROVE f.at \in Int /\ f.at < e.at
      <4>1. PICK v \in Writers : f.at < now + offset[v]
        OBVIOUS
      <4>2. offset[v] = offset[w]
        BY DEF OneClock
      <4>3. f.at \in Int
        BY DEF Rows, Flushed, TypeOK, Event
      <4> QED BY <2>2, <4>1, <4>2, <4>3
    <3> QED BY <3>1 DEF Visible, Rows
  <2>7. Chain(Visible(w) \cup {e})
    BY <2>2, <2>3, <2>6, ChainGrows DEF Alone, Continues, Previous
  <2>8. \A v \in Writers : Continues(v)'
    <3>1. Continues(w)'
      BY <2>3, <2>7 DEF Continues, Chain, Previous
    <3>2. ASSUME NEW v \in Writers \ {w} PROVE Continues(v)'
      BY <2>5 DEF Alone, Continues, Chain, Previous, Empty
    <3> QED BY <3>1, <3>2
  <2> QED BY <2>3, <2>5, <2>8 DEF Alone, Chain, Previous
<1>3. ASSUME NEW w \in Writers, Commit(w) PROVE Alone'
  <2>1. session[w] # Empty /\ events' = Visible(w) /\ session' = [session EXCEPT ![w] = Empty]
    BY <1>3 DEF Commit, Empty, Flushed, Visible
  <2>2. \A v \in Writers : session'[v] = Empty
    BY <2>1 DEF Alone, TypeOK
  <2>3. \A v \in Writers : Visible(v)' = Visible(w) /\ session'[v].added = NoHash
    BY <2>1, <2>2 DEF Visible, Flushed, Empty
  <2>4. Chain(Visible(w)) /\ Chain(events)'
    BY <2>1 DEF Alone, Continues, Chain, Previous
  <2> QED BY <2>2, <2>3, <2>4 DEF Alone, Continues, Chain, Previous
<1>4. ASSUME NEW w \in Writers, RollBack(w) PROVE Alone'
  <2>1. session[w] # Empty /\ events' = events /\ session' = [session EXCEPT ![w] = Empty]
    BY <1>4 DEF RollBack
  <2>2. \A v \in Writers : session'[v] = Empty
    BY <2>1 DEF Alone, TypeOK
  <2>3. \A v \in Writers : Visible(v)' = events /\ session'[v].added = NoHash
    BY <2>1, <2>2 DEF Visible, Flushed, Empty
  <2> QED BY <2>1, <2>2, <2>3 DEF Alone, Continues, Chain, Previous
<1>5. CASE UNCHANGED trailVars
  BY <1>5 DEF trailVars, Alone, Continues, Chain, Previous, Visible, Flushed
<1> QED BY <1>1, <1>2, <1>3, <1>4, <1>5 DEF TrailNext

LEMMA OneStep ==
    ASSUME OneInv, [TrailNext]_trailVars
    PROVE  OneInv'
<1>1. TimeInv'
  BY TimeStep DEF OneInv
<1>2. offset' = offset /\ (overlapped => overlapped')
  <2>1. offset' = offset
    BY DEF TrailNext, trailVars, AppendEvent, Flush, Commit, RollBack
  <2>2. overlapped \in BOOLEAN
    BY DEF OneInv, TimeInv, ChainInv, TypeOK
  <2>3. overlapped => overlapped'
    <3>1. CASE \E w \in Writers, body \in Bodies : AppendEvent(w, body)
      BY <3>1 DEF AppendEvent
    <3>2. CASE overlapped' = overlapped
      BY <3>2
    <3> QED BY <3>1, <3>2 DEF TrailNext, trailVars, Flush, Commit, RollBack
  <2> QED BY <2>1, <2>3
<1>3. OneClock' => OneClock
  BY <1>2 DEF OneClock
<1> QED BY <1>1, <1>2, <1>3, AloneStep DEF OneInv

LEMMA OneInit == TrailInit => OneInv
<1> SUFFICES ASSUME TrailInit PROVE OneInv
  OBVIOUS
<1>1. TimeInv
  BY ChainInit DEF TrailInit, TimeInv, Rows, Flushed, Empty
<1>2. \A w \in Writers : session[w] = Empty /\ Visible(w) = {} /\ session[w].added = NoHash
  BY DEF TrailInit, Visible, Flushed, Empty
<1>3. Alone
  BY <1>2 DEF TrailInit, Alone, Continues, Chain
<1> QED BY <1>1, <1>3 DEF OneInv

\* While transactions come one after the other and stamp by one clock, each event is
\* linked to the one recorded just before it, roll-backs included.
THEOREM OneChainHolds == TrailSpec => []OneChain
<1>1. OneInv => OneChain
  BY DEF OneInv, Alone, Chain, OneChain
<1> QED BY OneInit, OneStep, <1>1, PTL DEF TrailSpec
=============================================================================
