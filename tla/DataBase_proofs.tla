--------------------------- MODULE DataBase_proofs ---------------------------
(***************************************************************************)
(* The database, for rows, statements and clocks of any kind: the periods  *)
(* that are measured, and what a statement has read while rows arrive.     *)
(* Site_proofs uses the lemmas for the specification of the whole server.  *)
(***************************************************************************)
EXTENDS DataBase, TLAPS

-----------------------------------------------------------------------------
(* The periods. *)

PeriodTypes ==
  /\ clock \in Int /\ stateTime \in Int
  /\ uptime \in Nat /\ began \in Nat /\ began <= uptime
  /\ period \in Nat /\ slack \in Nat
  /\ ctl \in {"loop", "insert", "restart"} /\ on \in BOOLEAN
  /\ rows \in Seq(Row)

(* What run() would now take for the length of the period, and what is. *)
WithinSlack(measured, real) ==
  /\ -slack <= measured - real
  /\ measured - real <= slack

MeasureInv ==
  /\ ctl = "loop" => WithinSlack(clock - stateTime, uptime - began)
  /\ ctl = "insert" => WithinSlack(clock - stateTime, period)
  /\ ctl # "loop" => 0 <= uptime - began /\ uptime - began <= slack

PeriodsInv == PeriodTypes /\ MeasureInv /\ DurationsAreReal

LEMMA RowAdded ==
  ASSUME PeriodTypes, DurationsAreReal, NEW row \in Row, Insert(row),
         WithinSlack(row.duration, row.real), slack' = slack
  PROVE  rows' \in Seq(Row) /\ DurationsAreReal'
<1>1. CASE UNCHANGED rows
  BY <1>1 DEF PeriodTypes, DurationsAreReal
<1>2. CASE rows' = Append(rows, row)
  <2>1. rows' \in Seq(Row) /\ Len(rows') = Len(rows) + 1
    BY <1>2 DEF PeriodTypes
  <2>2. \A k \in 1..Len(rows) : rows'[k] = rows[k]
    BY <1>2 DEF PeriodTypes
  <2>3. rows'[Len(rows) + 1] = row
    BY <1>2 DEF PeriodTypes
  <2>4. ASSUME NEW k \in 1..Len(rows')
        PROVE  -slack <= rows'[k].duration - rows'[k].real /\ rows'[k].duration - rows'[k].real <= slack
    <3>1. CASE k \in 1..Len(rows)
      BY <3>1, <2>2 DEF DurationsAreReal
    <3>2. CASE k = Len(rows) + 1
      BY <3>2, <2>3 DEF WithinSlack
    <3> QED
      BY <2>1, <2>4, <3>1, <3>2 DEF PeriodTypes
  <2> QED
    BY <2>1, <2>4 DEF DurationsAreReal
<1> QED
  BY <1>1, <1>2 DEF Insert

LEMMA PeriodsInit ==
  ASSUME DataBaseInit
  PROVE  PeriodsInv
<1> DEFINE fromRow(k) == rows[k].real = rows[k].duration
<1>0. rows \in Seq(Row) /\ \A k \in 1..Len(rows) : fromRow(k)
  BY OldRowsAssumption DEF DataBaseInit
<1>1. PeriodTypes
  <2>1. on \in BOOLEAN
    BY DEF DataBaseInit
  <2>2. clock \in Int /\ stateTime \in Int /\ uptime = 0 /\ began = 0 /\ period = 0 /\ slack = 0
        /\ ctl = "loop"
    BY DayAssumption DEF DataBaseInit
  <2> QED
    BY <1>0, <2>1, <2>2 DEF PeriodTypes
<1>2. MeasureInv
  BY <1>1 DEF DataBaseInit, MeasureInv, WithinSlack, PeriodTypes
<1>3. DurationsAreReal
  <2>1. ASSUME NEW k \in 1..Len(rows)
        PROVE  rows[k].real = rows[k].duration /\ rows[k].duration \in Int
    <3>1. rows[k] \in Row
      BY <1>0
    <3> QED
      BY <1>0, <3>1 DEF Row
  <2> QED
    BY <2>1 DEF DataBaseInit, DurationsAreReal
<1> QED
  BY <1>1, <1>2, <1>3 DEF PeriodsInv

LEMMA PeriodsUnchanged ==
  ASSUME PeriodsInv, UNCHANGED <<clock, uptime, writerVars, slack>>
  PROVE  PeriodsInv'
BY DEF PeriodsInv, PeriodTypes, MeasureInv, WithinSlack, DurationsAreReal, writerVars

LEMMA WriterKeepsPeriods ==
  ASSUME PeriodsInv,
         InsertTemp \/ SwitchRelay \/ InsertState \/ RestartPeriod \/ Tick \/ Correct
  PROVE  PeriodsInv'
<1> USE DEF PeriodsInv
<1>1. CASE InsertTemp
  <2> DEFINE row == [table |-> "Temperatures", on |-> FALSE, at |-> clock,
                     duration |-> 0, real |-> 0]
  <2>1. row \in Row /\ WithinSlack(row.duration, row.real)
    BY DEF Row, WithinSlack, PeriodTypes
  <2>2. Insert(row) /\ UNCHANGED <<clock, uptime, on, ctl, stateTime, began, period, slack>>
    BY <1>1 DEF InsertTemp, timeVars
  <2>3. rows' \in Seq(Row) /\ DurationsAreReal'
    BY <2>1, <2>2, RowAdded
  <2>4. PeriodTypes' /\ MeasureInv'
    BY <2>2, <2>3 DEF PeriodTypes, MeasureInv, WithinSlack
  <2> QED
    BY <2>3, <2>4
<1>2. CASE SwitchRelay
  <2>1. PeriodTypes'
    BY <1>2 DEF SwitchRelay, PeriodTypes, timeVars
  <2>2. MeasureInv'
    BY <1>2 DEF SwitchRelay, PeriodTypes, MeasureInv, WithinSlack, timeVars
  <2>3. DurationsAreReal'
    BY <1>2 DEF SwitchRelay, DurationsAreReal
  <2> QED
    BY <2>1, <2>2, <2>3
<1>3. CASE InsertState
  <2> DEFINE row == [table |-> "States", on |-> ~on, at |-> clock,
                     duration |-> clock - stateTime, real |-> period]
  <2>1. row \in Row
    BY DEF Row, PeriodTypes
  <2>2. WithinSlack(row.duration, row.real)
    BY <1>3 DEF InsertState, MeasureInv
  <2>3. Insert(row) /\ ctl = "insert" /\ ctl' = "restart"
        /\ UNCHANGED <<clock, uptime, on, stateTime, began, period, slack>>
    BY <1>3 DEF InsertState, timeVars
  <2>4. rows' \in Seq(Row) /\ DurationsAreReal'
    BY <2>1, <2>2, <2>3, RowAdded
  <2>5. PeriodTypes' /\ MeasureInv'
    BY <2>3, <2>4 DEF PeriodTypes, MeasureInv, WithinSlack
  <2> QED
    BY <2>4, <2>5
<1>4. CASE RestartPeriod
  <2>1. PeriodTypes'
    BY <1>4 DEF RestartPeriod, NextStateTime, PeriodTypes, timeVars
  <2>2. MeasureInv'
    BY <1>4 DEF RestartPeriod, NextStateTime, PeriodTypes, MeasureInv, WithinSlack, timeVars
  <2>3. DurationsAreReal'
    BY <1>4 DEF RestartPeriod, DurationsAreReal
  <2> QED
    BY <2>1, <2>2, <2>3
<1>5. CASE Tick \/ Correct
  <2>1. /\ slack' \in Nat /\ slack <= slack' /\ UNCHANGED writerVars
        /\ clock' \in Int /\ uptime' \in Nat /\ uptime <= uptime'
    BY <1>5 DEF Tick, Correct, PeriodTypes
  <2>2. PeriodTypes'
    BY <2>1 DEF PeriodTypes, writerVars
  <2>3. MeasureInv'
    BY <1>5 DEF Tick, Correct, PeriodTypes, MeasureInv, WithinSlack, writerVars
  <2>4. ASSUME NEW k \in 1..Len(rows)
        PROVE  rows[k].duration \in Int /\ rows[k].real \in Int
    <3>1. rows[k] \in Row
      BY DEF PeriodTypes
    <3> QED
      BY <3>1 DEF Row
  <2>5. ASSUME NEW k \in 1..Len(rows)
        PROVE  LET error == rows[k].duration - rows[k].real
               IN  -slack' <= error /\ error <= slack'
    <3>1. slack \in Nat
      BY DEF PeriodTypes
    <3>2. -slack <= rows[k].duration - rows[k].real /\ rows[k].duration - rows[k].real <= slack
      BY DEF DurationsAreReal
    <3> QED
      BY <2>1, <2>4, <3>1, <3>2
  <2>6. DurationsAreReal'
    BY <2>1, <2>5 DEF DurationsAreReal, writerVars
  <2> QED
    BY <2>2, <2>3, <2>6
<1> QED
  BY <1>1, <1>2, <1>3, <1>4, <1>5

LEMMA RestartKeepsPeriods ==
  ASSUME PeriodsInv, BeginRun, UNCHANGED <<clock, uptime, rows, slack>>
  PROVE  PeriodsInv'
<1>1. PeriodTypes'
  <2>1. on' \in BOOLEAN
    BY DEF BeginRun
  <2> QED
    BY <2>1 DEF PeriodsInv, BeginRun, PeriodTypes
<1>2. MeasureInv'
  BY <1>1 DEF PeriodsInv, BeginRun, PeriodTypes, MeasureInv, WithinSlack
<1>3. DurationsAreReal'
  BY DEF PeriodsInv, DurationsAreReal
<1> QED
  BY <1>1, <1>2, <1>3 DEF PeriodsInv

-----------------------------------------------------------------------------
(* The statements. *)

Dates == [kind: {"", "24h", "today", "date", "other", "1970-01-01", "now"}, at: Int]
Statement == [table: {"Temperatures", "States"}, on: BOOLEAN, where: [from: Dates, to: Dates],
              average: BOOLEAN]
Begun == [table: {"Temperatures", "States"}, on: BOOLEAN, where: [from: Dates, to: Dates],
          average: BOOLEAN, now: Int]
Query == [q: Begun, known: Nat, done: BOOLEAN, status: {"0", "error"},
          data: Seq(SUBSET Nat), cursor: Nat]

(* The answer has only selected rows, all those known up to the cursor, in  *)
(* order; a statement that has ended well has passed all those known; and  *)
(* none is beyond the end of the table, or has more entries than it passed. *)
OnlySelected(x) ==
  \A i \in 1..Len(x.data) : \A a \in x.data[i] : a \in Selected(x.q) /\ a <= x.cursor
AllKnown(x) ==
  \A a \in Selected(x.q) :
    a <= x.known /\ a <= x.cursor => \E i \in 1..Len(x.data) : a \in x.data[i]
InOrder(x) ==
  \A i, j \in 1..Len(x.data) : i < j => \A a \in x.data[i], b \in x.data[j] : a < b
Finished(x) ==
  x.done /\ x.status = "0" => \A a \in Selected(x.q) : a <= x.known => a <= x.cursor

WithinRows(x) == Len(x.data) <= x.cursor /\ x.cursor <= Len(rows)

ReadSoFar(x) ==
  /\ x.known <= Len(rows)
  /\ WithinRows(x)
  /\ x.data = <<>> => x.cursor = 0
  /\ OnlySelected(x) /\ AllKnown(x) /\ InOrder(x) /\ Finished(x)

QueriesInv ==
  /\ rows \in Seq(Row)
  /\ query \in [Workers -> Query \cup {None}]
  /\ \A w \in Workers : query[w] # None => ReadSoFar(query[w])

LEMMA SelectedRows ==
  ASSUME rows \in Seq(Row), NEW q
  PROVE  Selected(q) \subseteq 1..Len(rows) /\ Selected(q) \subseteq Nat
BY DEF Selected

(* A row that arrives is beyond those that any statement has to read. *)
LEMMA RowsArrive ==
  ASSUME QueriesInv, NEW row \in Row, Insert(row), UNCHANGED query
  PROVE  QueriesInv'
<1>1. CASE UNCHANGED rows
  BY <1>1 DEF QueriesInv, ReadSoFar, WithinRows, OnlySelected, AllKnown, InOrder, Finished, Selected
<1>2. CASE rows' = Append(rows, row)
  <2>1. rows' \in Seq(Row) /\ Len(rows') = Len(rows) + 1 /\ Len(rows) \in Nat
        /\ \A k \in 1..Len(rows) : rows'[k] = rows[k]
    BY <1>2 DEF QueriesInv
  <2>2. ASSUME NEW q
        PROVE  /\ Selected(q) \subseteq Selected(q)'
               /\ \A a \in Selected(q)' : a <= Len(rows) => a \in Selected(q)
               /\ Selected(q)' \subseteq Nat
    BY <2>1 DEF Selected
  <2>3. ASSUME NEW x \in Query, ReadSoFar(x)
        PROVE  ReadSoFar(x)'
    <3>1. x.known \in Nat /\ x.known <= Len(rows)
      BY <2>3 DEF ReadSoFar, Query
    <3>2. x.known <= Len(rows') /\ WithinRows(x)'
      <4>1. x.cursor \in Nat /\ x.cursor <= Len(rows) /\ Len(x.data) <= x.cursor
        BY <2>3 DEF ReadSoFar, WithinRows, Query
      <4> QED
        BY <3>1, <2>1, <4>1 DEF WithinRows
    <3>3. OnlySelected(x)'
      BY <2>2, <2>3 DEF ReadSoFar, OnlySelected
    <3>4. \A a \in Selected(x.q)' : a <= x.known => a \in Selected(x.q)
      BY <2>1, <2>2, <3>1
    <3>5. AllKnown(x)' /\ Finished(x)' /\ InOrder(x)'
      BY <2>3, <3>4 DEF ReadSoFar, AllKnown, Finished, InOrder
    <3> QED
      BY <2>3, <3>2, <3>3, <3>5 DEF ReadSoFar
  <2> QED
    BY <2>1, <2>3 DEF QueriesInv
<1> QED
  BY <1>1, <1>2 DEF Insert

LEMMA QueriesUnchanged ==
  ASSUME QueriesInv, UNCHANGED <<rows, query>>
  PROVE  QueriesInv'
BY DEF QueriesInv, ReadSoFar, WithinRows, OnlySelected, AllKnown, InOrder, Finished, Selected

(* What one worker's statement does leaves the others' alone. *)
LEMMA OneQuery ==
  ASSUME QueriesInv, NEW w \in Workers, NEW y \in Query \cup {None}, UNCHANGED rows,
         query' = [query EXCEPT ![w] = y], y # None => ReadSoFar(y)
  PROVE  QueriesInv'
<1>1. query' \in [Workers -> Query \cup {None}] /\ rows' \in Seq(Row)
  BY DEF QueriesInv
<1>2. ASSUME NEW v \in Workers, query'[v] # None
      PROVE  ReadSoFar(query'[v])
  BY <1>2 DEF QueriesInv
<1>3. ASSUME NEW x
      PROVE  ReadSoFar(x)' <=> ReadSoFar(x)
  BY DEF ReadSoFar, WithinRows, OnlySelected, AllKnown, InOrder, Finished, Selected
<1> QED
  BY <1>1, <1>2, <1>3 DEF QueriesInv

LEMMA StatementBegins ==
  ASSUME QueriesInv, clock \in Int, NEW w \in Workers, NEW q \in Statement, Prepare(w, q),
         UNCHANGED rows
  PROVE  QueriesInv'
<1>1. PICK status \in {"0", "error"} :
        query' = [query EXCEPT ![w] =
                    [q |-> [table |-> q.table, on |-> q.on, where |-> q.where,
                            average |-> q.average, now |-> clock],
                     known |-> Len(rows), done |-> status # "0", status |-> status,
                     data |-> <<>>, cursor |-> 0]]
  BY DEF Prepare
<1> DEFINE y == [q |-> [table |-> q.table, on |-> q.on, where |-> q.where,
                        average |-> q.average, now |-> clock],
                 known |-> Len(rows), done |-> status # "0", status |-> status,
                 data |-> <<>>, cursor |-> 0]
<1>2. y.q \in Begun
  BY DEF Statement, Begun
<1>3. <<>> \in Seq(SUBSET Nat) /\ Len(rows) \in Nat /\ Len(<<>>) = 0
  BY DEF QueriesInv
<1>4. (status # "0") \in BOOLEAN
  OBVIOUS
<1>5. y \in Query
  BY <1>2, <1>3, <1>4 DEF Query
<1>6. Selected(y.q) \subseteq 1..Len(rows)
  BY SelectedRows DEF QueriesInv
<1>7. OnlySelected(y) /\ InOrder(y)
  BY <1>3 DEF OnlySelected, InOrder
<1>8. AllKnown(y) /\ Finished(y)
  <2>1. y.cursor = 0 /\ \A a \in Selected(y.q) : a \in Nat /\ a > 0
    BY <1>3, <1>6
  <2>2. AllKnown(y)
    BY <2>1 DEF AllKnown
  <2>3. ~(y.done /\ y.status = "0")
    OBVIOUS
  <2> QED
    BY <2>2, <2>3 DEF Finished
<1>9. ReadSoFar(y)
  BY <1>3, <1>7, <1>8 DEF ReadSoFar, WithinRows
<1> QED
  BY <1>1, <1>5, <1>9, OneQuery

(* One more row: the first of those that the statement has to read. *)
LEMMA RowIsRead ==
  ASSUME QueriesInv, NEW w \in Workers, StepRow(w), UNCHANGED rows
  PROVE  QueriesInv'
<1> DEFINE x == query[w]
<1>1. x \in Query /\ ReadSoFar(x) /\ x # None /\ ~x.done
  BY DEF QueriesInv, StepRow, Executing
<1>2. PICK k \in Ahead(w) : /\ \A j \in Unread(w) : k <= j
                            /\ query' = [query EXCEPT ![w].data = Append(@, {k}), ![w].cursor = k]
  BY DEF StepRow
<1> DEFINE y == [x EXCEPT !.data = Append(@, {k}), !.cursor = k]
<1>3. /\ k \in Selected(x.q) /\ k \in Nat /\ k <= Len(rows)
      /\ x.cursor < k /\ x.cursor \in Nat /\ x.known \in Nat
  BY <1>1, SelectedRows DEF Ahead, QueriesInv, Query
<1>4. query' = [query EXCEPT ![w] = y]
  BY <1>2 DEF QueriesInv
<1>5. x.data \in Seq(SUBSET Nat) /\ {k} \in SUBSET Nat
  BY <1>1, <1>3 DEF Query
<1> DEFINE n == Len(x.data)
<1>6. /\ y.data \in Seq(SUBSET Nat) /\ Len(y.data) = n + 1 /\ n \in Nat
      /\ \A i \in 1..n : y.data[i] = x.data[i]
      /\ y.data[n + 1] = {k}
      /\ y.q = x.q /\ y.known = x.known /\ y.done = x.done /\ y.status = x.status
      /\ y.cursor = k /\ y.data # <<>>
  BY <1>1, <1>5 DEF Query
<1>7. y \in Query
  BY <1>1, <1>3, <1>6 DEF Query
<1>8. \A a \in Selected(x.q) : a \in Nat
  BY SelectedRows DEF QueriesInv
<1> HIDE DEF n, y, x
<1>9. OnlySelected(y)
  <2>1. ASSUME NEW i \in 1..n, NEW a \in y.data[i]
        PROVE  a \in Selected(y.q) /\ a <= y.cursor
    BY <1>1, <1>3, <1>6, <1>8 DEF ReadSoFar, OnlySelected, n
  <2>2. ASSUME NEW a \in y.data[n + 1]
        PROVE  a \in Selected(y.q) /\ a <= y.cursor
    BY <1>3, <1>6
  <2>3. \A i \in 1..(n + 1) : i \in 1..n \/ i = n + 1
    BY <1>6
  <2> QED
    BY <1>6, <2>1, <2>2, <2>3 DEF OnlySelected
<1>10. AllKnown(y)
  <2>1. ASSUME NEW a \in Selected(x.q), a <= x.known, a <= k
        PROVE  \E i \in 1..(n + 1) : a \in y.data[i]
    <3>1. CASE a <= x.cursor
      <4>1. PICK i \in 1..n : a \in x.data[i]
        BY <1>1, <2>1, <3>1 DEF ReadSoFar, AllKnown, n
      <4>2. i \in 1..(n + 1)
        BY <1>6
      <4> QED
        BY <1>6, <4>1, <4>2
    <3>2. CASE x.cursor < a
      <4>1. a \in Unread(w)
        BY <2>1, <3>2 DEF Unread, Ahead, x
      <4>2. a = k
        BY <4>1, <1>2, <1>3, <1>8, <2>1
      <4>3. n + 1 \in 1..(n + 1)
        BY <1>6
      <4> QED
        BY <1>6, <4>2, <4>3
    <3>3. a \in Nat
      BY <2>1, <1>8
    <3>4. a <= x.cursor \/ x.cursor < a
      BY <3>3, <1>3
    <3> QED
      BY <3>1, <3>2, <3>4
  <2> QED
    BY <1>6, <2>1 DEF AllKnown
<1>11. InOrder(y)
  <2>1. ASSUME NEW i \in 1..(n + 1), NEW j \in 1..(n + 1), i < j,
               NEW a \in y.data[i], NEW b \in y.data[j]
        PROVE  a < b
    <3>1. i \in 1..n
      BY <1>6, <2>1
    <3>2. a \in x.data[i]
      BY <1>6, <3>1
    <3>3. CASE j \in 1..n
      BY <1>1, <1>6, <2>1, <3>1, <3>2, <3>3 DEF ReadSoFar, InOrder, n
    <3>4. CASE j = n + 1
      <4>1. a \in Selected(x.q) /\ a <= x.cursor
        BY <1>1, <3>1, <3>2 DEF ReadSoFar, OnlySelected, n
      <4>2. b = k
        BY <1>6, <3>4
      <4> QED
        BY <1>3, <1>8, <4>1, <4>2
    <3> QED
      BY <1>6, <3>3, <3>4
  <2> QED
    BY <1>6, <2>1 DEF InOrder
<1>12. WithinRows(y)
  <2>1. n <= x.cursor
    BY <1>1 DEF ReadSoFar, WithinRows, n
  <2> QED
    BY <1>3, <1>6, <2>1 DEF WithinRows
<1>13. ReadSoFar(y)
  BY <1>1, <1>6, <1>9, <1>10, <1>11, <1>12 DEF ReadSoFar, Finished, x
<1> QED
  BY <1>4, <1>7, <1>13, OneQuery

(* The average of all selected rows. *)
LEMMA AverageIsRead ==
  ASSUME QueriesInv, NEW w \in Workers, StepAverage(w), UNCHANGED rows
  PROVE  QueriesInv'
<1> DEFINE x == query[w]
           y == [x EXCEPT !.data = <<Ahead(w)>>, !.cursor = Len(rows)]
<1>1. x \in Query /\ ReadSoFar(x) /\ ~x.done /\ x.data = <<>>
      /\ query' = [query EXCEPT ![w].data = <<Ahead(w)>>, ![w].cursor = Len(rows)]
  BY DEF QueriesInv, StepAverage, Executing
<1>2. query' = [query EXCEPT ![w] = y]
  BY <1>1 DEF QueriesInv
<1>3. Selected(x.q) \subseteq 1..Len(rows) /\ Len(rows) \in Nat
  BY SelectedRows DEF QueriesInv
<1>4. Ahead(w) = Selected(x.q)
  BY <1>1, <1>3 DEF Ahead, ReadSoFar
<1>5. /\ y.data = <<Selected(x.q)>> /\ Len(y.data) = 1 /\ y.data[1] = Selected(x.q)
      /\ y.data \in Seq(SUBSET Nat) /\ y.data # <<>>
      /\ y.q = x.q /\ y.known = x.known /\ y.done = x.done /\ y.status = x.status
      /\ y.cursor = Len(rows)
  BY <1>1, <1>3, <1>4 DEF Query
<1>6. y \in Query
  BY <1>1, <1>3, <1>5 DEF Query
<1> HIDE DEF y, x
<1>7. OnlySelected(y) /\ AllKnown(y) /\ InOrder(y)
  BY <1>3, <1>5 DEF OnlySelected, AllKnown, InOrder
<1>8. WithinRows(y)
  <2>1. Selected(x.q) # {}
    BY <1>4 DEF StepAverage
  <2>2. 1 <= Len(rows)
    BY <1>3, <2>1
  <2> QED
    BY <1>3, <1>5, <2>2 DEF WithinRows
<1>9. ReadSoFar(y)
  BY <1>1, <1>5, <1>7, <1>8 DEF ReadSoFar, Finished, x
<1> QED
  BY <1>2, <1>6, <1>9, OneQuery

(* A statement ends, well or not. *)
LEMMA StatementEnds ==
  ASSUME QueriesInv, NEW w \in Workers, StepDone(w) \/ StepFails(w), UNCHANGED rows
  PROVE  QueriesInv'
<1> DEFINE x == query[w]
<1>1. x \in Query /\ ReadSoFar(x)
  BY DEF QueriesInv, StepDone, StepFails, Executing
<1>2. CASE StepDone(w)
  <2> DEFINE y == [x EXCEPT !.done = TRUE]
  <2>1. query' = [query EXCEPT ![w] = y]
    BY <1>2 DEF StepDone, QueriesInv
  <2>2. y \in Query
    BY <1>1 DEF Query
  <2>3. \A a \in Selected(x.q) : a <= x.known => a <= x.cursor
    <3>1. Selected(x.q) \subseteq Nat /\ x.cursor \in Nat
      BY <1>1, SelectedRows DEF QueriesInv, Query
    <3>2. ~\E a \in Selected(x.q) : x.cursor < a /\ a <= x.known
      BY <1>2 DEF StepDone, Unread, Ahead
    <3> QED
      BY <3>1, <3>2
  <2>4. y.q = x.q /\ y.known = x.known /\ y.cursor = x.cursor /\ y.data = x.data
    BY <1>1 DEF Query
  <2> HIDE DEF y, x
  <2>5. ReadSoFar(y)
    BY <1>1, <2>3, <2>4 DEF ReadSoFar, WithinRows, OnlySelected, AllKnown, InOrder, Finished
  <2> QED
    BY <2>1, <2>2, <2>5, OneQuery
<1>3. CASE StepFails(w)
  <2> DEFINE y == [x EXCEPT !.done = TRUE, !.status = "error"]
  <2>1. query' = [query EXCEPT ![w] = y]
    BY <1>3 DEF StepFails, FailedStatus, QueriesInv
  <2>2. y \in Query
    BY <1>1 DEF Query
  <2>3. y.q = x.q /\ y.known = x.known /\ y.cursor = x.cursor /\ y.data = x.data
        /\ y.status = "error"
    BY <1>1 DEF Query
  <2> HIDE DEF y, x
  <2>4. ReadSoFar(y)
    BY <1>1, <2>3 DEF ReadSoFar, WithinRows, OnlySelected, AllKnown, InOrder, Finished
  <2> QED
    BY <2>1, <2>2, <2>4, OneQuery
<1> QED
  BY <1>2, <1>3
=============================================================================
