------------------------------ MODULE DataBase ------------------------------
(***************************************************************************)
(* DataBase (database.h) with the threads of the controller that write to  *)
(* it: the rows of Temperatures and States, and queryDB, which a worker of *)
(* the web server executes step by step while rows are inserted.  The date *)
(* and the time of a row are those of the clock, which users can set, and  *)
(* so is the length of the period that a row of States closes.             *)
(***************************************************************************)
EXTENDS Integers, Sequences, FiniteSets

CONSTANTS
  Workers,    \* the web server's threads
  None,
  DayLength,  \* ticks of the clock in a day
  OldRows,    \* what earlier runs of the program may have left in the tables
  Budgets     \* bounds: how often each kind of event may happen

(* A row's DATE() and TIME() are one moment of the clock here. *)
Row == [table: {"Temperatures", "States"}, on: BOOLEAN, at: Int, duration: Int, real: Int]
Events == {"requests", "readings", "switches", "saves", "ticks", "corrections", "deaths"}

ASSUME DayAssumption == DayLength \in Nat \ {0}
(* Whatever periods the old rows tell, they are taken at their word.       *)
ASSUME OldRowsAssumption ==
  /\ OldRows \subseteq Seq(Row)
  /\ \A old \in OldRows : \A k \in 1..Len(old) : old[k].real = old[k].duration
ASSUME BudgetsAssumption == Budgets \subseteq [Events -> Nat]

VARIABLES
  alive,       \* is the process running?
  clock,       \* what high_resolution_clock and DATE() are taken from
  rows,        \* both tables, in the order of insertion
  on,          \* is the relay switched on?
  ctl,         \* the controller's loop: "loop", "insert" or "restart"
  stateTime,   \* of run()
  query,       \* the statement each worker executes, or None
  left,        \* how much of the bounds is left
  uptime, offset, \* history: ticks, and how far the clock was set off from them
  began, period,  \* history: when the current period began, length of the last
  slack        \* history: ticks in an INSERT, and corrections

timeVars == <<clock, uptime, offset>>
writerVars == <<rows, on, ctl, stateTime, began, period>>

Spend(event) ==
  /\ left[event] > 0
  /\ left' = [left EXCEPT ![event] = @ - 1]

Day(t) == t \div DayLength
DayStart(t) == DayLength * Day(t)

-----------------------------------------------------------------------------
(* The writers.  An INSERT that fails is logged, and the row is lost.      *)

Insert(row) == rows' = Append(rows, row) \/ UNCHANGED rows

(* The ten-minute thread: insertTemp(getParameters().temp) *)
InsertTemp ==
  /\ alive /\ Spend("readings")
  /\ Insert([table |-> "Temperatures", on |-> FALSE, at |-> clock, duration |-> 0, real |-> 0])
  /\ UNCHANGED <<alive, timeVars, on, ctl, stateTime, began, period, query, slack>>

(* The loop switches the relay, inserts the period that has ended, and     *)
(* then starts to measure the next one.                                    *)
SwitchRelay ==
  /\ alive /\ ctl = "loop" /\ Spend("switches")
  /\ on' = ~on
  /\ period' = uptime - began /\ began' = uptime
  /\ ctl' = "insert"
  /\ UNCHANGED <<alive, timeVars, rows, stateTime, query, slack>>

InsertState ==
  /\ alive /\ ctl = "insert"
  /\ Insert([table |-> "States", on |-> ~on, at |-> clock,
             duration |-> clock - stateTime, real |-> period])
  /\ ctl' = "restart"
  /\ UNCHANGED <<alive, timeVars, on, stateTime, began, period, query, left, slack>>

NextStateTime_Kept == stateTime
NextStateTime == clock

RestartPeriod ==
  /\ alive /\ ctl = "restart"
  /\ stateTime' = NextStateTime
  /\ ctl' = "loop"
  /\ period' = 0
  /\ UNCHANGED <<alive, timeVars, rows, on, began, query, left, slack>>

Tick ==
  /\ Spend("ticks")
  /\ uptime' = uptime + 1 /\ clock' = clock + 1
  /\ slack' = IF ctl = "loop" THEN slack ELSE slack + 1
  /\ UNCHANGED <<alive, offset, writerVars, query>>

(* Somebody sets the clock, back or forth. *)
Correct ==
  /\ Spend("corrections")
  /\ \E by \in {-1, 1} : clock' = clock + by /\ offset' = offset + by
  /\ slack' = slack + 1
  /\ UNCHANGED <<alive, uptime, writerVars, query>>

-----------------------------------------------------------------------------
(* The queries: a WHERE clause, and queryDB.  A date is the moment that    *)
(* julianday() makes of a text; "now" is the statement's first step, and a *)
(* text of which it makes none is NULL, to which nothing compares.         *)

NoDate == [kind |-> "", at |-> 0]
Date(t) == [kind |-> "date", at |-> t]
Past24h == [from |-> [kind |-> "24h", at |-> 0], to |-> NoDate]
OfToday == [from |-> [kind |-> "today", at |-> 0], to |-> NoDate]
Between(start, end) == [from |-> start, to |-> end]
First == [kind |-> "1970-01-01", at |-> 0]
Now == [kind |-> "now", at |-> 0]

(* julianday(date) of a row is the beginning of its day. *)
NotBefore(at, d, now) ==
  \/ d.kind = "1970-01-01"
  \/ d.kind = "date" /\ d.at <= DayStart(at)
  \/ d.kind = "now" /\ now <= DayStart(at)

NotAfter(at, d, now) ==
  \/ d.kind = "date" /\ DayStart(at) <= d.at
  \/ d.kind = "now" /\ DayStart(at) <= now

InRange(at, where, now) ==
  CASE where.from.kind = "24h" -> Day(now) - 1 < Day(at)
    [] where.from.kind = "today" -> Day(at) = Day(now)
    [] OTHER -> NotBefore(at, where.from, now) /\ NotAfter(at, where.to, now)

(* The rows that the statement's WHERE clause selects. *)
Selected(q) ==
  {k \in 1..Len(rows) :
     /\ rows[k].table = q.table
     /\ q.table = "States" => rows[k].on = q.on
     /\ InRange(rows[k].at, q.where, q.now)}

(* sqlite3_prepare_v2; "data" holds, for each entry of the answer, the     *)
(* rows it comes from: one, or all for an average.                         *)
Prepare(w, q) ==
  \E status \in {"0", "error"} :
    query' = [query EXCEPT ![w] =
                [q |-> [table |-> q.table, on |-> q.on, where |-> q.where,
                        average |-> q.average, now |-> clock],
                 known |-> Len(rows), done |-> status # "0", status |-> status,
                 data |-> <<>>, cursor |-> 0]]

Executing(w) == query[w] # None /\ ~query[w].done

(* Rows that were there when the statement was prepared; SQLite leaves it  *)
(* open whether a statement sees later ones of its own connection.         *)
Ahead(w) == {k \in Selected(query[w].q) : query[w].cursor < k}
Unread(w) == {k \in Ahead(w) : k <= query[w].known}

StepRow(w) ==
  /\ Executing(w) /\ ~query[w].q.average
  /\ \E k \in Ahead(w) :
       /\ \A j \in Unread(w) : k <= j
       /\ query' = [query EXCEPT ![w].data = Append(@, {k}), ![w].cursor = k]

(* AVG() of no rows is NULL, which adds no entry. *)
StepAverage(w) ==
  /\ Executing(w) /\ query[w].q.average
  /\ query[w].data = <<>> /\ Ahead(w) # {}
  /\ query' = [query EXCEPT ![w].data = <<Ahead(w)>>, ![w].cursor = Len(rows)]

StepDone(w) ==
  /\ Executing(w)
  /\ Unread(w) = {}
  /\ query' = [query EXCEPT ![w].done = TRUE]

(* SQLITE_BUSY, SQLITE_ERROR, SQLITE_MISUSE and the rest. *)
FailedStatus_Forgotten == "0"
FailedStatus == "error"

StepFails(w) ==
  /\ Executing(w)
  /\ query' = [query EXCEPT ![w].done = TRUE, ![w].status = FailedStatus]

queryDBStep(w) == StepRow(w) \/ StepAverage(w) \/ StepDone(w)

-----------------------------------------------------------------------------
(* A run of the program begins and ends; the rows stay. *)
BeginRun ==
  /\ on' = FALSE /\ ctl' = "loop" /\ stateTime' = clock
  /\ began' = uptime /\ period' = 0
EndRun == query' = [w \in Workers |-> None]

DataBaseInit ==
  /\ alive = TRUE /\ clock = DayLength /\ uptime = 0 /\ offset = 0
  /\ rows \in OldRows
  /\ on = FALSE /\ ctl = "loop" /\ stateTime = clock /\ began = 0 /\ period = 0 /\ slack = 0
  /\ query = [w \in Workers |-> None]
  /\ left \in Budgets

DataBaseTypeOK ==
  /\ alive \in BOOLEAN /\ clock \in Int /\ uptime \in Nat /\ offset \in Int
  /\ rows \in Seq(Row)
  /\ on \in BOOLEAN /\ ctl \in {"loop", "insert", "restart"}
  /\ stateTime \in Int /\ began \in Nat /\ period \in Nat /\ slack \in Nat
  /\ \A w \in Workers : query[w] # None =>
       /\ query[w].done \in BOOLEAN /\ query[w].status \in {"0", "error"}
       /\ query[w].known \in 0..Len(rows) /\ query[w].cursor \in 0..Len(rows)
       /\ Len(query[w].data) <= Len(rows)
  /\ left \in [Events -> Nat]

(* Each row of States tells how long the period it closes really lasted,   *)
(* but for the time that INSERTs took and the corrections of the clock     *)
(* (controller.cpp:160-177): nothing is counted in two periods.            *)
DurationsAreReal ==
  \A k \in 1..Len(rows) :
    LET error == rows[k].duration - rows[k].real
    IN  -slack <= error /\ error <= slack
=============================================================================
