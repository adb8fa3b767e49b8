------------------------------- MODULE MCSite -------------------------------
(* Instances of Site for TLC. *)
EXTENDS Site

CONSTANTS w1, w2, t1, t2

MCTemps == {1, 2}
MCSavedBands == {<<1, 2>>}

OldRow(table, isOn, at) ==
  [table |-> table, on |-> isOn, at |-> at, duration |-> 2, real |-> 2]
(* The clock begins at DayLength = 2: moment 1 is yesterday, and less than  *)
(* a day ago.                                                               *)
MCOldRows ==
  {<<OldRow("States", FALSE, 0), OldRow("Temperatures", FALSE, 1), OldRow("States", TRUE, 2),
     OldRow("Temperatures", FALSE, 2)>>}

(* A login and a request for the history, against its writers; a login and *)
(* any request against saves and death, and against the cleaner; the       *)
(* durations of three periods.                                             *)
Budget(requests, readings, switches, saves, ticks, corrections, deaths) ==
  [requests |-> requests, readings |-> readings, switches |-> switches, saves |-> saves,
   ticks |-> ticks, corrections |-> corrections, deaths |-> deaths]
MCBudgets ==
  {Budget(2, 1, 0, 0, 0, 1, 0), Budget(2, 0, 1, 0, 0, 0, 0), Budget(2, 0, 0, 1, 0, 0, 1),
   Budget(2, 0, 0, 0, 2, 0, 0), Budget(0, 0, 2, 0, 3, 1, 1)}

To(route, args) == [route |-> route, token |-> t1, args |-> args]
Params(min, max) == [minTemp |-> min, maxTemp |-> max]
Period(state, start, end) == [state |-> state, startDate |-> start, endDate |-> end]
Last24h == [kind |-> "24h", at |-> 0]
NotADate == [kind |-> "other", at |-> 0]

(* Dates are days, and one is a time of a day. *)
Spans == {<<NoDate, NoDate>>, <<Last24h, NoDate>>, <<NoDate, Date(0)>>, <<Date(2), NoDate>>,
          <<Date(0), Date(0)>>, <<Date(1), Date(2)>>, <<NoDate, Last24h>>, <<Date(0), NotADate>>,
          <<NotADate, NoDate>>}

NoArgs == "none"
MCRequests ==
  {To("/auth", args) : args \in {"password", "other", "empty"}}
  \cup {To(route, NoArgs) : route \in {"/", "/getParams", "/shutdown"}}
  \cup {To("/setParams", Params(p[1], p[2])) :
          p \in {<<Number(1), Number(2)>>, <<Null, Number(1)>>, <<Number(2), Null>>,
                 <<Null, Null>>, <<Text, Number(2)>>, <<Number(1), Missing>>}}
  \cup {To("/temperature/get", Period("on", s[1], s[2])) : s \in Spans}
  \cup {To(route, Period(state, NoDate, NoDate)) :
          route \in {"/state/get", "/state/getAverage"}, state \in {"on", "off"}}
  \cup {To("/temperature/getAverage", Period("on", start, NoDate)) : start \in {NoDate, Last24h}}
=============================================================================
