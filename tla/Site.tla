-------------------------------- MODULE Site --------------------------------
(***************************************************************************)
(* Site and Authentificator (site.{h,cpp}): the workers of the web server, *)
(* each with one request from its arrival through the middleware and the   *)
(* handler to its answer.  The login sessions are those of Sessions, which *)
(* CookieStore implements; getParameters() and the setters are one step    *)
(* each, as in Thermostat, which HardwareController implements; the        *)
(* history comes from DataBase.                                            *)
(*                                                                         *)
(* Crow is external: it runs no handler after a middleware has ended the   *)
(* response, and answers 500 when a handler throws.                        *)
(***************************************************************************)
EXTENDS DataBase

CONSTANTS
  Ctl,        \* the thread of Controller::run
  Tokens, Lifetime,
  Temps,      \* temperatures
  SavedBands, \* what parameters.json may hold at first
  Requests    \* what clients send

Missing == [kind |-> "missing", temp |-> 0]
Null == [kind |-> "null", temp |-> 0]
Text == [kind |-> "text", temp |-> 0]
Number(t) == [kind |-> "number", temp |-> t]

Value == {Missing, Null, Text} \cup {Number(t) : t \in Temps}
HistoryRoutes == {"/temperature/get", "/temperature/getAverage", "/state/get",
                  "/state/getAverage"}

(* A parameter startDate or endDate: absent or empty, the text "24h", one  *)
(* that julianday() takes for a moment, or any other.                      *)
ClientDates == [kind: {"", "24h", "date", "other"}, at: Int]

Bands == Temps \X Temps
Savers == Workers \cup {Ctl}

ASSUME SiteAssumption == None \notin Int \cup Tokens /\ Ctl \notin Workers
ASSUME BandsAssumption == SavedBands \subseteq Bands
ASSUME RequestsAssumption ==
  \A r \in Requests :
    /\ r.route = "/setParams" => r.args \in [minTemp: Value, maxTemp: Value]
    /\ r.route \in HistoryRoutes =>
         r.args.startDate \in ClientDates /\ r.args.endDate \in ClientDates

VARIABLES
  since, verdict,    \* the login sessions, as in Sessions
  minTemp, maxTemp,  \* the Controller's band
  parametersFile,    \* parameters.json: "none", "whole" or "mixed", and its band
  saving,            \* how far each thread is in toDisk(), or None
  powerOff,          \* is "shutdown +1" under way?
  pc,                \* "idle", "before", "handler", "login", "save", "query" or "done"
  request, response, \* of each worker
  held               \* the token of the weak_ptr that auth() holds, or None

Auth == INSTANCE Sessions

fileVars == <<parametersFile, saving>>
bandVars == <<minTemp, maxTemp, fileVars, powerOff>>
workerVars == <<pc, request, response, held>>
vars == <<alive, timeVars, writerVars, query, left, slack, since, verdict, bandVars, workerVars>>

NoResponse == 0

Goto(w, from, to) == alive /\ pc[w] = from /\ pc' = [pc EXCEPT ![w] = to]

(* res.code = code; res.end() *)
Ends(w, code) == response' = [response EXCEPT ![w] = code]

-----------------------------------------------------------------------------
(* Authentificator::before_handle, for every route but /auth. *)

Receive(w, r) ==
  /\ Spend("requests")
  /\ Goto(w, "idle", IF r.route = "/auth" THEN "handler" ELSE "before")
  /\ request' = [request EXCEPT ![w] = r]
  /\ UNCHANGED <<alive, timeVars, writerVars, query, slack, since, verdict, bandVars, response,
                 held>>

(* Where before_handle leaves the request to the handler. *)
PassesOn_Always(route, ok) == TRUE
PassesOn(route, ok) == ok # (route = "/")

(* redirect() or code 401, and end() *)
MiddlewareAnswer_Open(ok) == IF ok THEN NoResponse ELSE 401
MiddlewareAnswer(ok) == IF ok THEN 307 ELSE 401

BeforeHandle(w) ==
  LET r == request[w]
  IN  /\ pc[w] = "before"
      /\ Auth!Verify(w, r.token)
      /\ LET ok == verdict'[w].ok
         IN  IF PassesOn(r.route, ok)
             THEN Goto(w, "before", "handler") /\ UNCHANGED response
             ELSE Goto(w, "before", "done") /\ Ends(w, MiddlewareAnswer(ok))
      /\ UNCHANGED <<timeVars, writerVars, query, left, slack, bandVars, request, held>>

-----------------------------------------------------------------------------
(* The handlers. *)

Handles(w, routes, to) ==
  /\ Goto(w, "handler", to)
  /\ request[w].route \in routes
  /\ UNCHANGED <<timeVars, writerVars, query, left, slack, request>>

(* auth(): Cookie::generateCookie() for the right password, which returns  *)
(* a weak_ptr, and then lock().                                            *)
BeginAuth(w) ==
  \/ /\ Handles(w, {"/auth"}, "login")
     /\ request[w].args = "password"
     /\ \E tok \in Tokens : Auth!Login(tok) /\ held' = [held EXCEPT ![w] = tok]
     /\ UNCHANGED <<bandVars, response>>
  \/ /\ Handles(w, {"/auth"}, "done")
     /\ request[w].args = "other"
     /\ Ends(w, 401)
     /\ UNCHANGED <<alive, since, verdict, bandVars, held>>

EndAuth(w) ==
  /\ Goto(w, "login", "done")
  /\ held[w] # None
  /\ Ends(w, 200)
  /\ held' = [held EXCEPT ![w] = None]
  /\ UNCHANGED <<alive, timeVars, writerVars, query, left, slack, since, verdict, bandVars,
                 request>>

(* loginPage(), dashboard() and getParams() *)
Pages(w) ==
  /\ Handles(w, {"/", "/dashboard", "/getParams"}, "done")
  /\ Ends(w, 200)
  /\ UNCHANGED <<alive, since, verdict, bandVars, held>>

(* setParams(): which setter it calls, if it calls one.  A key that is     *)
(* missing trips the assertion of a const operator[], any value that is no *)
(* number throws before the setter is entered.                             *)
Asserts(args) == args.minTemp = Missing \/ args.maxTemp = Missing

Setter_Swapped(args) ==
  IF args.minTemp # Null /\ args.maxTemp # Null THEN {"minTemp", "maxTemp"}
  ELSE IF args.maxTemp = Null THEN {"maxTemp"} ELSE {"minTemp"}
Setter(args) ==
  IF args.minTemp # Null /\ args.maxTemp # Null THEN {"minTemp", "maxTemp"}
  ELSE IF args.minTemp = Null THEN {"maxTemp"} ELSE {"minTemp"}

Throws_Never(args) == FALSE
Throws(args) == \E key \in Setter(args) : args[key].kind # "number"

SetParams(w) ==
  LET args == request[w].args
      sets == IF Throws(args) THEN {} ELSE Setter(args)
  IN  /\ Handles(w, {"/setParams"}, "done")
      /\ ~Asserts(args)
      /\ Ends(w, IF Throws(args) THEN 500 ELSE 200)
      /\ minTemp' = IF "minTemp" \in sets THEN args.minTemp.temp ELSE minTemp
      /\ maxTemp' = IF "maxTemp" \in sets THEN args.maxTemp.temp ELSE maxTemp
      /\ UNCHANGED <<alive, since, verdict, fileVars, powerOff, held>>

(* toDisk(), which takes no lock.  As setParameters() makes both of its    *)
(* assignments in one step here, the two reads may come in either order,   *)
(* which gives the same drafts.                                            *)
BeginSave(s) ==
  /\ saving[s] = None
  /\ saving' = [saving EXCEPT ![s] = [step |-> "read", band |-> <<minTemp, maxTemp>>]]
  /\ UNCHANGED parametersFile

SavesAt(s, step) == alive /\ saving[s] # None /\ saving[s].step = step

ReadOtherBound(s) ==
  /\ SavesAt(s, "read")
  /\ \E band \in {<<minTemp, saving[s].band[2]>>, <<saving[s].band[1], maxTemp>>} :
       saving' = [saving EXCEPT ![s] = [step |-> "open", band |-> band]]
  /\ UNCHANGED parametersFile

OpenFile(s) ==
  /\ SavesAt(s, "open")
  /\ saving' = [saving EXCEPT ![s].step = "write"]
  /\ parametersFile' = [parametersFile EXCEPT !.text = "none"]

(* Over the text of another thread that opened the file as well, which may *)
(* be longer.                                                              *)
WriteFile(s) ==
  /\ SavesAt(s, "write")
  /\ saving' = [saving EXCEPT ![s] = None]
  /\ \E text \in IF parametersFile.text = "none" THEN {"whole"} ELSE {"whole", "mixed"} :
       parametersFile' = [text |-> text, band |-> saving[s].band]

ToDisk(s) ==
  /\ ReadOtherBound(s) \/ OpenFile(s) \/ WriteFile(s)
  /\ UNCHANGED <<alive, timeVars, writerVars, query, left, slack, since, verdict, minTemp,
                 maxTemp, powerOff, workerVars>>

(* shutdown(): toDisk(), and "shutdown +1" *)
BeginShutdown(w) ==
  /\ Handles(w, {"/shutdown"}, "save")
  /\ BeginSave(w)
  /\ UNCHANGED <<alive, since, verdict, minTemp, maxTemp, powerOff, response, held>>

EndShutdown(w) ==
  /\ Goto(w, "save", "done")
  /\ saving[w] = None
  /\ powerOff' = TRUE
  /\ Ends(w, 200)
  /\ UNCHANGED <<alive, timeVars, writerVars, query, left, slack, since, verdict, minTemp,
                 maxTemp, fileVars, request, held>>

(* getTemps(), getAverage(), getStates() and getAverageStateTime(): the    *)
(* range of time, from the parameters startDate and endDate.               *)
Range(route, start, end) ==
  CASE start.kind = "" /\ end.kind = "" ->
         IF route = "/temperature/getAverage" THEN OfToday ELSE Past24h
    [] start.kind = "" /\ end.kind # "" -> Between(First, end)
    [] start.kind = "24h" -> Past24h
    [] OTHER -> Between(start, IF end.kind = "" THEN Now ELSE end)

Asked(r) ==
  [table |-> IF r.route \in {"/state/get", "/state/getAverage"} THEN "States" ELSE "Temperatures",
   on |-> r.args.state = "on",
   where |-> Range(r.route, r.args.startDate, r.args.endDate),
   average |-> r.route \in {"/temperature/getAverage", "/state/getAverage"}]

History(w) ==
  LET r == request[w]
  IN  /\ Goto(w, "handler", "query")
      /\ r.route \in HistoryRoutes
      /\ Prepare(w, Asked(r))
      /\ UNCHANGED <<alive, timeVars, writerVars, left, slack, since, verdict, bandVars,
                     request, response, held>>

ReadHistory(w, step) ==
  /\ pc[w] = "query" /\ alive
  /\ step
  /\ UNCHANGED <<alive, timeVars, writerVars, left, slack, since, verdict, bandVars, workerVars>>

AnswerHistory(w) ==
  /\ query[w] # None /\ query[w].done
  /\ Goto(w, "query", "done")
  /\ Ends(w, 200)
  /\ UNCHANGED <<alive, timeVars, writerVars, query, left, slack, since, verdict, bandVars,
                 request, held>>

(* Crow sends the response, once it is ended, and the worker takes another *)
(* request.                                                                *)
Reply(w) ==
  /\ Goto(w, "done", "idle")
  /\ response[w] # NoResponse
  /\ query' = [query EXCEPT ![w] = None]
  /\ request' = [request EXCEPT ![w] = None]
  /\ response' = [response EXCEPT ![w] = NoResponse]
  /\ UNCHANGED <<alive, timeVars, writerVars, left, slack, since, verdict, bandVars, held>>

-----------------------------------------------------------------------------
(* The rest of the process, and its end. *)

(* The cleaner erases a cookie, which the weak_ptr then finds expired. *)
ForgetSession ==
  /\ \E tok \in Tokens :
       /\ Auth!Forget(tok)
       /\ held' = [w \in Workers |-> IF held[w] = tok THEN None ELSE held[w]]
  /\ UNCHANGED <<timeVars, writerVars, query, left, slack, bandVars, pc, request, response>>

(* An iteration of run() that saves, and one that has nothing to do. *)
BeginLoopSave ==
  /\ alive /\ ctl = "loop" /\ Spend("saves")
  /\ BeginSave(Ctl)
  /\ UNCHANGED <<alive, timeVars, writerVars, query, slack, since, verdict, minTemp, maxTemp,
                 powerOff, workerVars>>

QuietIteration == alive /\ ctl = "loop" /\ saving[Ctl] = None /\ UNCHANGED vars

Writer ==
  /\ \/ InsertTemp \/ InsertState \/ RestartPeriod \/ Tick \/ Correct
     \/ saving[Ctl] = None /\ SwitchRelay
  /\ UNCHANGED <<since, verdict, bandVars, workerVars>>

(* "shutdown +1" outlives the process. *)
Die ==
  /\ Auth!Stop
  /\ EndRun
  /\ saving' = [s \in Savers |-> None]
  /\ pc' = [w \in Workers |-> "idle"]
  /\ request' = [w \in Workers |-> None]
  /\ response' = [w \in Workers |-> NoResponse]
  /\ held' = [w \in Workers |-> None]
  /\ UNCHANGED <<timeVars, writerVars, slack, minTemp, maxTemp, parametersFile>>

Crash == Spend("deaths") /\ Die /\ UNCHANGED powerOff

(* The assertion of operator[], parts[0] of no parts, and lock() of a      *)
(* cookie that is gone: a null pointer.                                    *)
Aborts(w) ==
  \/ pc[w] = "handler" /\ request[w].route = "/setParams" /\ Asserts(request[w].args)
  \/ pc[w] = "handler" /\ request[w].route = "/auth" /\ request[w].args = "empty"
  \/ pc[w] = "login" /\ held[w] = None
Abort(w) == Aborts(w) /\ Die /\ UNCHANGED <<left, powerOff>>

PowerOff ==
  /\ powerOff /\ powerOff' = FALSE
  /\ \/ Die
     \/ ~alive /\ UNCHANGED <<alive, timeVars, writerVars, query, slack, since, verdict,
                              minTemp, maxTemp, fileVars, workerVars>>
  /\ UNCHANGED left

(* App::App() parses parameters.json, or throws: the process dies at once. *)
Restart ==
  /\ Auth!Restart
  /\ parametersFile.text = "whole"
  /\ BeginRun
  /\ minTemp' = parametersFile.band[1] /\ maxTemp' = parametersFile.band[2]
  /\ UNCHANGED <<timeVars, rows, query, left, slack, fileVars, powerOff, workerVars>>

StartThrows == ~alive /\ parametersFile.text # "whole" /\ UNCHANGED vars

Init ==
  /\ DataBaseInit
  /\ since = Auth!NoSessions /\ verdict = Auth!NoVerdicts
  /\ \E band \in SavedBands :
       /\ parametersFile = [text |-> "whole", band |-> band]
       /\ minTemp = band[1] /\ maxTemp = band[2]
  /\ saving = [s \in Savers |-> None]
  /\ powerOff = FALSE
  /\ pc = [w \in Workers |-> "idle"]
  /\ request = [w \in Workers |-> None]
  /\ response = [w \in Workers |-> NoResponse]
  /\ held = [w \in Workers |-> None]

Handler(w) ==
  BeginAuth(w) \/ Pages(w) \/ SetParams(w) \/ BeginShutdown(w) \/ History(w)

Serve(w) ==
  \/ BeforeHandle(w) \/ Handler(w) \/ Abort(w)
  \/ EndAuth(w) \/ ToDisk(w) \/ EndShutdown(w)
  \/ ReadHistory(w, queryDBStep(w)) \/ AnswerHistory(w)
  \/ Reply(w)

QueryFails(w) == ReadHistory(w, StepFails(w))

Next ==
  \/ \E w \in Workers : (\E r \in Requests : Receive(w, r)) \/ Serve(w) \/ QueryFails(w)
  \/ Writer \/ ForgetSession \/ BeginLoopSave \/ ToDisk(Ctl) \/ QuietIteration
  \/ Crash \/ PowerOff \/ Restart \/ StartThrows

Spec == Init /\ [][Next]_vars

(* Every worker that has a request is scheduled; no statement need fail. *)
FairSpec == Spec /\ \A w \in Workers : WF_vars(Serve(w))

-----------------------------------------------------------------------------
TypeOK ==
  /\ DataBaseTypeOK
  /\ since \in [Tokens -> Int \cup {None}]
  /\ minTemp \in Temps /\ maxTemp \in Temps
  /\ parametersFile \in [text: {"none", "whole", "mixed"}, band: Bands]
  /\ saving \in [Savers -> [step: {"read", "open", "write"}, band: Bands] \cup {None}]
  /\ powerOff \in BOOLEAN
  /\ pc \in [Workers -> {"idle", "before", "handler", "login", "save", "query", "done"}]
  /\ request \in [Workers -> Requests \cup {None}]
  /\ response \in [Workers -> {NoResponse, 200, 307, 401, 500}]
  /\ held \in [Workers -> Tokens \cup {None}]

(* No handler of a guarded route begins, and none answers, unless the      *)
(* session of the request's own token was open when the middleware looked; *)
(* and the login page is for those without a session (site.h:16-40).       *)
NothingWithoutASession ==
  \A w \in Workers :
    /\ pc[w] \in {"handler", "login", "save", "query"} \/ (pc[w] = "done" /\ response[w] \in {200, 500})
    /\ request[w].route # "/auth"
    => verdict[w] = [token |-> request[w].token, ok |-> request[w].route # "/"]

(* What a client asks for, by the meaning of its words: of the present day *)
(* for an average without dates, else the past 24 hours unless it names a  *)
(* day to begin or to end with; nothing, if it names what is no date.      *)
AsksFor24h(r) ==
  \/ r.args.startDate.kind = "24h"
  \/ /\ r.args.startDate.kind = "" /\ r.args.endDate.kind = ""
     /\ r.route # "/temperature/getAverage"

Wanted(r, row, now) ==
  LET start == r.args.startDate
      end == r.args.endDate
  IN  /\ r.route \in {"/state/get", "/state/getAverage"} <=> row.table = "States"
      /\ row.table = "States" => row.on = (r.args.state = "on")
      /\ IF AsksFor24h(r) THEN now - DayLength < row.at
         ELSE IF start.kind = "" /\ end.kind = "" THEN Day(row.at) = Day(now)
         ELSE /\ \/ start.kind = ""
                 \/ start.kind = "date" /\ start.at <= row.at
              /\ \/ end.kind = "" /\ Day(row.at) <= Day(now)
                 \/ end.kind = "date" /\ Day(row.at) <= Day(end.at)

(* What of it is kept: of the past 24 hours the present day, and all of it *)
(* for a start that is a day (a time of day leaves that day's rows out).   *)
Kept(r, row, now) ==
  /\ AsksFor24h(r) => Day(now) <= Day(row.at)
  /\ r.args.startDate.kind = "date" => r.args.startDate.at = DayStart(r.args.startDate.at)

Answered(w) == query[w] # None /\ query[w].done /\ query[w].status = "0"
Found(w) == UNION {query[w].data[k] : k \in 1..Len(query[w].data)}

(* An answer whose status is 0 has every row that was asked for, but for   *)
(* the above, and was there when the query began, once and in order,       *)
(* whatever is inserted in the meantime and wherever the query fails; and  *)
(* no row that was not asked for, unless the clock was set back since that *)
(* row was inserted (database.h:63-194, site.cpp:154-349).                 *)
AnswersAreComplete ==
  \A w \in Workers : Answered(w) =>
    LET data == query[w].data
        now == query[w].q.now
    IN  /\ \A k \in 1..query[w].known :
             Wanted(request[w], rows[k], now) /\ Kept(request[w], rows[k], now) => k \in Found(w)
        /\ \A k \in Found(w) : Wanted(request[w], rows[k], now) \/ now < rows[k].at
        /\ \A i, j \in 1..Len(data) : i < j => \A a \in data[i], b \in data[j] : a < b

(* A request to /setParams that gives numbers, or a number and a null, is  *)
(* answered 200 and has set every bound that it gave and no other; any     *)
(* other is not answered 200 and has changed nothing, even if the process  *)
(* dies of it (site.cpp:136-152).                                          *)
Settable(args) ==
  /\ {args.minTemp.kind, args.maxTemp.kind} \subseteq {"number", "null"}
  /\ "number" \in {args.minTemp.kind, args.maxTemp.kind}
AskedBound(bound, old) == IF bound.kind = "number" THEN bound.temp ELSE old

SetsWhatWasAsked ==
  [][\A w \in Workers :
       pc[w] = "handler" /\ pc'[w] # "handler" /\ request[w].route = "/setParams" =>
         IF Settable(request[w].args) /\ alive'
         THEN /\ response'[w] = 200
              /\ minTemp' = AskedBound(request[w].args.minTemp, minTemp)
              /\ maxTemp' = AskedBound(request[w].args.maxTemp, maxTemp)
         ELSE response'[w] # 200 /\ UNCHANGED <<minTemp, maxTemp>>]_vars

(* Every request is answered, by the server or by its death: no error of   *)
(* the database, no case of the middleware, no exception of a handler and  *)
(* no login leaves a worker with a response that nobody ends               *)
(* (site.h:16-40, site.cpp:74-362).                                        *)
EveryRequestIsAnswered ==
  \A w \in Workers : pc[w] # "idle" ~> pc[w] = "idle"

-----------------------------------------------------------------------------
(* What the code does not keep.                                            *)

(* The queries for the past 24 hours, as they and the parameter are called *)
(* (database.h:68, site.cpp:174), find all rows of the past 24 hours.      *)
AnswersGoBack24h ==
  \A w \in Workers : Answered(w) /\ AsksFor24h(request[w]) =>
    \A k \in 1..query[w].known :
      Wanted(request[w], rows[k], query[w].q.now) => k \in Found(w)
=============================================================================
