----------------------------- MODULE Site_proofs -----------------------------
(***************************************************************************)
(* The workers of the web server, for any requests, any number of workers  *)
(* and tokens, and any deaths of the process: nothing is served without a  *)
(* session, /setParams sets what it was asked to set, and the history that *)
(* is answered is the history that was asked for.                          *)
(***************************************************************************)
EXTENDS Site, DataBase_proofs

Verdicts == [token: {r.token : r \in Requests}, ok: BOOLEAN]

(* The workers, and what each of them is doing. *)
WorkersInv ==
  /\ alive \in BOOLEAN
  /\ pc \in [Workers -> {"idle", "before", "handler", "login", "save", "query", "done"}]
  /\ request \in [Workers -> Requests \cup {None}]
  /\ response \in [Workers -> {NoResponse, 200, 307, 401, 500}]
  /\ verdict \in [Workers -> Verdicts \cup {None}]
  /\ \A w \in Workers : pc[w] # "idle" => alive /\ request[w] \in Requests

AccessInv == WorkersInv /\ NothingWithoutASession

(* The middleware has seen this worker's request and let it pass. *)
Passed(w) ==
  request[w].route # "/auth" =>
    verdict[w] = [token |-> request[w].token, ok |-> request[w].route # "/"]

-----------------------------------------------------------------------------
(* Every step of the program, from the workers' point of view. *)

Idles == UNCHANGED <<alive, pc, request, response, verdict>>

Handled(w) ==
  /\ alive /\ pc[w] = "handler" /\ alive' = alive
  /\ pc' = [pc EXCEPT ![w] = pc'[w]]
  /\ \/ pc'[w] \in {"login", "save", "query"} /\ UNCHANGED response
     \/ pc'[w] = "done" /\ \E code \in {200, 401, 500} : Ends(w, code)
  /\ UNCHANGED <<request, verdict>>

Answers(w) ==
  /\ alive /\ pc[w] \in {"login", "save", "query"} /\ alive' = alive
  /\ pc' = [pc EXCEPT ![w] = "done"]
  /\ Ends(w, 200)
  /\ UNCHANGED <<request, verdict>>

LEMMA HandlesSteps ==
  ASSUME WorkersInv, NEW w \in Workers, NEW routes, NEW to \in {"login", "save", "query", "done"},
         Handles(w, routes, to), UNCHANGED <<alive, verdict>>,
         IF to = "done" THEN \E code \in {200, 401, 500} : Ends(w, code) ELSE UNCHANGED response
  PROVE  Handled(w)
<1>1. alive /\ pc[w] = "handler" /\ pc' = [pc EXCEPT ![w] = to] /\ request' = request
  BY DEF Handles, Goto
<1>2. pc'[w] = to
  BY <1>1 DEF WorkersInv
<1>3. CASE to = "done"
  BY <1>1, <1>2, <1>3 DEF Handled
<1>4. CASE to # "done"
  BY <1>1, <1>2, <1>4 DEF Handled
<1> QED
  BY <1>3, <1>4

LEMMA HandlerSteps ==
  ASSUME WorkersInv, NEW w \in Workers, Handler(w)
  PROVE  Handled(w)
<1>1. CASE BeginAuth(w)
  BY <1>1, HandlesSteps DEF BeginAuth, Auth!Login
<1>2. CASE Pages(w)
  BY <1>2, HandlesSteps DEF Pages
<1>3. CASE SetParams(w)
  <2>1. /\ Handles(w, {"/setParams"}, "done") /\ UNCHANGED <<alive, verdict>>
        /\ \E code \in {200, 500} : Ends(w, code)
    BY <1>3 DEF SetParams
  <2> QED
    BY <2>1, HandlesSteps
<1>4. CASE BeginShutdown(w)
  BY <1>4, HandlesSteps DEF BeginShutdown
<1>5. CASE History(w)
  <2>1. alive /\ pc[w] = "handler" /\ pc' = [pc EXCEPT ![w] = "query"]
        /\ UNCHANGED <<alive, request, response, verdict>>
    BY <1>5 DEF History, Goto
  <2>2. pc'[w] = "query"
    BY <2>1 DEF WorkersInv
  <2> QED
    BY <2>1, <2>2 DEF Handled
<1> QED
  BY <1>1, <1>2, <1>3, <1>4, <1>5 DEF Handler

LEMMA AnswerSteps ==
  ASSUME NEW w \in Workers, EndAuth(w) \/ EndShutdown(w) \/ AnswerHistory(w)
  PROVE  Answers(w)
BY DEF EndAuth, EndShutdown, AnswerHistory, Goto, Answers

LEMMA OtherSteps ==
  ASSUME [Next]_vars
  PROVE  \/ Idles
         \/ \E w \in Workers : \/ \E r \in Requests : Receive(w, r)
                               \/ BeforeHandle(w) \/ Handler(w) \/ Answers(w) \/ Reply(w)
         \/ Die \/ Restart
<1>1. CASE Writer \/ ForgetSession \/ BeginLoopSave \/ ToDisk(Ctl) \/ QuietIteration
           \/ StartThrows \/ UNCHANGED vars
  BY <1>1 DEF Writer, InsertTemp, SwitchRelay, InsertState, RestartPeriod, Tick, Correct,
              ForgetSession, Auth!Forget, BeginLoopSave, ToDisk, QuietIteration, StartThrows,
              Idles, bandVars, workerVars, vars
<1>2. ASSUME NEW w \in Workers, ReadHistory(w, queryDBStep(w)) \/ QueryFails(w) \/ ToDisk(w)
      PROVE  Idles
  BY <1>2 DEF QueryFails, ReadHistory, ToDisk, workerVars, Idles
<1>3. CASE Crash \/ PowerOff
  BY <1>3 DEF Crash, PowerOff, workerVars, Idles
<1>4. ASSUME NEW w \in Workers, Serve(w)
      PROVE  \/ ReadHistory(w, queryDBStep(w)) \/ ToDisk(w)
             \/ BeforeHandle(w) \/ Handler(w) \/ Answers(w) \/ Reply(w) \/ Die
  BY <1>4, AnswerSteps DEF Serve, Abort
<1> QED
  BY <1>1, <1>2, <1>3, <1>4 DEF Next

-----------------------------------------------------------------------------
(* Access. *)

LEMMA AccessInit ==
  ASSUME Init
  PROVE  AccessInv
BY DEF Init, DataBaseInit, AccessInv, WorkersInv, NothingWithoutASession, NoResponse,
       Auth!NoVerdicts

LEMMA ReceiveKeepsAccess ==
  ASSUME AccessInv, NEW w \in Workers, NEW r \in Requests, Receive(w, r)
  PROVE  AccessInv'
<1> USE DEF AccessInv
<1>1. WorkersInv'
  BY DEF WorkersInv, Receive, Goto, Spend
<1>2. NothingWithoutASession'
  BY DEF WorkersInv, NothingWithoutASession, Receive, Goto, Spend
<1> QED
  BY <1>1, <1>2

LEMMA MiddlewareKeepsAccess ==
  ASSUME AccessInv, NEW w \in Workers, BeforeHandle(w)
  PROVE  AccessInv'
<1> USE DEF AccessInv
<1> DEFINE r == request[w]
           ok == r.token \in Auth!Open
<1>1. /\ alive /\ alive' /\ pc[w] = "before" /\ r \in Requests /\ request' = request
      /\ verdict' = [verdict EXCEPT ![w] = [token |-> r.token, ok |-> ok]]
  BY DEF WorkersInv, BeforeHandle, Auth!Verify
<1>2. ok \in BOOLEAN /\ verdict'[w] = [token |-> r.token, ok |-> ok]
  BY <1>1 DEF WorkersInv
<1>3. verdict' \in [Workers -> Verdicts \cup {None}]
  <2>1. [token |-> r.token, ok |-> ok] \in Verdicts
    BY <1>1, <1>2 DEF Verdicts
  <2> QED
    BY <1>1, <2>1 DEF WorkersInv
<1> HIDE DEF ok
<1>4. verdict'[w].ok = ok
  BY <1>2
<1>5. CASE PassesOn(r.route, ok)
  <2>1. pc' = [pc EXCEPT ![w] = "handler"] /\ response' = response
    BY <1>4, <1>5 DEF BeforeHandle, Goto
  <2>2. WorkersInv'
    BY <1>1, <1>3, <2>1 DEF WorkersInv
  <2>3. ok = (r.route # "/")
    BY <1>2, <1>5 DEF PassesOn
  <2>4. verdict'[w] = [token |-> r.token, ok |-> r.route # "/"]
    BY <1>2, <2>3
  <2>5. \A v \in Workers \ {w} : pc'[v] = pc[v] /\ verdict'[v] = verdict[v]
    BY <1>1, <2>1 DEF WorkersInv
  <2>6. NothingWithoutASession'
    BY <1>1, <2>1, <2>4, <2>5 DEF NothingWithoutASession
  <2> QED
    BY <2>2, <2>6
<1>6. CASE ~PassesOn(r.route, ok)
  <2>1. /\ pc' = [pc EXCEPT ![w] = "done"]
        /\ response' = [response EXCEPT ![w] = IF ok THEN 307 ELSE 401]
    BY <1>4, <1>6 DEF BeforeHandle, Goto, Ends, MiddlewareAnswer
  <2>2. WorkersInv'
    BY <1>1, <1>3, <2>1 DEF WorkersInv
  <2>3. pc'[w] = "done" /\ response'[w] \notin {200, 500}
    BY <2>1 DEF WorkersInv
  <2>4. \A v \in Workers \ {w} : pc'[v] = pc[v] /\ verdict'[v] = verdict[v]
                                 /\ response'[v] = response[v]
    BY <1>1, <2>1 DEF WorkersInv
  <2>5. NothingWithoutASession'
    BY <1>1, <2>3, <2>4 DEF NothingWithoutASession
  <2> QED
    BY <2>2, <2>5
<1> QED
  BY <1>5, <1>6

LEMMA HandlerKeepsAccess ==
  ASSUME AccessInv, NEW w \in Workers, Handled(w) \/ Answers(w)
  PROVE  AccessInv'
<1> USE DEF AccessInv
<1>1. WorkersInv'
  <2>1. CASE Handled(w)
    BY <2>1 DEF WorkersInv, Handled, Ends
  <2>2. CASE Answers(w)
    BY <2>2 DEF WorkersInv, Answers, Ends
  <2> QED
    BY <2>1, <2>2
<1>2. /\ pc[w] \in {"handler", "login", "save", "query"}
      /\ request' = request /\ verdict' = verdict
  BY DEF Handled, Answers
<1>3. \A v \in Workers \ {w} : pc'[v] = pc[v] /\ response'[v] = response[v]
  BY DEF WorkersInv, Handled, Answers, Ends
<1> QED
  BY <1>1, <1>2, <1>3 DEF NothingWithoutASession

LEMMA EndsKeepAccess ==
  ASSUME AccessInv, Idles \/ (\E w \in Workers : Reply(w)) \/ Die \/ Restart
  PROVE  AccessInv'
<1> USE DEF AccessInv
<1>1. CASE Idles
  BY <1>1 DEF Idles, WorkersInv, NothingWithoutASession
<1>2. ASSUME NEW w \in Workers, Reply(w)
      PROVE  AccessInv'
  <2>1. WorkersInv'
    BY <1>2 DEF Reply, Goto, WorkersInv, NoResponse
  <2>2. NothingWithoutASession'
    BY <1>2 DEF Reply, Goto, WorkersInv, NothingWithoutASession, NoResponse
  <2> QED
    BY <2>1, <2>2
<1>3. CASE Die
  BY <1>3 DEF Die, Auth!Stop, WorkersInv, NothingWithoutASession, NoResponse
<1>4. CASE Restart
  <2>1. \A w \in Workers : pc[w] = "idle"
    BY <1>4 DEF Restart, Auth!Restart, WorkersInv
  <2> QED
    BY <1>4, <2>1 DEF Restart, Auth!Restart, Auth!NoVerdicts, workerVars, WorkersInv,
                      NothingWithoutASession
<1> QED
  BY <1>1, <1>2, <1>3, <1>4

LEMMA AccessStep ==
  ASSUME AccessInv, [Next]_vars
  PROVE  AccessInv'
<1>1. ASSUME NEW w \in Workers, Handler(w) \/ Answers(w)
      PROVE  AccessInv'
  BY <1>1, HandlerSteps, HandlerKeepsAccess DEF AccessInv
<1> QED
  BY OtherSteps, ReceiveKeepsAccess, MiddlewareKeepsAccess, EndsKeepAccess, <1>1

LEMMA AccessHolds == Spec => []AccessInv
<1>1. Init => AccessInv
  BY AccessInit
<1>2. AccessInv /\ [Next]_vars => AccessInv'
  BY AccessStep
<1> QED
  BY <1>1, <1>2, PTL DEF Spec

(* No handler of a guarded route begins or answers without an open session *)
(* of the request's own token, whatever expires, is forgotten or restarted *)
(* in the meantime (site.h:16-40).                                         *)
THEOREM Access == Spec => []NothingWithoutASession
<1>1. AccessInv => NothingWithoutASession
  BY DEF AccessInv
<1> QED
  BY <1>1, AccessHolds, PTL

-----------------------------------------------------------------------------
(* The band. *)

(* Who can take a request to /setParams out of its handler. *)
LEMMA LeavingSetParams ==
  ASSUME WorkersInv, [Next]_vars, NEW w \in Workers,
         pc[w] = "handler", pc'[w] # "handler", request[w].route = "/setParams"
  PROVE  SetParams(w) \/ Die
<1>1. ASSUME NEW v \in Workers,
             \/ \E r \in Requests : Receive(v, r)
             \/ BeforeHandle(v) \/ Answers(v) \/ Reply(v)
      PROVE  FALSE
  <2>1. pc[v] # "handler" /\ \E to : pc' = [pc EXCEPT ![v] = to]
    BY <1>1 DEF Receive, BeforeHandle, Answers, Reply, Goto
  <2> QED
    BY <2>1 DEF WorkersInv
<1>2. ASSUME NEW v \in Workers, Handler(v)
      PROVE  SetParams(w)
  <2>1. Handled(v)
    BY <1>2, HandlerSteps
  <2>2. v = w
    BY <2>1 DEF Handled, WorkersInv
  <2> QED
    BY <1>2, <2>2 DEF Handler, BeginAuth, Pages, BeginShutdown, History, Handles, HistoryRoutes
<1> QED
  BY OtherSteps, <1>1, <1>2 DEF Idles, Restart, workerVars

LEMMA Bounds ==
  ASSUME NEW args \in [minTemp: Value, maxTemp: Value], ~Asserts(args)
  PROVE  /\ Settable(args) <=> ~Throws(args)
         /\ Settable(args) =>
              /\ ("minTemp" \in Setter(args)) <=> args.minTemp.kind = "number"
              /\ ("maxTemp" \in Setter(args)) <=> args.maxTemp.kind = "number"
<1>1. \A v \in Value : /\ v.kind \in {"missing", "null", "text", "number"}
                       /\ v.kind = "missing" <=> v = Missing
                       /\ v.kind = "null" <=> v = Null
  BY DEF Value, Missing, Null, Text, Number
<1>2. args.minTemp \in Value /\ args.maxTemp \in Value
  OBVIOUS
<1>3. args.minTemp.kind # "missing" /\ args.maxTemp.kind # "missing"
  BY <1>1, <1>2 DEF Asserts
<1>4. args["minTemp"] = args.minTemp /\ args["maxTemp"] = args.maxTemp
  OBVIOUS
<1>5. CASE args.minTemp.kind = "null"
  <2>1. Setter(args) = {"maxTemp"}
    BY <1>1, <1>2, <1>5 DEF Setter
  <2> QED
    BY <1>1, <1>2, <1>3, <1>4, <1>5, <2>1 DEF Settable, Throws
<1>6. CASE args.minTemp.kind # "null" /\ args.maxTemp.kind = "null"
  <2>1. Setter(args) = {"minTemp"}
    BY <1>1, <1>2, <1>6 DEF Setter
  <2> QED
    BY <1>1, <1>2, <1>3, <1>4, <1>6, <2>1 DEF Settable, Throws
<1>7. CASE args.minTemp.kind # "null" /\ args.maxTemp.kind # "null"
  <2>1. Setter(args) = {"minTemp", "maxTemp"}
    BY <1>1, <1>2, <1>7 DEF Setter
  <2> QED
    BY <1>1, <1>2, <1>3, <1>4, <1>7, <2>1 DEF Settable, Throws
<1> QED
  BY <1>5, <1>6, <1>7

LEMMA SetParamsSets ==
  ASSUME WorkersInv, NEW w \in Workers, SetParams(w)
  PROVE  IF Settable(request[w].args) /\ alive'
         THEN /\ response'[w] = 200
              /\ minTemp' = AskedBound(request[w].args.minTemp, minTemp)
              /\ maxTemp' = AskedBound(request[w].args.maxTemp, maxTemp)
         ELSE response'[w] # 200 /\ UNCHANGED <<minTemp, maxTemp>>
<1> DEFINE args == request[w].args
<1>1. alive /\ alive' /\ pc[w] = "handler" /\ request[w].route = "/setParams" /\ ~Asserts(args)
  BY DEF SetParams, Handles, Goto
<1>2. args \in [minTemp: Value, maxTemp: Value]
  BY <1>1, RequestsAssumption DEF WorkersInv
<1>3. response'[w] = IF Throws(args) THEN 500 ELSE 200
  BY DEF SetParams, Handles, Ends, WorkersInv
<1>4. /\ minTemp' = IF ~Throws(args) /\ "minTemp" \in Setter(args) THEN args.minTemp.temp ELSE minTemp
      /\ maxTemp' = IF ~Throws(args) /\ "maxTemp" \in Setter(args) THEN args.maxTemp.temp ELSE maxTemp
  BY DEF SetParams
<1> HIDE DEF args
<1>5. CASE Settable(args)
  <2>1. ~Throws(args) /\ response'[w] = 200
    BY <1>1, <1>2, <1>3, <1>5, Bounds
  <2>2. minTemp' = AskedBound(args.minTemp, minTemp) /\ maxTemp' = AskedBound(args.maxTemp, maxTemp)
    BY <1>1, <1>2, <1>4, <1>5, <2>1, Bounds DEF AskedBound
  <2> QED
    BY <1>1, <1>5, <2>1, <2>2 DEF args
<1>6. CASE ~Settable(args)
  <2>1. Throws(args)
    BY <1>1, <1>2, <1>6, Bounds
  <2> QED
    BY <1>3, <1>4, <1>6, <2>1 DEF args
<1> QED
  BY <1>5, <1>6

(* /setParams sets every bound that the request gave and no other, or      *)
(* answers that it did not; no death of the process leaves half of it      *)
(* (site.cpp:136-152).                                                     *)
THEOREM SetsBounds == Spec => SetsWhatWasAsked
<1> DEFINE asked(w) ==
             pc[w] = "handler" /\ pc'[w] # "handler" /\ request[w].route = "/setParams" =>
               IF Settable(request[w].args) /\ alive'
               THEN /\ response'[w] = 200
                    /\ minTemp' = AskedBound(request[w].args.minTemp, minTemp)
                    /\ maxTemp' = AskedBound(request[w].args.maxTemp, maxTemp)
               ELSE response'[w] # 200 /\ UNCHANGED <<minTemp, maxTemp>>
<1>1. ASSUME AccessInv, [Next]_vars, NEW w \in Workers
      PROVE  asked(w)
  <2>1. SUFFICES ASSUME pc[w] = "handler", pc'[w] # "handler", request[w].route = "/setParams"
                 PROVE  asked(w)
    OBVIOUS
  <2>2. CASE SetParams(w)
    BY <1>1, <2>2, SetParamsSets DEF AccessInv
  <2>3. CASE Die
    BY <2>3 DEF Die, Auth!Stop, NoResponse
  <2> QED
    BY <1>1, <2>1, <2>2, <2>3, LeavingSetParams DEF AccessInv
<1>2. AccessInv /\ [Next]_vars => [\A w \in Workers : asked(w)]_vars
  BY <1>1
<1> QED
  BY <1>2, AccessHolds, PTL DEF Spec, SetsWhatWasAsked

-----------------------------------------------------------------------------
(* The periods in the table States. *)

LEMMA PeriodsStep ==
  ASSUME PeriodsInv, [Next]_vars
  PROVE  PeriodsInv'
<1>1. CASE Writer
  BY <1>1, WriterKeepsPeriods DEF Writer
<1>2. CASE Restart
  BY <1>2, RestartKeepsPeriods DEF Restart, timeVars
<1>3. ASSUME NEW w \in Workers,
             \/ \E r \in Requests : Receive(w, r)
             \/ Serve(w) \/ QueryFails(w)
      PROVE  UNCHANGED <<clock, uptime, writerVars, slack>>
  <2>1. CASE Handler(w) \/ Abort(w)
    BY <2>1 DEF Handler, BeginAuth, Pages, SetParams, BeginShutdown, History, Abort, Handles, Die,
                timeVars
  <2>2. CASE ~(Handler(w) \/ Abort(w))
    BY <1>3, <2>2 DEF Receive, Serve, BeforeHandle, EndAuth, ToDisk, EndShutdown, ReadHistory,
                      AnswerHistory, Reply, QueryFails, timeVars
  <2> QED
    BY <2>1, <2>2
<1>4. CASE \/ ForgetSession \/ BeginLoopSave \/ ToDisk(Ctl) \/ QuietIteration
           \/ Crash \/ PowerOff \/ StartThrows \/ UNCHANGED vars
  <2>1. UNCHANGED <<clock, uptime, writerVars, slack>>
    BY <1>4 DEF ForgetSession, BeginLoopSave, ToDisk, QuietIteration, Crash, PowerOff, Die,
                StartThrows, vars, timeVars
  <2> QED
    BY <2>1, PeriodsUnchanged
<1> QED
  BY <1>1, <1>2, <1>3, <1>4, PeriodsUnchanged DEF Next

LEMMA PeriodsHold == Spec => []PeriodsInv
<1>1. Init => PeriodsInv
  BY PeriodsInit DEF Init
<1>2. PeriodsInv /\ [Next]_vars => PeriodsInv'
  BY PeriodsStep
<1> QED
  BY <1>1, <1>2, PTL DEF Spec

(* Each row of States tells the length of its period, but for what INSERTs *)
(* took and the clock was set by; no time is counted in two periods        *)
(* (controller.cpp:160-177).                                               *)
THEOREM Durations == Spec => []DurationsAreReal
<1>1. PeriodsInv => DurationsAreReal
  BY DEF PeriodsInv
<1> QED
  BY <1>1, PeriodsHold, PTL

-----------------------------------------------------------------------------
(* The history. *)

(* Whose statement it is, and that it is the one the request asked for.    *)
IsAsked(x, r) ==
  /\ x.q.table = Asked(r).table /\ x.q.on = Asked(r).on
  /\ x.q.where = Asked(r).where /\ x.q.average = Asked(r).average

AskedInv ==
  \A w \in Workers : query[w] # None =>
    /\ pc[w] \in {"query", "done"}
    /\ request[w] \in Requests /\ request[w].route \in HistoryRoutes
    /\ IsAsked(query[w], request[w])

HistoryInv == WorkersInv /\ PeriodTypes /\ QueriesInv /\ AskedInv

LEMMA AskedIsAStatement ==
  ASSUME NEW r \in Requests, r.route \in HistoryRoutes
  PROVE  Asked(r) \in Statement
<1> DEFINE start == r.args.startDate
           end == r.args.endDate
<1>1. start \in Dates /\ end \in Dates
  <2>1. start \in ClientDates /\ end \in ClientDates
    BY RequestsAssumption
  <2> QED
    BY <2>1 DEF ClientDates, Dates
<1>2. /\ NoDate \in Dates /\ First \in Dates /\ Now \in Dates
      /\ Past24h \in [from: Dates, to: Dates] /\ OfToday \in [from: Dates, to: Dates]
  BY DEF NoDate, First, Now, Past24h, OfToday, Dates
<1> HIDE DEF start, end
<1>3. Range(r.route, start, end) \in [from: Dates, to: Dates]
  BY <1>1, <1>2 DEF Range, Between
<1>4. (r.args.state = "on") \in BOOLEAN
      /\ (r.route \in {"/temperature/getAverage", "/state/getAverage"}) \in BOOLEAN
  OBVIOUS
<1> QED
  BY <1>3, <1>4 DEF Asked, Statement, start, end

(* The steps in which a statement begins, reads, or is thrown away. *)
Begins(w) == Goto(w, "handler", "query") /\ request[w].route \in HistoryRoutes
             /\ Prepare(w, Asked(request[w])) /\ UNCHANGED <<rows, request>>
Reads(w) == pc[w] = "query" /\ (queryDBStep(w) \/ StepFails(w))
            /\ UNCHANGED <<rows, pc, request>>
Leaves(w) == pc' = [pc EXCEPT ![w] = "idle"] /\ query' = [query EXCEPT ![w] = None]
             /\ request' = [request EXCEPT ![w] = None] /\ UNCHANGED rows
Elsewhere ==
  /\ UNCHANGED <<rows, query>>
  /\ \A w \in Workers : pc[w] \in {"query", "done"} =>
       pc'[w] \in {"query", "done"} /\ request'[w] = request[w]

LEMMA HistorySteps ==
  ASSUME WorkersInv, [Next]_vars
  PROVE  \/ Writer \/ Elsewhere
         \/ (\A w \in Workers : query'[w] = None) /\ query' \in [Workers -> {None}] /\ UNCHANGED rows
         \/ \E w \in Workers : Begins(w) \/ Reads(w) \/ Leaves(w)
<1>1. ASSUME NEW w \in Workers,
             \/ \E r \in Requests : Receive(w, r)
             \/ BeforeHandle(w) \/ EndAuth(w) \/ EndShutdown(w) \/ AnswerHistory(w)
      PROVE  Elsewhere
  BY <1>1 DEF Receive, BeforeHandle, EndAuth, EndShutdown, AnswerHistory, Goto, writerVars,
              Elsewhere, WorkersInv
<1>2. ASSUME NEW w \in Workers, Handler(w), ~History(w)
      PROVE  Elsewhere
  <2>1. UNCHANGED <<rows, query>>
    BY <1>2 DEF Handler, BeginAuth, Pages, SetParams, BeginShutdown, Handles, writerVars
  <2>2. Handled(w)
    BY <1>2, HandlerSteps
  <2> QED
    BY <2>1, <2>2 DEF Handled, Elsewhere, WorkersInv
<1>3. ASSUME NEW w \in Workers, History(w)
      PROVE  Begins(w)
  BY <1>3 DEF History, Begins, writerVars
<1>4. ASSUME NEW w \in Workers, ReadHistory(w, queryDBStep(w)) \/ QueryFails(w)
      PROVE  Reads(w)
  BY <1>4 DEF ReadHistory, QueryFails, Reads, writerVars, workerVars
<1>5. ASSUME NEW w \in Workers, Reply(w)
      PROVE  Leaves(w)
  BY <1>5 DEF Reply, Goto, Leaves, writerVars
<1>6. ASSUME Die
      PROVE  (\A w \in Workers : query'[w] = None) /\ query' \in [Workers -> {None}] /\ UNCHANGED rows
  BY <1>6 DEF Die, EndRun, writerVars
<1>7. ASSUME \/ ForgetSession \/ BeginLoopSave \/ QuietIteration \/ Restart \/ StartThrows
             \/ UNCHANGED vars \/ (\E s \in Savers : ToDisk(s))
      PROVE  Elsewhere
  BY <1>7 DEF ForgetSession, BeginLoopSave, ToDisk, QuietIteration, Restart, StartThrows, vars,
              writerVars, workerVars, Elsewhere
<1>8. ASSUME PowerOff
      PROVE  Die \/ Elsewhere
  BY <1>8 DEF PowerOff, writerVars, workerVars, Elsewhere
<1> QED
  BY <1>1, <1>2, <1>3, <1>4, <1>5, <1>6, <1>7, <1>8 DEF Next, Serve, Crash, Abort, Savers

LEMMA WriterKeepsQueries ==
  ASSUME QueriesInv, PeriodTypes, Writer
  PROVE  QueriesInv'
<1>1. CASE InsertTemp
  <2> DEFINE row == [table |-> "Temperatures", on |-> FALSE, at |-> clock,
                     duration |-> 0, real |-> 0]
  <2>1. row \in Row
    BY DEF Row, PeriodTypes
  <2>2. Insert(row) /\ UNCHANGED query
    BY <1>1 DEF InsertTemp
  <2> QED
    BY <2>1, <2>2, RowsArrive
<1>2. CASE InsertState
  <2> DEFINE row == [table |-> "States", on |-> ~on, at |-> clock,
                     duration |-> clock - stateTime, real |-> period]
  <2>1. row \in Row
    BY DEF Row, PeriodTypes
  <2>2. Insert(row) /\ UNCHANGED query
    BY <1>2 DEF InsertState
  <2> QED
    BY <2>1, <2>2, RowsArrive
<1>3. CASE SwitchRelay \/ RestartPeriod \/ Tick \/ Correct
  <2>1. UNCHANGED <<rows, query>>
    BY <1>3 DEF SwitchRelay, RestartPeriod, Tick, Correct, writerVars
  <2> QED
    BY <2>1, QueriesUnchanged
<1> QED
  BY <1>1, <1>2, <1>3 DEF Writer

LEMMA BeginKeepsHistory ==
  ASSUME HistoryInv, NEW w \in Workers, Begins(w)
  PROVE  QueriesInv' /\ AskedInv'
<1> DEFINE r == request[w]
<1>1. r \in Requests /\ r.route \in HistoryRoutes
  BY DEF HistoryInv, WorkersInv, Begins, Goto
<1>2. QueriesInv'
  BY <1>1, AskedIsAStatement, StatementBegins DEF HistoryInv, PeriodTypes, Begins
<1> DEFINE begun(status) ==
             [q |-> [table |-> Asked(r).table, on |-> Asked(r).on, where |-> Asked(r).where,
                     average |-> Asked(r).average, now |-> clock],
              known |-> Len(rows), done |-> status # "0", status |-> status,
              data |-> <<>>, cursor |-> 0]
<1>7. PICK status \in {"0", "error"} : query' = [query EXCEPT ![w] = begun(status)]
  BY DEF Begins, Prepare
<1> DEFINE y == begun(status)
<1>3. query' = [query EXCEPT ![w] = y] /\ IsAsked(y, r)
  BY <1>7 DEF IsAsked
<1>4. query'[w] = y /\ \A v \in Workers \ {w} : query'[v] = query[v]
  BY <1>3 DEF HistoryInv, QueriesInv
<1>5. request' = request /\ pc'[w] = "query" /\ \A v \in Workers \ {w} : pc'[v] = pc[v]
  BY DEF HistoryInv, WorkersInv, Begins, Goto
<1>6. \A v \in Workers : IsAsked(query[v], request[v])' <=> IsAsked(query'[v], request[v])
  BY <1>5 DEF IsAsked, Asked
<1> QED
  BY <1>1, <1>2, <1>3, <1>4, <1>5, <1>6 DEF AskedInv, HistoryInv

(* The statement itself is what it was, whatever it has read. *)
LEMMA ReadKeepsHistory ==
  ASSUME HistoryInv, NEW w \in Workers, Reads(w)
  PROVE  QueriesInv' /\ AskedInv'
<1>1. QueriesInv'
  BY RowIsRead, AverageIsRead, StatementEnds DEF HistoryInv, Reads, queryDBStep
<1>2. query[w] # None /\ query[w] \in Query
  BY DEF HistoryInv, QueriesInv, Reads, queryDBStep, StepRow, StepAverage, StepDone, StepFails,
         Executing
<1>3. \A v \in Workers \ {w} : query'[v] = query[v]
  BY DEF HistoryInv, QueriesInv, Reads, queryDBStep, StepRow, StepAverage, StepDone, StepFails
<1>4. query'[w].q = query[w].q
  <2>1. CASE StepRow(w)
    <3>1. PICK k : query' = [query EXCEPT ![w].data = Append(@, {k}), ![w].cursor = k]
      BY <2>1 DEF StepRow
    <3> QED
      BY <1>2, <3>1 DEF HistoryInv, QueriesInv, Query
  <2>2. CASE StepAverage(w) \/ StepDone(w) \/ StepFails(w)
    BY <1>2, <2>2 DEF HistoryInv, QueriesInv, StepAverage, StepDone, StepFails, Query
  <2> QED
    BY <2>1, <2>2 DEF Reads, queryDBStep
<1>5. UNCHANGED <<pc, request>>
  BY DEF Reads
<1>6. \A v \in Workers : IsAsked(query'[v], request[v]) <=> IsAsked(query[v], request[v])
  BY <1>3, <1>4 DEF IsAsked
<1> QED
  BY <1>1, <1>2, <1>3, <1>5, <1>6 DEF AskedInv, HistoryInv, IsAsked, Asked

LEMMA HistoryStep ==
  ASSUME HistoryInv, [Next]_vars
  PROVE  QueriesInv' /\ AskedInv'
<1>1. CASE Writer
  <2>1. UNCHANGED <<query, pc, request>>
    BY <1>1 DEF Writer, InsertTemp, SwitchRelay, InsertState, RestartPeriod, Tick, Correct,
                workerVars
  <2> QED
    BY <1>1, <2>1, WriterKeepsQueries DEF HistoryInv, AskedInv, IsAsked, Asked
<1>2. CASE Elsewhere
  <2>1. QueriesInv'
    BY <1>2, QueriesUnchanged DEF Elsewhere, HistoryInv
  <2> QED
    BY <1>2, <2>1 DEF Elsewhere, HistoryInv, AskedInv, IsAsked, Asked
<1>3. CASE (\A w \in Workers : query'[w] = None) /\ query' \in [Workers -> {None}] /\ UNCHANGED rows
  BY <1>3 DEF HistoryInv, QueriesInv, AskedInv
<1>4. ASSUME NEW w \in Workers, Leaves(w)
      PROVE  QueriesInv' /\ AskedInv'
  <2>1. QueriesInv'
    BY <1>4, OneQuery DEF Leaves, HistoryInv
  <2>2. query'[w] = None
    BY <1>4 DEF Leaves, HistoryInv, QueriesInv
  <2>3. \A v \in Workers \ {w} : query'[v] = query[v] /\ pc'[v] = pc[v] /\ request'[v] = request[v]
    BY <1>4 DEF Leaves, HistoryInv, QueriesInv, WorkersInv
  <2> QED
    BY <2>1, <2>2, <2>3 DEF HistoryInv, AskedInv, IsAsked, Asked
<1> QED
  BY <1>1, <1>2, <1>3, <1>4, HistorySteps, BeginKeepsHistory, ReadKeepsHistory DEF HistoryInv

LEMMA HistoryHolds == Spec => []HistoryInv
<1>1. Init => HistoryInv
  <2> SUFFICES ASSUME Init
               PROVE  HistoryInv
    OBVIOUS
  <2>1. WorkersInv /\ PeriodTypes
    BY AccessInit, PeriodsInit DEF AccessInv, PeriodsInv, Init
  <2>2. QueriesInv /\ AskedInv
    BY <2>1 DEF Init, DataBaseInit, QueriesInv, AskedInv, PeriodTypes
  <2> QED
    BY <2>1, <2>2 DEF HistoryInv
<1>2. HistoryInv /\ AccessInv' /\ PeriodsInv' /\ [Next]_vars => HistoryInv'
  BY HistoryStep DEF HistoryInv, AccessInv, PeriodsInv
<1> QED
  BY <1>1, <1>2, AccessHolds, PeriodsHold, PTL DEF Spec

(* Days. *)
LEMMA DayBounds ==
  ASSUME NEW t \in Int
  PROVE  /\ Day(t) \in Int /\ DayStart(t) \in Int
         /\ DayStart(t) <= t /\ t < DayStart(t) + DayLength
BY DayAssumption DEF Day, DayStart

LEMMA TimesMonotone ==
  ASSUME NEW n \in Nat, NEW a \in Int, NEW b \in Int, a <= b
  PROVE  n * a <= n * b
OBVIOUS

LEMMA DayOrder ==
  ASSUME NEW t \in Int, NEW u \in Int
  PROVE  /\ Day(t) <= Day(u) <=> DayStart(t) <= u
         /\ Day(t) <= Day(u) => DayStart(t) <= DayStart(u)
<1> DEFINE a == Day(t)
           b == Day(u)
<1>1. a \in Int /\ b \in Int /\ DayLength \in Nat
  BY DayBounds, DayAssumption
<1>2. DayStart(t) = DayLength * a /\ DayStart(u) = DayLength * b
  BY DEF DayStart
<1>3. DayLength * b <= u /\ u < DayLength * b + DayLength
  BY <1>2, DayBounds
<1> HIDE DEF a, b
<1>4. DayLength * a \in Int /\ DayLength * b \in Int /\ DayLength * (b + 1) = DayLength * b + DayLength
  BY <1>1
<1>5. a <= b => DayLength * a <= DayLength * b
  BY <1>1, TimesMonotone
<1>6. b + 1 <= a => DayLength * (b + 1) <= DayLength * a
  BY <1>1, TimesMonotone
<1>7. a <= b \/ b + 1 <= a
  BY <1>1
<1>8. ~(a <= b /\ b + 1 <= a)
  BY <1>1
<1> DEFINE A == DayLength * a
           B == DayLength * b
<1>9. A \in Int /\ B \in Int /\ B <= u /\ u < B + DayLength
      /\ (a <= b => A <= B) /\ (b + 1 <= a => B + DayLength <= A)
  BY <1>3, <1>4, <1>5, <1>6
<1> HIDE DEF A, B
<1>10. (a <= b <=> A <= u) /\ (a <= b => A <= B)
  BY <1>1, <1>7, <1>8, <1>9
<1> QED
  BY <1>2, <1>10 DEF a, b, A, B

(* What the statement of each route selects is what a client asks for. *)
LEMMA RangesAreRight ==
  ASSUME NEW r \in Requests, r.route \in HistoryRoutes, NEW row \in Row, NEW now \in Int
  PROVE  LET q == Asked(r)
             selected == /\ row.table = q.table
                         /\ q.table = "States" => row.on = q.on
                         /\ InRange(row.at, q.where, now)
         IN  /\ Wanted(r, row, now) /\ Kept(r, row, now) => selected
             /\ selected => Wanted(r, row, now) \/ now < row.at
<1> DEFINE start == r.args.startDate
           end == r.args.endDate
           at == row.at
           where == Range(r.route, start, end)
           begins == start.kind = "" \/ (start.kind = "date" /\ start.at <= at)
           ends == \/ end.kind = "" /\ Day(at) <= Day(now)
                   \/ end.kind = "date" /\ Day(at) <= Day(end.at)
           asked == IF AsksFor24h(r) THEN now - DayLength < at
                    ELSE IF start.kind = "" /\ end.kind = "" THEN Day(at) = Day(now)
                    ELSE begins /\ ends
           ofTable == /\ row.table = Asked(r).table
                      /\ Asked(r).table = "States" => row.on = Asked(r).on
<1>1. start \in ClientDates /\ end \in ClientDates
  BY RequestsAssumption
<1>2. /\ start.kind \in {"", "24h", "date", "other"} /\ start.at \in Int
      /\ end.kind \in {"", "24h", "date", "other"} /\ end.at \in Int
      /\ at \in Int /\ row.table \in {"Temperatures", "States"}
  BY <1>1 DEF ClientDates, Row
<1>3. Asked(r).where = where
  BY DEF Asked
<1>4. Wanted(r, row, now) <=> ofTable /\ asked
  BY <1>2 DEF Wanted, Asked
<1>5. Kept(r, row, now) <=> /\ AsksFor24h(r) => Day(now) <= Day(at)
                            /\ start.kind = "date" => start.at = DayStart(start.at)
  BY DEF Kept
<1>6. AsksFor24h(r) <=> \/ start.kind = "24h"
                        \/ /\ start.kind = "" /\ end.kind = ""
                           /\ r.route # "/temperature/getAverage"
  BY DEF AsksFor24h
<1> HIDE DEF start, end, at
<1>7. /\ asked /\ Kept(r, row, now) => InRange(at, where, now)
      /\ InRange(at, where, now) => asked
  <2>1. CASE AsksFor24h(r)
    <3>1. where = Past24h
      BY <1>6, <2>1 DEF Range
    <3>2. InRange(at, where, now) <=> Day(now) - 1 < Day(at)
      BY <3>1 DEF InRange, Past24h
    <3>3. Day(now) \in Int /\ Day(at) \in Int
      BY <1>2, DayBounds
    <3>4. Day(now) - 1 < Day(at) <=> Day(now) <= Day(at)
      BY <3>3
    <3>5. Day(now) <= Day(at) => now - DayLength < at
      <4>1. Day(now) <= Day(at) => DayStart(now) <= at
        BY <1>2, DayOrder
      <4>2. DayStart(now) \in Int /\ now < DayStart(now) + DayLength
        BY DayBounds
      <4>3. \A b, n, a \in Int : b <= a /\ now < b + n => now - n < a
        OBVIOUS
      <4>4. at \in Int
        BY <1>2
      <4>5. DayLength \in Int
        BY DayAssumption
      <4> QED
        BY <4>1, <4>2, <4>3, <4>4, <4>5
    <3> QED
      BY <1>5, <2>1, <3>2, <3>4, <3>5
  <2>2. CASE ~AsksFor24h(r) /\ start.kind = "" /\ end.kind = ""
    <3>1. where = OfToday
      BY <1>6, <2>2 DEF Range
    <3>2. InRange(at, where, now) <=> Day(at) = Day(now)
      BY <3>1 DEF InRange, OfToday
    <3> QED
      BY <2>2, <3>2
  <2>3. CASE ~AsksFor24h(r) /\ ~(start.kind = "" /\ end.kind = "")
    <3> DEFINE from == IF start.kind = "" THEN First ELSE start
               to == IF end.kind = "" THEN Now ELSE end
    <3>1. start.kind # "24h" /\ where = Between(from, to)
      BY <1>6, <2>3 DEF Range
    <3>2. from.kind \notin {"24h", "today"}
      BY <1>2, <3>1 DEF First
    <3>3. InRange(at, where, now) <=> NotBefore(at, from, now) /\ NotAfter(at, to, now)
      <4> HIDE DEF from, to, where
      <4>1. where.from = from /\ where.to = to
        BY <3>1 DEF Between
      <4>2. where.from.kind \notin {"24h", "today"}
        BY <3>2, <4>1
      <4>3. InRange(at, where, now) <=> NotBefore(at, where.from, now) /\ NotAfter(at, where.to, now)
        BY <4>2 DEF InRange
      <4> QED
        BY <4>1, <4>3
    <3>4. NotAfter(at, to, now) <=> ends
      <4>1. Day(at) <= Day(now) <=> DayStart(at) <= now
        BY <1>2, DayOrder
      <4>2. Day(at) <= Day(end.at) <=> DayStart(at) <= end.at
        BY <1>2, DayOrder
      <4> QED
        BY <1>2, <4>1, <4>2 DEF NotAfter, Now
    <3>5. NotBefore(at, from, now) => begins
      <4>1. DayStart(at) \in Int /\ DayStart(at) <= at /\ at \in Int
        BY <1>2, DayBounds
      <4>2. \A t \in Int : t <= DayStart(at) => t <= at
        BY <4>1
      <4> QED
        BY <1>2, <3>1, <4>2 DEF NotBefore, First
    <3>6. begins /\ Kept(r, row, now) => NotBefore(at, from, now)
      <4>1. CASE start.kind = ""
        BY <4>1 DEF NotBefore, First
      <4>2. CASE start.kind = "date"
        <5>1. DayStart(start.at) <= at => DayStart(start.at) <= DayStart(at)
          BY <1>2, DayOrder
        <5> QED
          BY <1>5, <4>2, <5>1 DEF NotBefore
      <4> QED
        BY <4>1, <4>2
    <3> QED
      BY <2>3, <3>3, <3>4, <3>5, <3>6
  <2> QED
    BY <2>1, <2>2, <2>3
<1>8. InRange(row.at, Asked(r).where, now) <=> InRange(at, where, now)
  BY <1>3 DEF at
<1> HIDE DEF where, asked, ofTable
<1> QED
  BY <1>4, <1>7, <1>8 DEF ofTable

(* An answer whose status is 0 has what was asked for and is kept, as far  *)
(* as it was there when the statement was prepared, in order, and nothing  *)
(* else but what the clock is set before; whatever the dates are           *)
(* (database.h:63-194, site.cpp:154-349).                                  *)
THEOREM CompleteAnswers == Spec => []AnswersAreComplete
<1>1. HistoryInv => AnswersAreComplete
  <2> SUFFICES ASSUME HistoryInv, NEW w \in Workers, Answered(w)
               PROVE  LET data == query[w].data
                          now == query[w].q.now
                      IN  /\ \A k \in 1..query[w].known :
                               Wanted(request[w], rows[k], now) /\ Kept(request[w], rows[k], now)
                                 => k \in Found(w)
                          /\ \A k \in Found(w) : Wanted(request[w], rows[k], now) \/ now < rows[k].at
                          /\ \A i, j \in 1..Len(data) : i < j =>
                               \A a \in data[i], b \in data[j] : a < b
    BY DEF AnswersAreComplete
  <2> DEFINE x == query[w]
             r == request[w]
             now == x.q.now
             found == Found(w)
  <2>1. /\ x \in Query /\ ReadSoFar(x) /\ r \in Requests /\ r.route \in HistoryRoutes
        /\ IsAsked(x, r) /\ x.done /\ x.status = "0"
    BY DEF HistoryInv, QueriesInv, AskedInv, Answered
  <2>2. now \in Int /\ x.known \in Nat /\ x.known <= Len(rows) /\ rows \in Seq(Row)
    BY <2>1 DEF Query, Begun, ReadSoFar, HistoryInv, QueriesInv
  <2>3. ASSUME NEW k \in 1..Len(rows)
        PROVE  /\ Wanted(r, rows[k], now) /\ Kept(r, rows[k], now) => k \in Selected(x.q)
               /\ k \in Selected(x.q) => Wanted(r, rows[k], now) \/ now < rows[k].at
    <3>1. rows[k] \in Row
      BY <2>2
    <3> QED
      BY <2>1, <2>2, <3>1, RangesAreRight DEF Selected, IsAsked
  <2>4. Selected(x.q) \subseteq 1..Len(rows)
    BY <2>2, SelectedRows
  <2>5. \A a \in Selected(x.q) : a <= x.known => a \in found
    BY <2>1 DEF ReadSoFar, Finished, AllKnown, Found
  <2>6. \A a \in found : a \in Selected(x.q)
    BY <2>1 DEF ReadSoFar, OnlySelected, Found
  <2>7. \A k \in 1..x.known : k \in 1..Len(rows) /\ k <= x.known
    BY <2>2
  <2>8. InOrder(x)
    BY <2>1 DEF ReadSoFar
  <2> HIDE DEF found
  <2>9. \A k \in 1..x.known : Wanted(r, rows[k], now) /\ Kept(r, rows[k], now) => k \in found
    BY <2>3, <2>5, <2>7
  <2>10. \A k \in found : Wanted(r, rows[k], now) \/ now < rows[k].at
    BY <2>3, <2>4, <2>6
  <2> QED
    BY <2>8, <2>9, <2>10 DEF InOrder, found
<1> QED
  BY <1>1, HistoryHolds, PTL

-----------------------------------------------------------------------------
(* The types. *)

Saves == [step: {"read", "open", "write"}, band: Bands]

FileTypes ==
  /\ parametersFile \in [text: {"none", "whole", "mixed"}, band: Bands]
  /\ saving \in [Savers -> Saves \cup {None}]

(* What the run of the program and its clients change beside the rows, the *)
(* statements and the workers.                                             *)
StoredTypes ==
  /\ offset \in Int /\ left \in [Events -> Nat]
  /\ since \in [Tokens -> Int \cup {None}]
  /\ minTemp \in Temps /\ maxTemp \in Temps /\ FileTypes
  /\ powerOff \in BOOLEAN
  /\ held \in [Workers -> Tokens \cup {None}]

LEMMA SpendType ==
  ASSUME left \in [Events -> Nat], NEW event \in Events, Spend(event)
  PROVE  left' \in [Events -> Nat]
BY DEF Spend

(* Whatever races leave in the file is a band of temperatures, if it parses. *)
LEMMA SaveTypes ==
  ASSUME FileTypes, minTemp \in Temps, maxTemp \in Temps, NEW s \in Savers,
         BeginSave(s) \/ ReadOtherBound(s) \/ OpenFile(s) \/ WriteFile(s)
  PROVE  FileTypes'
<1> USE DEF FileTypes
<1>1. CASE BeginSave(s)
  <2>1. [step |-> "read", band |-> <<minTemp, maxTemp>>] \in Saves
    BY DEF Saves, Bands
  <2> QED
    BY <1>1, <2>1 DEF BeginSave
<1>2. CASE ReadOtherBound(s)
  <2>1. saving[s] \in Saves
    BY <1>2 DEF ReadOtherBound, SavesAt
  <2>2. PICK band \in {<<minTemp, saving[s].band[2]>>, <<saving[s].band[1], maxTemp>>} :
          saving' = [saving EXCEPT ![s] = [step |-> "open", band |-> band]]
    BY <1>2 DEF ReadOtherBound
  <2>3. band \in Bands
    BY <2>1 DEF Saves, Bands
  <2>4. [step |-> "open", band |-> band] \in Saves
    BY <2>3 DEF Saves
  <2> QED
    BY <1>2, <2>2, <2>4 DEF ReadOtherBound
<1>3. CASE OpenFile(s)
  <2>1. saving[s] \in Saves
    BY <1>3 DEF OpenFile, SavesAt
  <2>2. [saving[s] EXCEPT !.step = "write"] \in Saves
    BY <2>1 DEF Saves
  <2>3. saving' = [saving EXCEPT ![s] = [saving[s] EXCEPT !.step = "write"]]
    BY <1>3 DEF OpenFile
  <2> QED
    BY <1>3, <2>2, <2>3 DEF OpenFile
<1>4. CASE WriteFile(s)
  <2>1. saving[s] \in Saves
    BY <1>4 DEF WriteFile, SavesAt
  <2>2. PICK text \in {"whole", "mixed"} : parametersFile' = [text |-> text, band |-> saving[s].band]
    BY <1>4 DEF WriteFile
  <2> QED
    BY <1>4, <2>1, <2>2 DEF WriteFile, Saves
<1> QED
  BY <1>1, <1>2, <1>3, <1>4

(* No request sets a bound that is not a temperature. *)
LEMMA SetParamsTypes ==
  ASSUME WorkersInv, StoredTypes, NEW w \in Workers, SetParams(w)
  PROVE  minTemp' \in Temps /\ maxTemp' \in Temps
<1> DEFINE args == request[w].args
<1>1. args \in [minTemp: Value, maxTemp: Value]
  BY RequestsAssumption DEF WorkersInv, SetParams, Handles, Goto
<1>2. \A v \in Value : v.kind = "number" => v.temp \in Temps
  BY DEF Value, Missing, Null, Text, Number
<1>3. /\ minTemp' = IF ~Throws(args) /\ "minTemp" \in Setter(args) THEN args.minTemp.temp ELSE minTemp
      /\ maxTemp' = IF ~Throws(args) /\ "maxTemp" \in Setter(args) THEN args.maxTemp.temp ELSE maxTemp
  BY DEF SetParams
<1> HIDE DEF args
<1>4. args["minTemp"] = args.minTemp /\ args["maxTemp"] = args.maxTemp
  OBVIOUS
<1>5. ~Throws(args) /\ "minTemp" \in Setter(args) => args.minTemp.temp \in Temps
  BY <1>1, <1>2, <1>4 DEF Throws
<1>6. ~Throws(args) /\ "maxTemp" \in Setter(args) => args.maxTemp.temp \in Temps
  BY <1>1, <1>2, <1>4 DEF Throws
<1> QED
  BY <1>3, <1>5, <1>6 DEF StoredTypes

LEMMA HandlerKeepsTypes ==
  ASSUME WorkersInv, PeriodTypes, StoredTypes, NEW w \in Workers, Handler(w)
  PROVE  StoredTypes'
<1> USE DEF StoredTypes
<1>1. CASE BeginAuth(w)
  <2>1. UNCHANGED <<offset, left, bandVars>>
    BY <1>1 DEF BeginAuth, Handles, timeVars
  <2>2. since' \in [Tokens -> Int \cup {None}] /\ held' \in [Workers -> Tokens \cup {None}]
    BY <1>1 DEF BeginAuth, Auth!Login, PeriodTypes
  <2> QED
    BY <2>1, <2>2 DEF bandVars, fileVars, FileTypes
<1>2. CASE Pages(w)
  BY <1>2 DEF Pages, Handles, timeVars, bandVars, fileVars, FileTypes
<1>3. CASE SetParams(w)
  <2>1. UNCHANGED <<offset, left, since, fileVars, powerOff, held>>
    BY <1>3 DEF SetParams, Handles, timeVars
  <2> QED
    BY <1>3, <2>1, SetParamsTypes DEF fileVars, FileTypes
<1>4. CASE BeginShutdown(w)
  <2>1. FileTypes'
    BY <1>4, SaveTypes DEF BeginShutdown, Savers
  <2> QED
    BY <1>4, <2>1 DEF BeginShutdown, Handles, timeVars
<1>5. CASE History(w)
  BY <1>5 DEF History, timeVars, bandVars, fileVars, FileTypes
<1> QED
  BY <1>1, <1>2, <1>3, <1>4, <1>5 DEF Handler

LEMMA ToDiskKeepsTypes ==
  ASSUME StoredTypes, NEW s \in Savers, ToDisk(s)
  PROVE  StoredTypes'
<1>1. FileTypes'
  BY SaveTypes DEF StoredTypes, ToDisk
<1> QED
  BY <1>1 DEF StoredTypes, ToDisk, timeVars, workerVars

LEMMA DieKeepsTypes ==
  ASSUME StoredTypes, Die, UNCHANGED left, powerOff' \in BOOLEAN
  PROVE  StoredTypes'
<1>1. FileTypes'
  BY DEF StoredTypes, FileTypes, Die
<1> QED
  BY <1>1 DEF StoredTypes, Die, Auth!Stop, timeVars

LEMMA WriterKeepsTypes ==
  ASSUME StoredTypes, Writer
  PROVE  StoredTypes'
<1>1. UNCHANGED <<since, bandVars, held>>
  BY DEF Writer, workerVars
<1>2. offset' \in Int /\ left' \in [Events -> Nat]
  <2> USE DEF StoredTypes
  <2>1. CASE InsertTemp \/ SwitchRelay
    BY <2>1, SpendType DEF InsertTemp, SwitchRelay, timeVars, Events
  <2>2. CASE InsertState \/ RestartPeriod
    BY <2>2 DEF InsertState, RestartPeriod, timeVars
  <2>3. CASE Tick
    BY <2>3, SpendType DEF Tick, Events
  <2>4. CASE Correct
    BY <2>4, SpendType DEF Correct, Events
  <2> QED
    BY <2>1, <2>2, <2>3, <2>4 DEF Writer
<1> QED
  BY <1>1, <1>2 DEF StoredTypes, bandVars, fileVars, FileTypes

LEMMA TypesStep ==
  ASSUME WorkersInv, PeriodTypes, StoredTypes, [Next]_vars
  PROVE  StoredTypes'
<1> USE DEF StoredTypes
<1>1. ASSUME NEW w \in Workers, NEW r \in Requests, Receive(w, r)
      PROVE  StoredTypes'
  <2>1. left' \in [Events -> Nat]
    BY <1>1, SpendType DEF Receive, Events
  <2> QED
    BY <1>1, <2>1 DEF Receive, timeVars, bandVars, fileVars, FileTypes
<1>2. ASSUME NEW w \in Workers, BeforeHandle(w)
      PROVE  StoredTypes'
  BY <1>2 DEF BeforeHandle, Auth!Verify, timeVars, bandVars, fileVars, FileTypes
<1>3. ASSUME NEW w \in Workers,
             ReadHistory(w, queryDBStep(w)) \/ QueryFails(w) \/ AnswerHistory(w) \/ Reply(w)
      PROVE  StoredTypes'
  BY <1>3 DEF ReadHistory, QueryFails, AnswerHistory, Reply, timeVars, bandVars, fileVars,
              FileTypes, workerVars
<1>4. ASSUME NEW w \in Workers, EndAuth(w)
      PROVE  StoredTypes'
  BY <1>4 DEF EndAuth, timeVars, bandVars, fileVars, FileTypes
<1>5. ASSUME NEW w \in Workers, EndShutdown(w)
      PROVE  StoredTypes'
  BY <1>5 DEF EndShutdown, timeVars, fileVars, FileTypes
<1>6. CASE ForgetSession
  <2>1. PICK tok \in Tokens : /\ Auth!Forget(tok)
                              /\ held' = [w \in Workers |-> IF held[w] = tok THEN None ELSE held[w]]
    BY <1>6 DEF ForgetSession
  <2>2. since' \in [Tokens -> Int \cup {None}] /\ held' \in [Workers -> Tokens \cup {None}]
    BY <2>1 DEF Auth!Forget
  <2> QED
    BY <1>6, <2>2 DEF ForgetSession, timeVars, bandVars, fileVars, FileTypes
<1>7. CASE BeginLoopSave
  <2>1. left' \in [Events -> Nat]
    BY <1>7, SpendType DEF BeginLoopSave, Events
  <2>2. FileTypes'
    BY <1>7, SaveTypes DEF BeginLoopSave, Savers
  <2> QED
    BY <1>7, <2>1, <2>2 DEF BeginLoopSave, timeVars, workerVars
<1>8. CASE Crash
  <2>1. left' \in [Events -> Nat]
    BY <1>8, SpendType DEF Crash, Events
  <2>2. FileTypes'
    BY <1>8 DEF FileTypes, Crash, Die
  <2> QED
    BY <1>8, <2>1, <2>2 DEF Crash, Die, Auth!Stop, timeVars
<1>9. ASSUME NEW w \in Workers, Abort(w)
      PROVE  StoredTypes'
  BY <1>9, DieKeepsTypes DEF Abort
<1>10. CASE PowerOff
  <2>1. CASE Die
    BY <1>10, <2>1, DieKeepsTypes DEF PowerOff
  <2>2. CASE ~Die
    BY <1>10, <2>2 DEF PowerOff, timeVars, fileVars, FileTypes, workerVars
  <2> QED
    BY <2>1, <2>2
<1>11. CASE Restart
  <2>1. minTemp' \in Temps /\ maxTemp' \in Temps
    BY <1>11 DEF Restart, FileTypes, Bands
  <2> QED
    BY <1>11, <2>1 DEF Restart, Auth!Restart, Auth!NoSessions, timeVars, fileVars, FileTypes,
                       workerVars
<1>12. CASE QuietIteration \/ StartThrows \/ UNCHANGED vars
  BY <1>12 DEF QuietIteration, StartThrows, vars, timeVars, bandVars, fileVars, FileTypes, workerVars
<1>13. ASSUME NEW w \in Workers, Serve(w)
       PROVE  StoredTypes'
  BY <1>2, <1>3, <1>4, <1>5, <1>9, <1>13, HandlerKeepsTypes, ToDiskKeepsTypes DEF Serve, Savers
<1>14. CASE ToDisk(Ctl)
  BY <1>14, ToDiskKeepsTypes DEF Savers
<1> QED
  BY <1>1, <1>3, <1>6, <1>7, <1>8, <1>10, <1>11, <1>12, <1>13, <1>14, WriterKeepsTypes DEF Next

LEMMA TypesHold == Spec => []StoredTypes
<1>1. Init => StoredTypes
  <2> SUFFICES ASSUME Init
               PROVE  StoredTypes
    OBVIOUS
  <2>1. PICK band \in SavedBands : /\ parametersFile = [text |-> "whole", band |-> band]
                                   /\ minTemp = band[1] /\ maxTemp = band[2]
    BY DEF Init
  <2>2. band \in Bands
    BY <2>1, BandsAssumption
  <2>3. minTemp \in Temps /\ maxTemp \in Temps
    BY <2>1, <2>2 DEF Bands
  <2>4. FileTypes
    BY <2>1, <2>2 DEF Init, FileTypes
  <2>5. since \in [Tokens -> Int \cup {None}]
    BY DEF Init, Auth!NoSessions
  <2>6. offset \in Int /\ left \in [Events -> Nat]
    BY BudgetsAssumption DEF Init, DataBaseInit
  <2>7. powerOff \in BOOLEAN /\ held \in [Workers -> Tokens \cup {None}]
    BY DEF Init
  <2> QED
    BY <2>3, <2>4, <2>5, <2>6, <2>7 DEF StoredTypes
<1>2. WorkersInv /\ PeriodTypes /\ StoredTypes /\ [Next]_vars => StoredTypes'
  BY TypesStep
<1>3. AccessInv /\ PeriodsInv => WorkersInv /\ PeriodTypes
  BY DEF AccessInv, PeriodsInv
<1> QED
  BY <1>1, <1>2, <1>3, AccessHolds, PeriodsHold, PTL DEF Spec

(* The state of the server keeps its types; in particular no statement     *)
(* reads beyond the end of its table or answers with more entries than it  *)
(* has rows, whatever is inserted meanwhile, and no client can make a      *)
(* bound of anything that is no temperature.                               *)
THEOREM TypeCorrect == Spec => []TypeOK
<1>1. HistoryInv /\ StoredTypes => TypeOK
  <2> SUFFICES ASSUME HistoryInv, StoredTypes
               PROVE  TypeOK
    OBVIOUS
  <2>1. ASSUME NEW w \in Workers, query[w] # None
        PROVE  /\ query[w].done \in BOOLEAN /\ query[w].status \in {"0", "error"}
               /\ query[w].known \in 0..Len(rows) /\ query[w].cursor \in 0..Len(rows)
               /\ Len(query[w].data) <= Len(rows)
    <3> DEFINE x == query[w]
               n == Len(x.data)
               m == Len(rows)
    <3>1. x \in Query /\ ReadSoFar(x) /\ rows \in Seq(Row)
      BY <2>1 DEF HistoryInv, QueriesInv
    <3>2. x.done \in BOOLEAN /\ x.status \in {"0", "error"} /\ x.known \in Nat /\ x.cursor \in Nat
          /\ n \in Nat /\ m \in Nat
      BY <3>1 DEF Query
    <3>3. x.known <= m /\ n <= x.cursor /\ x.cursor <= m
      BY <3>1 DEF ReadSoFar, WithinRows
    <3> HIDE DEF n, m, x
    <3>4. x.known \in 0..m /\ x.cursor \in 0..m /\ n <= m
      BY <3>2, <3>3
    <3> QED
      BY <3>2, <3>4 DEF n, m, x
  <2>2. DataBaseTypeOK
    BY <2>1 DEF HistoryInv, WorkersInv, PeriodTypes, StoredTypes, DataBaseTypeOK
  <2> QED
    BY <2>2 DEF HistoryInv, WorkersInv, StoredTypes, FileTypes, Saves, TypeOK
<1> QED
  BY <1>1, HistoryHolds, TypesHold, PTL
=============================================================================
