----------------------- MODULE HardwarelessController -----------------------
(***************************************************************************)
(* HardwarelessController (controller.cpp): the run() loop for a machine   *)
(* without a relay, where an atomic flag stands for it.                    *)
(***************************************************************************)
EXTENDS Controller

VARIABLES
  stateRow,  \* the state in the last row of table States, this run
  rowLost    \* did an INSERT INTO States fail in this run?

logVars == <<stateRow, rowLost>>
vars == <<controllerVars, logVars>>

Start == Construct("check") /\ stateRow' = "none" /\ rowLost' = FALSE

StartFails == ConstructThrows /\ UNCHANGED logVars

Crash == Die /\ UNCHANGED logVars

ReadSensor == CheckTemp /\ UNCHANGED logVars

AskParameters == CtlBeginGet /\ UNCHANGED logVars

TakeParameters == CtlEndGet /\ UNCHANGED logVars

(* Both branches assign true. *)
SetState(on, to) ==
  /\ Goto(Ctl, "decide", to)
  /\ state' = on
  /\ UNCHANGED <<bandVars, temp, parametersMutex, local, diskVars, sinceSave,
                 boundVars, tempRead, logVars>>

Decide ==
  \/ TooWarm /\ SetState(TRUE, "insertTrue")
  \/ ~TooWarm /\ TooCold /\ SetState(TRUE, "insertFalse")
  \/ /\ ~TooWarm /\ ~TooCold
     /\ Goto(Ctl, "decide", "save")
     /\ UNCHANGED <<bandVars, temp, parametersMutex, local, state, diskVars,
                    sinceSave, boundVars, tempRead, logVars>>

InsertState(from, row) ==
  /\ Goto(Ctl, from, "save")
  /\ \/ stateRow' = row /\ UNCHANGED rowLost
     \/ rowLost' = TRUE /\ UNCHANGED stateRow
  /\ UNCHANGED <<bandVars, temp, parametersMutex, local, state, diskVars, sinceSave,
                 boundVars, tempRead>>

LogSwitch == InsertState("insertTrue", "on") \/ InsertState("insertFalse", "off")

SaveIfDue == Save /\ UNCHANGED logVars

CtlToDisk == ToDisk(Ctl) /\ UNCHANGED logVars

ClockIsSet == SetClock /\ UNCHANGED logVars

-----------------------------------------------------------------------------
Init == InitController /\ stateRow = "none" /\ rowLost = FALSE

LoopStep == ReadSensor \/ TakeParameters \/ Decide \/ LogSwitch \/ SaveIfDue \/ CtlToDisk

WorkerStarts(w) == StartRequest(w) /\ UNCHANGED logVars
WorkerFinishes(w) == FinishRequest(w) /\ UNCHANGED logVars

Next ==
  \/ Start \/ StartFails \/ Crash \/ ClockIsSet
  \/ AskParameters \/ LoopStep
  \/ \E w \in Workers : WorkerStarts(w) \/ WorkerFinishes(w)

Spec == Init /\ [][Next]_vars

(* As in HardwareController. *)
Fairness ==
  /\ WF_vars(Start)
  /\ WF_vars(AskParameters)
  /\ WF_vars(LoopStep)
  /\ \A w \in Workers : WF_vars(WorkerFinishes(w))

FairSpec == Spec /\ Fairness

-----------------------------------------------------------------------------
TypeOK == ControllerTypeOK /\ stateRow \in {"none", "on", "off"} /\ rowLost \in BOOLEAN

(* Once it stays colder than a band that is a band, the flag goes up and   *)
(* is reported by getState() from then on.                                 *)
HeatsWhenCold ==
  <>[](Running /\ tempRead /\ temp < minTemp /\ minTemp <= maxTemp) => <>[]state
=============================================================================
