------------------------- MODULE HardwareController -------------------------
(***************************************************************************)
(* HardwareController (controller.cpp) with its Relay (relay.cpp): one     *)
(* process from its construction to its death and restart by systemd.  The *)
(* Controller's threads run beside the loop.                               *)
(***************************************************************************)
EXTENDS Controller

VARIABLES
  pinMode,     \* mode of the relay's pin: an INPUT drives nothing
  pin,         \* level of the relay's pin; the relay is active low
  number,      \* the temperature the Display was last told to show
  stateRow,    \* the state in the last row of table States, this run
  rowLost,     \* did an INSERT INTO States fail in this run?
  lastSwitch   \* history: the sample of the last switch, this run

relayVars == <<pinMode, pin>>
logVars == <<stateRow, rowLost, lastSwitch>>
vars == <<controllerVars, relayVars, number, logVars>>

Levels == {"HIGH", "LOW"}
Samples == [temp: Temps, minTemp: Temps, maxTemp: Temps]

ASSUME NoneAssumption == None \notin Samples \cup Temps \cup Bands

Energised == pinMode = "OUTPUT" /\ pin = "LOW"

-----------------------------------------------------------------------------
(* Construction: relay.setup() after the base class is constructed. *)
Start ==
  /\ Construct("pinMode")
  /\ number' = None
  /\ stateRow' = "none" /\ rowLost' = FALSE /\ lastSwitch' = None
  /\ UNCHANGED relayVars

SetupPinMode ==
  /\ Goto(Ctl, "pinMode", "pinHigh")
  /\ pinMode' = "OUTPUT"
  /\ UNCHANGED <<bandVars, temp, parametersMutex, local, state, diskVars, sinceSave,
                 boundVars, tempRead, pin, number, logVars>>

InactiveLevel_Low == "LOW"
InactiveLevel == "HIGH"

SetupPinLevel ==
  /\ Goto(Ctl, "pinHigh", "check")
  /\ pin' = InactiveLevel
  /\ UNCHANGED <<bandVars, temp, parametersMutex, local, state, diskVars, sinceSave,
                 boundVars, tempRead, pinMode, number, logVars>>

(* The process is killed, aborts, or the board loses power. *)
Crash ==
  /\ Die
  /\ \/ UNCHANGED relayVars
     \/ pinMode' = "INPUT" /\ pin' \in Levels
  /\ UNCHANGED <<number, logVars>>

-----------------------------------------------------------------------------
(* run() *)

ReadSensor == CheckTemp /\ UNCHANGED <<relayVars, number, logVars>>

AskParameters == CtlBeginGet /\ UNCHANGED <<relayVars, number, logVars>>

TakeParameters ==
  /\ CtlEndGet
  /\ number' = local[Ctl].temp
  /\ UNCHANGED <<relayVars, logVars>>

ThisSample == [temp |-> local[Ctl].temp, minTemp |-> local[Ctl].minTemp,
               maxTemp |-> local[Ctl].maxTemp]

(* The first half of Relay::off() or on(), which getState() cannot see. *)
Switch(level, to) ==
  /\ Goto(Ctl, "decide", to)
  /\ pin' = level
  /\ lastSwitch' = ThisSample
  /\ UNCHANGED <<bandVars, temp, parametersMutex, local, state, diskVars, sinceSave,
                 boundVars, tempRead, pinMode, number, stateRow, rowLost>>

Decide ==
  \/ TooWarm /\ Switch("HIGH", "offState")
  \/ ~TooWarm /\ TooCold /\ Switch("LOW", "onState")
  \/ /\ ~TooWarm /\ ~TooCold
     /\ Goto(Ctl, "decide", "save")
     /\ UNCHANGED <<bandVars, temp, parametersMutex, local, state, diskVars,
                    sinceSave, boundVars, tempRead, relayVars, number, logVars>>

(* The second half: the atomic flag. *)
SetState(from, on, to) ==
  /\ Goto(Ctl, from, to)
  /\ state' = on
  /\ UNCHANGED <<bandVars, temp, parametersMutex, local, diskVars, sinceSave,
                 boundVars, tempRead, relayVars, number, logVars>>

SetRelayState == SetState("offState", FALSE, "insertTrue") \/ SetState("onState", TRUE, "insertFalse")

(* The row written when the relay goes off closes a period in which it was *)
(* on, and the other way round.  sqlite3_exec may fail; that is logged.    *)
RowAtSwitchOff_NewState == "off"
RowAtSwitchOff == "on"
RowAtSwitchOn == "off"

InsertState(from, row) ==
  /\ Goto(Ctl, from, "save")
  /\ \/ stateRow' = row /\ UNCHANGED rowLost
     \/ rowLost' = TRUE /\ UNCHANGED stateRow
  /\ UNCHANGED <<bandVars, temp, parametersMutex, local, state, diskVars, sinceSave,
                 boundVars, tempRead, relayVars, number, lastSwitch>>

LogSwitch == InsertState("insertTrue", RowAtSwitchOff) \/ InsertState("insertFalse", RowAtSwitchOn)

SaveIfDue == Save /\ UNCHANGED <<relayVars, number, logVars>>

CtlToDisk == ToDisk(Ctl) /\ UNCHANGED <<relayVars, number, logVars>>

ClockIsSet == SetClock /\ UNCHANGED <<relayVars, number, logVars>>

-----------------------------------------------------------------------------
Init ==
  /\ InitController
  /\ pinMode = "INPUT" /\ pin \in Levels
  /\ number = None
  /\ stateRow = "none" /\ rowLost = FALSE /\ lastSwitch = None

StartFails == ConstructThrows /\ UNCHANGED <<relayVars, number, logVars>>

BootStep == Start \/ SetupPinMode \/ SetupPinLevel

LoopStep == ReadSensor \/ TakeParameters \/ Decide \/ SetRelayState \/ LogSwitch
            \/ SaveIfDue \/ CtlToDisk

WorkerStarts(w) == StartRequest(w) /\ UNCHANGED <<relayVars, number, logVars>>
WorkerFinishes(w) == FinishRequest(w) /\ UNCHANGED <<relayVars, number, logVars>>

Next ==
  \/ BootStep \/ StartFails \/ Crash \/ ClockIsSet
  \/ AskParameters \/ LoopStep
  \/ \E w \in Workers : WorkerStarts(w) \/ WorkerFinishes(w)

Spec == Init /\ [][Next]_vars

(***************************************************************************)
(* systemd restarts the service, the threads that are not blocked are      *)
(* scheduled, and a request in progress is finished.  Requests need not    *)
(* arrive.  Waiting for parametersMutex needs no more than weak fairness,  *)
(* because the number of requests that compete for it is bounded.          *)
(***************************************************************************)
Fairness ==
  /\ WF_vars(BootStep)
  /\ WF_vars(AskParameters)
  /\ WF_vars(LoopStep)
  /\ \A w \in Workers : WF_vars(WorkerFinishes(w))

FairSpec == Spec /\ Fairness

-----------------------------------------------------------------------------
HardwareTypeOK ==
  /\ pinMode \in {"INPUT", "OUTPUT"} /\ pin \in Levels
  /\ number \in Temps \cup {None}
  /\ stateRow \in {"none", "on", "off"} /\ rowLost \in BOOLEAN
  /\ lastSwitch \in Samples \cup {None}

TypeOK == ControllerTypeOK /\ HardwareTypeOK

(* From the end of relay.setup() on, and after every restart, the relay is *)
(* energised exactly when getState() says so, except between the two       *)
(* statements of Relay::off() and Relay::on() (relay.cpp:10-36).           *)
RelayAgreesWithPin ==
  Running => (Energised <=> IF pc[Ctl] \in {"offState", "onState"} THEN ~state ELSE state)

(* The rows of States alternate and tell what the relay did: unless an     *)
(* INSERT failed, the relay is on exactly when the last row closes a       *)
(* period in which it was off (controller.cpp:155-178).                    *)
LogMatchesRelay ==
  /\ Running /\ ~rowLost
  /\ pc[Ctl] \notin {"insertTrue", "insertFalse"}
  => (state <=> stateRow = "off")

(* The relay switches again, about the band it switched about last. *)
SwitchesAgain ==
  /\ pc[Ctl] = "decide" /\ pc'[Ctl] # "down" /\ pin' # pin
  /\ lastSwitch # None
  /\ lastSwitch.minTemp = lastSwitch'.minTemp
  /\ lastSwitch.maxTemp = lastSwitch'.maxTemp

CrossesBand ==
  LET cold == IF pin' = "LOW" THEN lastSwitch' ELSE lastSwitch
      warm == IF pin' = "LOW" THEN lastSwitch ELSE lastSwitch'
  IN  cold.temp < lastSwitch.minTemp /\ lastSwitch.maxTemp < warm.temp

(* Hysteresis: as long as the band stays the same, the relay does not      *)
(* switch again before the room has crossed all of it: of the samples of   *)
(* two switches, one is below minTemp and the other above maxTemp.  Noise  *)
(* inside a band cannot make the relay chatter (controller.cpp:155-178).   *)
SwitchesCrossTheBand == [][SwitchesAgain => CrossesBand]_vars

(* What makes these three so, one part for each: where in the loop the     *)
(* relay is about to change or has just changed, and which side of its     *)
(* band the last switch was on.                                            *)
RelayInv ==
  /\ pc[Ctl] \in {"pinMode", "pinHigh"} => ~state
  /\ pc[Ctl] = "pinHigh" \/ Running => pinMode = "OUTPUT"
  /\ pc[Ctl] \in {"offState", "insertFalse"} => state
  /\ pc[Ctl] \in {"onState", "insertTrue"} => ~state
  /\ RelayAgreesWithPin

LogInv ==
  /\ pc[Ctl] \in {"pinMode", "pinHigh"} => stateRow = "none"
  /\ LogMatchesRelay

LastSwitchInv ==
  /\ pc[Ctl] \in {"pinMode", "pinHigh"} => lastSwitch = None
  /\ Running /\ lastSwitch # None =>
       IF pin = "LOW" THEN lastSwitch.temp < lastSwitch.minTemp
                      ELSE lastSwitch.temp > lastSwitch.maxTemp

(* What getParameters() has copied for the loop, whatever the workers do   *)
(* before it goes on, is the reading that checkTemp() has just made; and   *)
(* nothing is shown before the loop begins.                                *)
ReadingInv ==
  /\ pc[Ctl] = "copy" => local[Ctl].temp = temp
  /\ pc[Ctl] \in {"pinMode", "pinHigh"} => number = None

Inv == TypeOK /\ ControllerInv /\ RelayInv /\ LogInv /\ LastSwitchInv /\ ReadingInv

(* The loop, the lock and the relay implement the promise of Thermostat.   *)
(* A band is in force from its first assignment, which is under the lock;  *)
(* a reading is what checkTemp() left in temp and the loop has not yet     *)
(* taken from there; a sample is what getParameters() returned to it; and  *)
(* shown is what the Display was last told to show, as it is told; and an  *)
(* answer is what getParameters() returned to a worker.                    *)
Promise == INSTANCE Thermostat WITH
  Clients <- Workers,
  running <- Running,
  heater <- Energised,
  maxTemp <- IF SettingWorkers = {} THEN maxTemp
             ELSE local[CHOOSE w \in SettingWorkers : TRUE].maxTemp,
  reading <- IF pc[Ctl] \in {"params", "copy"} THEN temp ELSE None,
  sample <- IF pc[Ctl] = "decide" THEN ThisSample ELSE None,
  shown <- number,
  answer <- [w \in Workers |-> IF pc[w] = "reply"
                               THEN <<local[w].minTemp, local[w].maxTemp>> ELSE None]
ImplementsThermostat == Promise!Spec

(* Once it stays colder than a band that is a band, the heater goes on for *)
(* good: no lock, request or save holds the loop up for ever.              *)
HeatsWhenCold ==
  <>[](Running /\ tempRead /\ temp < minTemp /\ minTemp <= maxTemp) => <>[]Energised

(* A process that dies with the relay energised leaves it so; if the saved *)
(* band can be read, the restarted one releases it (relay.cpp:10-14).      *)
RestartReleasesHeater ==
  (pc[Ctl] = "down" /\ Parses(parametersFile)) ~> (pinMode = "OUTPUT" /\ pin = "HIGH")

-----------------------------------------------------------------------------
(* Statements of the documentation that the code does not keep.            *)

(* "Restart=on-failure" (build/additional_files/RPIThermostat.service:11): *)
(* after a crash the service comes back.                                   *)
RestartRecovers == pc[Ctl] = "down" ~> Running
=============================================================================
