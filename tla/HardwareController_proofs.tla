--------------------- MODULE HardwareController_proofs ---------------------
(***************************************************************************)
(* The safety properties of HardwareController for all temperatures, bands *)
(* and numbers of threads, requests and crashes.  Inv is inductive; the    *)
(* part of it that the base class keeps comes from Controller_proofs.      *)
(***************************************************************************)
EXTENDS HardwareController, Controller_proofs

USE DEF Threads, Bands, diskVars

(* The labels of the loop at which the relay, its flag and the last row    *)
(* agree.                                                                  *)
PlainLabels == CtlLabels \ {"offState", "onState", "insertTrue", "insertFalse"}

(* A step that touches neither the relay nor the log, and that does not    *)
(* move the loop to or from a label where they disagree.                   *)
LEMMA PlainStep ==
  ASSUME Inv, UNCHANGED <<state, relayVars, logVars>>,
         pc'[Ctl] = pc[Ctl] \/ (pc[Ctl] \in PlainLabels /\ pc'[Ctl] \in PlainLabels)
  PROVE  RelayInv' /\ LogInv' /\ LastSwitchInv'
<1> USE DEF Inv, PlainLabels, CtlLabels, relayVars, logVars, Running, Boot
<1>1. RelayInv'
  BY DEF RelayInv, RelayAgreesWithPin, Energised
<1>2. LogInv'
  BY DEF LogInv, LogMatchesRelay
<1>3. LastSwitchInv'
  BY DEF LastSwitchInv
<1> QED
  BY <1>1, <1>2, <1>3

LEMMA InitInv == Init => Inv
<1> SUFFICES ASSUME Init PROVE Inv
  OBVIOUS
<1>1. ControllerInv
  BY InitEstablishes DEF Init
<1>2. HardwareTypeOK
  BY DEF Init, HardwareTypeOK, Levels
<1>3. pc[Ctl] = "down"
  BY DEF Init, InitController
<1>4. RelayInv /\ LogInv /\ LastSwitchInv
  BY <1>3 DEF RelayInv, RelayAgreesWithPin, LogInv, LogMatchesRelay, LastSwitchInv,
     Running, Boot
<1> QED
  BY <1>1, <1>2, <1>3, <1>4 DEF ReadingInv, Inv, TypeOK, ControllerInv

LEMMA StartPreserves ==
  ASSUME Inv, Start
  PROVE  Inv'
<1>1. ControllerInv'
  BY ConstructPreserves DEF Start, Inv
<1>2. HardwareTypeOK'
  BY DEF Start, Inv, TypeOK, HardwareTypeOK, relayVars
<1>3. pc'[Ctl] = "pinMode" /\ state' = FALSE
  BY DEF Start, Construct, Goto, Inv, ControllerInv, ControllerTypeOK
<1>4. RelayInv' /\ LogInv' /\ LastSwitchInv'
  BY <1>3 DEF Start, RelayInv, RelayAgreesWithPin, LogInv, LogMatchesRelay, LastSwitchInv,
     Running, Boot
<1>5. ReadingInv'
  BY <1>3 DEF Start, ReadingInv
<1> QED
  BY <1>1, <1>2, <1>4, <1>5 DEF Inv, TypeOK, ControllerInv

LEMMA SetupPinModePreserves ==
  ASSUME Inv, SetupPinMode
  PROVE  Inv'
<1>1. ControllerInv'
  BY SetupPreserves DEF SetupPinMode, Inv
<1>2. HardwareTypeOK'
  BY DEF SetupPinMode, Inv, TypeOK, HardwareTypeOK, logVars
<1>3. pc[Ctl] = "pinMode" /\ pc'[Ctl] = "pinHigh"
  BY DEF SetupPinMode, Goto, Inv, ControllerInv, ControllerTypeOK
<1>4. RelayInv' /\ LogInv' /\ LastSwitchInv'
  BY <1>3 DEF SetupPinMode, Inv, RelayInv, RelayAgreesWithPin, LogInv, LogMatchesRelay,
     LastSwitchInv, logVars, Running, Boot
<1>5. ReadingInv'
  BY <1>3 DEF SetupPinMode, ReadingInv, Inv
<1> QED
  BY <1>1, <1>2, <1>4, <1>5 DEF Inv, TypeOK, ControllerInv

LEMMA SetupPinLevelPreserves ==
  ASSUME Inv, SetupPinLevel
  PROVE  Inv'
<1>1. ControllerInv'
  BY SetupPreserves DEF SetupPinLevel, Inv
<1>2. HardwareTypeOK'
  BY DEF SetupPinLevel, InactiveLevel, Levels, Inv, TypeOK, HardwareTypeOK, logVars
<1>3. pc[Ctl] = "pinHigh" /\ pc'[Ctl] = "check"
  BY DEF SetupPinLevel, Goto, Inv, ControllerInv, ControllerTypeOK
<1>4. RelayInv' /\ LogInv' /\ LastSwitchInv'
  BY <1>3 DEF SetupPinLevel, InactiveLevel, Inv, RelayInv, RelayAgreesWithPin, Energised,
     LogInv, LogMatchesRelay, LastSwitchInv, logVars, Running, Boot
<1> QED
  BY <1>1, <1>2, <1>3, <1>4 DEF ReadingInv, Inv, TypeOK, ControllerInv

LEMMA CrashPreserves ==
  ASSUME Inv, Crash
  PROVE  Inv'
<1>1. ControllerInv'
  BY DiePreserves DEF Crash, Inv
<1>2. HardwareTypeOK'
  BY DEF Crash, Inv, TypeOK, HardwareTypeOK, relayVars, logVars
<1>3. pc'[Ctl] = "down"
  BY DEF Crash, Die
<1>4. RelayInv' /\ LogInv' /\ LastSwitchInv'
  BY <1>3 DEF RelayInv, RelayAgreesWithPin, LogInv, LogMatchesRelay, LastSwitchInv,
     Running, Boot
<1> QED
  BY <1>1, <1>2, <1>3, <1>4 DEF ReadingInv, Inv, TypeOK, ControllerInv

LEMMA ReadSensorPreserves ==
  ASSUME Inv, ReadSensor
  PROVE  Inv'
<1>1. ControllerInv'
  BY CheckTempPreserves DEF ReadSensor, Inv
<1>2. HardwareTypeOK'
  BY DEF ReadSensor, Inv, TypeOK, HardwareTypeOK, relayVars, logVars
<1>3. pc[Ctl] = "check" /\ pc'[Ctl] = "params" /\ state' = state
  BY DEF ReadSensor, CheckTemp, Goto, Inv, ControllerInv, ControllerTypeOK
<1>4. RelayInv' /\ LogInv' /\ LastSwitchInv'
  BY <1>3, PlainStep DEF ReadSensor, PlainLabels, CtlLabels
<1> QED
  BY <1>1, <1>2, <1>3, <1>4 DEF ReadingInv, Inv, TypeOK, ControllerInv

LEMMA AskParametersPreserves ==
  ASSUME Inv, AskParameters
  PROVE  Inv'
<1>1. ControllerInv'
  BY CtlBeginGetPreserves DEF AskParameters, Inv
<1>2. HardwareTypeOK'
  BY DEF AskParameters, Inv, TypeOK, HardwareTypeOK, relayVars, logVars
<1>3. pc[Ctl] = "params" /\ pc'[Ctl] = "copy" /\ state' = state
  BY DEF AskParameters, CtlBeginGet, BeginGetParameters, Goto, Inv, ControllerInv, ControllerTypeOK
<1>4. RelayInv' /\ LogInv' /\ LastSwitchInv'
  BY <1>3, PlainStep DEF AskParameters, PlainLabels, CtlLabels
<1>5. ReadingInv'
  <2>1. local'[Ctl].temp = temp'
    BY DEF AskParameters, CtlBeginGet, BeginGetParameters, Inv, ControllerInv,
       ControllerTypeOK, Parameters
  <2> QED
    BY <1>3, <2>1 DEF ReadingInv
<1> QED
  BY <1>1, <1>2, <1>4, <1>5 DEF Inv, TypeOK, ControllerInv

LEMMA TakeParametersPreserves ==
  ASSUME Inv, TakeParameters
  PROVE  Inv'
<1>1. ControllerInv'
  BY CtlEndGetPreserves DEF TakeParameters, Inv
<1>2. HardwareTypeOK'
  BY DEF TakeParameters, Inv, TypeOK, HardwareTypeOK, ControllerTypeOK, Parameters,
     relayVars, logVars
<1>3. pc[Ctl] = "copy" /\ pc'[Ctl] = "decide" /\ state' = state
  BY DEF TakeParameters, CtlEndGet, EndGetParameters, Goto, Inv, ControllerInv, ControllerTypeOK
<1>4. RelayInv' /\ LogInv' /\ LastSwitchInv'
  BY <1>3, PlainStep DEF TakeParameters, PlainLabels, CtlLabels
<1> QED
  BY <1>1, <1>2, <1>3, <1>4 DEF ReadingInv, Inv, TypeOK, ControllerInv

LEMMA SwitchPreserves ==
  ASSUME Inv,
         \/ TooWarm /\ Switch("HIGH", "offState")
         \/ TooCold /\ Switch("LOW", "onState")
  PROVE  Inv'
<1>1. PICK level \in Levels, to \in {"offState", "onState"} : Switch(level, to)
  BY DEF Levels
<1>2. ControllerInv'
  <2>1. state' \in BOOLEAN
    BY <1>1 DEF Switch, Inv, ControllerInv, ControllerTypeOK
  <2> QED
    BY <1>1, <2>1, LoopMoves DEF Switch, Inv
<1>3. HardwareTypeOK'
  BY <1>1 DEF Switch, ThisSample, Samples, Inv, TypeOK, HardwareTypeOK, ControllerTypeOK,
     Parameters
<1>4. pc[Ctl] = "decide" /\ pc'[Ctl] = to /\ (pin = "LOW" <=> state) /\ pinMode = "OUTPUT"
  BY <1>1 DEF Switch, Goto, Inv, ControllerInv, ControllerTypeOK, RelayInv,
     RelayAgreesWithPin, Energised, Running, Boot
<1>5. RelayInv'
  <2> USE <1>4 DEF Switch, RelayInv, RelayAgreesWithPin, Energised, Running, Boot
  <2>1. CASE TooWarm /\ Switch("HIGH", "offState")
    <3>1. state' /\ pin' = "HIGH" /\ pc'[Ctl] = "offState" /\ pinMode' = "OUTPUT"
      BY <2>1 DEF TooWarm, Goto, Inv, ControllerInv, ControllerTypeOK
    <3> QED
      BY <3>1
  <2>2. CASE TooCold /\ Switch("LOW", "onState")
    <3>1. ~state' /\ pin' = "LOW" /\ pc'[Ctl] = "onState" /\ pinMode' = "OUTPUT"
      BY <2>2 DEF TooCold, Goto, Inv, ControllerInv, ControllerTypeOK
    <3> QED
      BY <3>1
  <2> QED
    BY <2>1, <2>2
<1>6. LogInv'
  BY <1>1, <1>4 DEF Switch, Inv, LogInv, LogMatchesRelay, Running, Boot
<1>7. LastSwitchInv'
  BY <1>4 DEF Switch, TooWarm, TooCold, ThisSample, LastSwitchInv, Running, Boot
<1> QED
  BY <1>2, <1>3, <1>4, <1>5, <1>6, <1>7 DEF ReadingInv, Inv, TypeOK, ControllerInv

LEMMA DecidePreserves ==
  ASSUME Inv, Decide
  PROVE  Inv'
<1>1. CASE \/ TooWarm /\ Switch("HIGH", "offState")
           \/ TooCold /\ Switch("LOW", "onState")
  BY <1>1, SwitchPreserves
<1>2. CASE /\ Goto(Ctl, "decide", "save")
           /\ UNCHANGED <<bandVars, temp, parametersMutex, local, state, diskVars,
                          sinceSave, boundVars, tempRead, relayVars, number, logVars>>
  <2>1. ControllerInv'
    <3>1. state' \in BOOLEAN
      BY <1>2 DEF Inv, ControllerInv, ControllerTypeOK
    <3> QED
      BY <1>2, <3>1, LoopMoves DEF Inv
  <2>2. HardwareTypeOK'
    BY <1>2 DEF Inv, TypeOK, HardwareTypeOK, relayVars, logVars
  <2>3. pc[Ctl] = "decide" /\ pc'[Ctl] = "save"
    BY <1>2 DEF Goto, Inv, ControllerInv, ControllerTypeOK
  <2>4. RelayInv' /\ LogInv' /\ LastSwitchInv'
    BY <1>2, <2>3, PlainStep DEF PlainLabels, CtlLabels
  <2> QED
    BY <2>1, <2>2, <2>3, <2>4 DEF ReadingInv, Inv, TypeOK, ControllerInv
<1> QED
  BY <1>1, <1>2 DEF Decide

LEMMA SetRelayStatePreserves ==
  ASSUME Inv, SetRelayState
  PROVE  Inv'
<1>1. PICK from \in {"offState", "onState"}, on \in BOOLEAN, to \in {"insertTrue", "insertFalse"} :
        SetState(from, on, to)
  BY DEF SetRelayState
<1>2. ControllerInv'
  <2>1. state' \in BOOLEAN
    BY <1>1 DEF SetState
  <2> QED
    BY <1>1, <2>1, LoopMoves DEF SetState, Inv
<1>3. HardwareTypeOK'
  BY <1>1 DEF SetState, Inv, TypeOK, HardwareTypeOK, relayVars, logVars
<1>4. pc[Ctl] = from /\ pc'[Ctl] = to
  BY <1>1 DEF SetState, Goto, Inv, ControllerInv, ControllerTypeOK
<1>5. RelayInv'
  BY <1>1, <1>4 DEF SetRelayState, SetState, Goto, Inv, RelayInv, RelayAgreesWithPin,
     Energised, relayVars, Running, Boot
<1>6. LogInv'
  BY <1>4 DEF LogInv, LogMatchesRelay, Running, Boot
<1>7. LastSwitchInv'
  BY <1>1, <1>4 DEF SetState, Inv, LastSwitchInv, relayVars, logVars, Running, Boot
<1> QED
  BY <1>2, <1>3, <1>4, <1>5, <1>6, <1>7 DEF ReadingInv, Inv, TypeOK, ControllerInv

LEMMA LogSwitchPreserves ==
  ASSUME Inv, LogSwitch
  PROVE  Inv'
<1>1. PICK from \in {"insertTrue", "insertFalse"}, row \in {"on", "off"} : InsertState(from, row)
  BY DEF LogSwitch, RowAtSwitchOff, RowAtSwitchOn
<1>2. ControllerInv'
  <2>1. state' \in BOOLEAN
    BY <1>1 DEF InsertState, Inv, ControllerInv, ControllerTypeOK
  <2> QED
    BY <1>1, <2>1, LoopMoves DEF InsertState, Inv
<1>3. HardwareTypeOK'
  BY <1>1 DEF InsertState, Inv, TypeOK, HardwareTypeOK, relayVars
<1>4. pc[Ctl] = from /\ pc'[Ctl] = "save"
  BY <1>1 DEF InsertState, Goto, Inv, ControllerInv, ControllerTypeOK
<1>5. RelayInv'
  BY <1>1, <1>4 DEF InsertState, Inv, RelayInv, RelayAgreesWithPin, Energised, relayVars,
     Running, Boot
<1>6. LogInv'
  BY <1>4 DEF LogSwitch, InsertState, RowAtSwitchOff, RowAtSwitchOn, Goto, Inv, TypeOK,
     HardwareTypeOK, RelayInv, LogInv, LogMatchesRelay, Running, Boot
<1>7. LastSwitchInv'
  BY <1>1, <1>4 DEF InsertState, Inv, LastSwitchInv, relayVars, Running, Boot
<1> QED
  BY <1>2, <1>3, <1>4, <1>5, <1>6, <1>7 DEF ReadingInv, Inv, TypeOK, ControllerInv

LEMMA SaveIfDuePreserves ==
  ASSUME Inv, SaveIfDue
  PROVE  Inv'
<1>1. ControllerInv'
  BY SavePreserves DEF SaveIfDue, Inv
<1>2. HardwareTypeOK'
  BY DEF SaveIfDue, Inv, TypeOK, HardwareTypeOK, relayVars, logVars
<1>3. pc[Ctl] = "save" /\ pc'[Ctl] \in {"readMax", "check"} /\ state' = state
  BY DEF SaveIfDue, Save, ToDiskReadMin, Goto, Inv, ControllerInv, ControllerTypeOK
<1>4. RelayInv' /\ LogInv' /\ LastSwitchInv'
  BY <1>3, PlainStep DEF SaveIfDue, PlainLabels, CtlLabels
<1> QED
  BY <1>1, <1>2, <1>3, <1>4 DEF ReadingInv, Inv, TypeOK, ControllerInv

LEMMA CtlToDiskPreserves ==
  ASSUME Inv, CtlToDisk
  PROVE  Inv'
<1>1. ControllerInv'
  BY ToDiskPreserves DEF CtlToDisk, Inv
<1>2. HardwareTypeOK'
  BY DEF CtlToDisk, Inv, TypeOK, HardwareTypeOK, relayVars, logVars
<1>3. /\ pc[Ctl] \in {"readMax", "open", "write"}
      /\ pc'[Ctl] \in {"open", "write", "check"}
      /\ state' = state
  BY DEF CtlToDisk, ToDisk, ToDiskReadMax, ToDiskOpen, ToDiskWrite, AfterToDisk, Goto,
     Inv, ControllerInv, ControllerTypeOK
<1>4. RelayInv' /\ LogInv' /\ LastSwitchInv'
  BY <1>3, PlainStep DEF CtlToDisk, PlainLabels, CtlLabels
<1> QED
  BY <1>1, <1>2, <1>3, <1>4 DEF ReadingInv, Inv, TypeOK, ControllerInv

(* A worker moves no thread but itself, takes nothing from the loop, and   *)
(* touches neither the relay's flag nor the reading.                        *)
LEMMA WorkerFrame ==
  ASSUME Inv, NEW w \in Workers, StartRequest(w) \/ FinishRequest(w)
  PROVE  pc'[Ctl] = pc[Ctl] /\ local'[Ctl] = local[Ctl] /\ state' = state /\ temp' = temp
<1> USE ThreadsAssumption DEF Inv, ControllerInv, ControllerTypeOK, Goto
<1>1. CASE StartRequest(w)
  BY <1>1 DEF StartRequest, BeginGet, BeginGetParameters, BeginSetParameters, SetOneBound,
     Shutdown, ToDiskReadMin, lockVars
<1>2. CASE FinishRequest(w)
  BY <1>2 DEF FinishRequest, EndGet, EndGetParameters, Reply, EndSetParameters, ToDisk,
     ToDiskReadMax, ToDiskOpen, ToDiskWrite
<1> QED
  BY <1>1, <1>2

LEMMA WorkerStepPreserves ==
  ASSUME Inv, NEW w \in Workers, WorkerStarts(w) \/ WorkerFinishes(w)
  PROVE  Inv'
<1>1. (StartRequest(w) \/ FinishRequest(w)) /\ UNCHANGED <<relayVars, number, logVars>>
  BY DEF WorkerStarts, WorkerFinishes
<1>2. ControllerInv'
  BY <1>1, WorkerPreserves DEF Inv
<1>3. HardwareTypeOK'
  BY <1>1 DEF Inv, TypeOK, HardwareTypeOK, relayVars, logVars
<1>4. RelayInv' /\ LogInv' /\ LastSwitchInv'
  BY <1>1, WorkerFrame, PlainStep
<1>5. ReadingInv'
  BY <1>1, WorkerFrame DEF ReadingInv, Inv
<1> QED
  BY <1>2, <1>3, <1>4, <1>5 DEF Inv, TypeOK, ControllerInv

LEMMA StutterInv ==
  ASSUME Inv, UNCHANGED vars
  PROVE  Inv'
<1>1. ControllerInv'
  BY StutterPreserves DEF Inv, vars
<1>2. HardwareTypeOK'
  BY DEF Inv, TypeOK, HardwareTypeOK, vars, relayVars, logVars
<1>3. RelayInv' /\ LogInv' /\ LastSwitchInv'
  BY PlainStep DEF vars, controllerVars, lockVars
<1>4. ReadingInv'
  BY DEF vars, controllerVars, lockVars, ReadingInv, Inv
<1> QED
  BY <1>1, <1>2, <1>3, <1>4 DEF Inv, TypeOK, ControllerInv

LEMMA ClockIsSetPreserves ==
  ASSUME Inv, ClockIsSet
  PROVE  Inv'
<1> USE DEF ClockIsSet, SetClock
<1>1. ControllerInv'
  BY SetClockPreserves DEF Inv
<1>2. HardwareTypeOK'
  BY DEF Inv, TypeOK, HardwareTypeOK, relayVars, logVars
<1>3. RelayInv' /\ LogInv' /\ LastSwitchInv'
  BY PlainStep DEF lockVars
<1>4. ReadingInv'
  BY DEF lockVars, ReadingInv, Inv
<1> QED
  BY <1>1, <1>2, <1>3, <1>4 DEF Inv, TypeOK, ControllerInv

LEMMA NextInv == Inv /\ [Next]_vars => Inv'
<1> SUFFICES ASSUME Inv, [Next]_vars PROVE Inv'
  OBVIOUS
<1>1. CASE BootStep
  BY <1>1, StartPreserves, SetupPinModePreserves, SetupPinLevelPreserves DEF BootStep
<1>2. CASE StartFails
  BY <1>2, StutterInv DEF StartFails, ConstructThrows, vars
<1>3. CASE Crash
  BY <1>3, CrashPreserves
<1>4. CASE AskParameters
  BY <1>4, AskParametersPreserves
<1>5. CASE LoopStep
  BY <1>5, ReadSensorPreserves, TakeParametersPreserves, DecidePreserves,
     SetRelayStatePreserves, LogSwitchPreserves, SaveIfDuePreserves, CtlToDiskPreserves
     DEF LoopStep
<1>6. CASE \E w \in Workers : WorkerStarts(w) \/ WorkerFinishes(w)
  BY <1>6, WorkerStepPreserves
<1>7. CASE UNCHANGED vars
  BY <1>7, StutterInv
<1>8. CASE ClockIsSet
  BY <1>8, ClockIsSetPreserves
<1> QED
  BY <1>1, <1>2, <1>3, <1>4, <1>5, <1>6, <1>7, <1>8 DEF Next

-----------------------------------------------------------------------------
(* Inv holds in every state of every behaviour of the thermostat, which    *)
(* makes it the induction hypothesis of all that follows.                  *)
THEOREM InvHolds == Spec => []Inv
  BY InitInv, NextInv, PTL DEF Spec

(* The state of the process, its relay and its log keep their types.       *)
THEOREM TypeCorrect == Spec => []TypeOK
<1>1. Inv => TypeOK
  BY DEF Inv
<1> QED
  BY <1>1, InvHolds, PTL

(* getParameters() never mixes the bounds of two bands, whatever requests  *)
(* run beside the caller.                                                  *)
THEOREM SnapshotsAreConsistent == Spec => []SnapshotConsistent
<1>1. Inv => SnapshotConsistent
  BY DEF Inv, ControllerInv
<1> QED
  BY <1>1, InvHolds, PTL

(* After any sequence of crashes and restarts, the relay is energised      *)
(* exactly when the program says that it is on.                            *)
THEOREM RelayAgrees == Spec => []RelayAgreesWithPin
<1>1. Inv => RelayAgreesWithPin
  BY DEF Inv, RelayInv
<1> QED
  BY <1>1, InvHolds, PTL

(* The last row of table States tells the relay's state, unless an INSERT  *)
(* failed.                                                                 *)
THEOREM LogMatches == Spec => []LogMatchesRelay
<1>1. Inv => LogMatchesRelay
  BY DEF Inv, LogInv
<1> QED
  BY <1>1, InvHolds, PTL

(* The relay does not chatter: as long as the band stays what it is, one   *)
(* of the samples of two successive switches is below its minTemp and the  *)
(* other above its maxTemp.                                                *)
THEOREM NoChatter == Spec => SwitchesCrossTheBand
<1>1. Inv /\ [Next]_vars => [SwitchesAgain => CrossesBand]_vars
  <2> SUFFICES ASSUME Inv, Next, SwitchesAgain
               PROVE  CrossesBand
    OBVIOUS
  <2>1. Decide
    <3>1. ~Crash
      BY DEF Crash, Die, SwitchesAgain
    <3>2. pc[Ctl] = "decide" /\ pin' # pin
      BY DEF SwitchesAgain
    <3> QED
      BY <3>1, <3>2 DEF Next, BootStep, Start, SetupPinMode, SetupPinLevel, Construct,
         StartFails, AskParameters, LoopStep, ReadSensor, TakeParameters, SetRelayState,
         SetState, LogSwitch, InsertState, SaveIfDue, CtlToDisk, WorkerStarts,
         WorkerFinishes, ClockIsSet, Goto, relayVars
  <2>4. IF pin = "LOW" THEN lastSwitch.temp < lastSwitch.minTemp
                       ELSE lastSwitch.temp > lastSwitch.maxTemp
    BY DEF SwitchesAgain, Inv, LastSwitchInv, Running, Boot
  <2>5. pin \in Levels
    BY DEF Inv, TypeOK, HardwareTypeOK
  <2>6. CASE TooWarm /\ Switch("HIGH", "offState")
    <3>1. pin' = "HIGH" /\ lastSwitch' = ThisSample /\ local[Ctl].temp > local[Ctl].maxTemp
      BY <2>6 DEF Switch, TooWarm
    <3>2. pin = "LOW"
      BY <3>1, <2>5 DEF SwitchesAgain, Levels
    <3> QED
      BY <3>1, <3>2, <2>4 DEF SwitchesAgain, CrossesBand, ThisSample
  <2>7. CASE TooCold /\ Switch("LOW", "onState")
    <3>1. pin' = "LOW" /\ lastSwitch' = ThisSample /\ local[Ctl].temp < local[Ctl].minTemp
      BY <2>7 DEF Switch, TooCold
    <3>2. pin = "HIGH"
      BY <3>1, <2>5 DEF SwitchesAgain, Levels
    <3> QED
      BY <3>1, <3>2, <2>4 DEF SwitchesAgain, CrossesBand, ThisSample
  <2> QED
    BY <2>1, <2>6, <2>7 DEF Decide, SwitchesAgain, relayVars
<1> QED
  BY <1>1, InvHolds, PTL DEF Spec, SwitchesCrossTheBand

(* toDisk() keeps its word whenever nobody gets in its way, and so repairs *)
(* what racing saves and earlier crashes have left of parameters.json.     *)
THEOREM SavesAreWhole == Spec => UndisturbedSavesAreWhole
<1>1. ASSUME Inv, [Next]_vars, NEW t \in Threads
      PROVE  SavesWhole(t)
  <2> SUFFICES ASSUME EndsSave(t)
               PROVE  SavesWhole(t)
    BY DEF SavesWhole
  <2>1. ControllerInv
    BY <1>1 DEF Inv
  <2>2. CASE \E w \in Workers : WorkerStarts(w) \/ WorkerFinishes(w)
    BY <2>1, <2>2, WorkerEndsSave, WriteIsWhole DEF WorkerStarts, WorkerFinishes
  <2>3. CASE CtlToDisk
    <3>1. CASE ToDiskWrite(Ctl)
      <4>1. t = Ctl
        BY <2>1, <3>1 DEF ToDiskWrite, Goto, EndsSave, ControllerInv, ControllerTypeOK
      <4> QED
        BY <2>1, <3>1, <4>1, WriteIsWhole
    <3>2. CASE ToDiskReadMax(Ctl) \/ ToDiskOpen(Ctl)
      BY <2>1, <3>2, LoopEndsSave DEF ToDiskReadMax, ToDiskOpen
    <3> QED
      BY <2>3, <3>1, <3>2 DEF CtlToDisk, ToDisk
  <2>4. ~Crash /\ ~ClockIsSet
    BY DEF Crash, Die, ClockIsSet, SetClock, lockVars, EndsSave
  <2>5. CASE StartFails \/ UNCHANGED vars
    BY <2>5 DEF StartFails, ConstructThrows, vars, controllerVars, lockVars, EndsSave
  <2>6. CASE BootStep \/ AskParameters \/ ReadSensor \/ TakeParameters
    BY <2>1, <2>6, LoopEndsSave DEF BootStep, Start, Construct, SetupPinMode, SetupPinLevel,
       AskParameters, CtlBeginGet, ReadSensor, CheckTemp, TakeParameters, CtlEndGet
  <2>7. CASE Decide \/ SetRelayState \/ LogSwitch
    BY <2>1, <2>7, LoopEndsSave DEF Decide, Switch, SetRelayState, SetState, LogSwitch,
       InsertState
  <2>8. CASE SaveIfDue
    BY <2>1, <2>8, LoopEndsSave DEF SaveIfDue, Save, ToDiskReadMin
  <2> QED
    BY <1>1, <2>2, <2>3, <2>4, <2>5, <2>6, <2>7, <2>8 DEF Next, LoopStep
<1>2. Inv /\ [Next]_vars => [\A t \in Threads : SavesWhole(t)]_controllerVars
  BY <1>1
<1> QED
  BY <1>2, InvHolds, PTL DEF Spec, UndisturbedSavesAreWhole, SavesWhole

-----------------------------------------------------------------------------
(* The refinement of Thermostat.                                           *)

(* The maxTemp of the mapping: the one a worker is about to assign, if any. *)
InForce == IF SettingWorkers = {} THEN maxTemp
           ELSE local[CHOOSE w \in SettingWorkers : TRUE].maxTemp
Reading == IF pc[Ctl] \in {"params", "copy"} THEN temp ELSE None
Sample == IF pc[Ctl] = "decide" THEN ThisSample ELSE None
Answers == [w \in Workers |-> IF pc[w] = "reply"
                              THEN <<local[w].minTemp, local[w].maxTemp>> ELSE None]
NoAnswers == [w \in Workers |-> None]

(* A worker that is inside setParameters() holds the mutex. *)
LEMMA NobodySets == Inv => (parametersMutex \notin Workers => InForce = maxTemp)
  BY DEF Inv, ControllerInv, LockInv, SettingWorkers, InForce

LEMMA MappedTypes ==
  Inv => minTemp \in Temps /\ InForce \in Temps /\ Energised \in BOOLEAN
<1> SUFFICES ASSUME Inv
             PROVE  minTemp \in Temps /\ InForce \in Temps /\ Energised \in BOOLEAN
  OBVIOUS
<1>1. \A w \in Workers : local[w].maxTemp \in Temps
  BY DEF Inv, TypeOK, ControllerTypeOK, Parameters
<1>2. minTemp \in Temps /\ maxTemp \in Temps
  BY DEF Inv, TypeOK, ControllerTypeOK
<1>3. InForce \in Temps
  <2>1. CASE SettingWorkers = {}
    BY <2>1, <1>2 DEF InForce
  <2>2. CASE SettingWorkers # {}
    BY <2>2, <1>1 DEF InForce, SettingWorkers
  <2> QED
    BY <2>1, <2>2
<1> QED
  BY <1>2, <1>3 DEF Energised

(* A process that does not run its threads owes no answers. *)
LEMMA NobodyIsAnswered == Inv => (~Running => Answers = NoAnswers)
  BY DEF Inv, ControllerInv, LockInv, Answers, NoAnswers

(* The same facts of the state that a step leads to. *)
Mapped ==
  /\ ~Running => Answers = NoAnswers
  /\ parametersMutex \notin Workers => InForce = maxTemp
  /\ minTemp \in Temps /\ InForce \in Temps /\ Energised \in BOOLEAN

LEMMA MappedNext == Inv' => Mapped'
<1>1. Inv => Mapped
  BY NobodySets, MappedTypes, NobodyIsAnswered DEF Mapped
<1> QED
  BY <1>1, PTL

(* A step that changes neither the heater nor the band in force, and that  *)
(* neither reads, samples nor decides, is none of the promise's business.  *)
LEMMA Unobserved ==
  ASSUME Running' = Running, Energised' = Energised, minTemp' = minTemp, InForce' = InForce,
         Reading' = Reading, Sample' = Sample, number' = number, Answers' = Answers
  PROVE  UNCHANGED Promise!vars
BY DEF Promise!vars, InForce, Reading, Sample, Answers

(* The band in force stays when no worker enters or leaves setParameters() *)
(* and the arguments of those inside are left alone.                       *)
LEMMA InForceKept ==
  ASSUME \A w \in Workers : pc'[w] = "set" <=> pc[w] = "set",
         \A w \in Workers : pc[w] = "set" => local'[w].maxTemp = local[w].maxTemp,
         maxTemp' = maxTemp
  PROVE  InForce' = InForce
<1>1. SettingWorkers' = SettingWorkers
  BY DEF SettingWorkers
<1>2. CASE SettingWorkers = {}
  BY <1>1, <1>2 DEF InForce
<1>3. CASE SettingWorkers # {}
  <2>1. (CHOOSE w \in SettingWorkers : TRUE) \in SettingWorkers
    BY <1>3
  <2> QED
    BY <1>1, <1>3, <2>1 DEF InForce, SettingWorkers
<1> QED
  BY <1>2, <1>3

(* The answers stay when nobody gets one and nobody goes away with one.    *)
LEMMA AnswersKept ==
  ASSUME \A w \in Workers : \/ pc'[w] = pc[w] /\ local'[w] = local[w]
                            \/ pc[w] # "reply" /\ pc'[w] # "reply"
  PROVE  Answers' = Answers
BY DEF Answers

LEMMA InitRefines == Init => Promise!Init
<1> SUFFICES ASSUME Init PROVE Promise!Init
  OBVIOUS
<1>1. Inv
  BY InitInv
<1>2. pc[Ctl] = "down"
  BY DEF Init, InitController
<1>3. ~Running /\ Reading = None /\ Sample = None /\ number = None
  BY <1>2 DEF Init, Running, Boot, Reading, Sample
<1>4. Answers = NoAnswers
  BY <1>1, <1>3, NobodyIsAnswered
<1> QED
  BY <1>1, <1>3, <1>4, MappedTypes
     DEF Promise!Init, Promise!NoAnswers, InForce, Reading, Sample, Answers, NoAnswers

(* While the process does not run, the promise is empty. *)
LEMMA DownRefines ==
  ASSUME Inv, Inv', ~Running, ~Running', number' \in {number, None}
  PROVE  Promise!Stopped
<1>1. /\ Reading = None /\ Sample = None /\ Reading' = None /\ Sample' = None
      /\ Running' = Running
  BY DEF Reading, Sample, Running, Boot
<1>2. minTemp' \in Temps /\ InForce' \in Temps /\ Energised' \in BOOLEAN
  BY MappedNext DEF Mapped
<1>3. Answers' = Answers
  BY MappedNext, NobodyIsAnswered DEF Mapped, NoAnswers
<1> QED
  BY <1>1, <1>2, <1>3 DEF Promise!Stopped, InForce, Reading, Sample, Answers

LEMMA StopRefines ==
  ASSUME Inv, Inv', Running, ~Running', number' = number
  PROVE  Promise!Stop
<1>1. Reading' = None /\ Sample' = None /\ Running' = FALSE
  BY DEF Reading, Sample, Running, Boot
<1>2. /\ minTemp' \in Temps /\ InForce' \in Temps /\ Energised' \in BOOLEAN
      /\ Answers' = NoAnswers
  BY MappedNext DEF Mapped, NoAnswers
<1> QED
  BY <1>1, <1>2
     DEF Promise!Stop, Promise!NoAnswers, InForce, Reading, Sample, Answers, NoAnswers

LEMMA SetupPinLevelRefines ==
  ASSUME Inv, Inv', SetupPinLevel
  PROVE  Promise!Start
<1>1. pc[Ctl] = "pinHigh" /\ pc'[Ctl] = "check" /\ pin' = "HIGH"
  BY DEF SetupPinLevel, InactiveLevel, Goto, Inv, ControllerInv, ControllerTypeOK
<1>2. ~Running /\ Running' /\ Reading' = None /\ Sample' = None /\ Energised' = FALSE
  BY <1>1 DEF Reading, Sample, Running, Boot, Energised
<1>3. minTemp' \in Temps /\ InForce' \in Temps
  BY MappedNext DEF Mapped
<1>4. number' = None
  BY <1>1 DEF SetupPinLevel, Inv, ReadingInv
<1>5. Answers' = Answers
  <2>1. \A w \in Workers : pc'[w] = pc[w] /\ local'[w] = local[w]
    BY ThreadsAssumption DEF SetupPinLevel, Goto, Inv, ControllerInv, ControllerTypeOK
  <2> QED
    BY <2>1, AnswersKept
<1> QED
  BY <1>2, <1>3, <1>4, <1>5 DEF Promise!Start, InForce, Reading, Sample, Answers

LEMMA ReadSensorRefines ==
  ASSUME Inv, Inv', ReadSensor
  PROVE  Promise!Read
<1>1. pc[Ctl] = "check" /\ pc' = [pc EXCEPT ![Ctl] = "params"] /\ pc'[Ctl] = "params"
  BY DEF ReadSensor, CheckTemp, Goto, Inv, ControllerInv, ControllerTypeOK
<1>2. temp' \in Temps /\ UNCHANGED <<minTemp, maxTemp, local, pinMode, pin, number>>
  BY DEF ReadSensor, CheckTemp, bandVars, relayVars
<1>3. Running /\ Running' /\ Energised' = Energised
  BY <1>1, <1>2 DEF Running, Boot, Energised
<1>4. Reading = None /\ Sample = None /\ Reading' = temp' /\ Sample' = None
  BY <1>1 DEF Reading, Sample
<1>5. InForce' = InForce
  <2>1. \A w \in Workers : pc'[w] = pc[w]
    BY <1>1, ThreadsAssumption DEF Inv, ControllerInv, ControllerTypeOK
  <2> QED
    BY <1>2, <2>1, InForceKept
<1>6. Answers' = Answers
  <2>1. \A w \in Workers : pc'[w] = pc[w]
    BY <1>1, ThreadsAssumption DEF Inv, ControllerInv, ControllerTypeOK
  <2> QED
    BY <1>2, <2>1, AnswersKept
<1> QED
  BY <1>2, <1>3, <1>4, <1>5, <1>6 DEF Promise!Read, InForce, Reading, Sample, Answers

LEMMA TakeParametersRefines ==
  ASSUME Inv, Inv', TakeParameters
  PROVE  Promise!TakeSample
<1>1. /\ pc[Ctl] = "copy" /\ pc'[Ctl] = "decide"
      /\ \A w \in Workers : pc'[w] = pc[w]
  BY ThreadsAssumption
     DEF TakeParameters, CtlEndGet, Goto, Inv, ControllerInv, ControllerTypeOK
<1>2. parametersMutex = Ctl /\ parametersMutex' = None
  BY <1>1 DEF TakeParameters, CtlEndGet, EndGetParameters, Inv, ControllerInv, LockInv
<1>3. InForce = maxTemp /\ InForce' = maxTemp'
  BY <1>2, NobodySets, MappedNext, ThreadsAssumption DEF Mapped
<1>4. UNCHANGED <<minTemp, maxTemp, pinMode, pin>>
  BY DEF TakeParameters, CtlEndGet, EndGetParameters, bandVars, relayVars
<1>5. /\ local'[Ctl].minTemp = minTemp /\ local'[Ctl].maxTemp = maxTemp
      /\ local'[Ctl].temp = local[Ctl].temp
  BY DEF TakeParameters, CtlEndGet, EndGetParameters, Inv, TypeOK, ControllerTypeOK, Parameters
<1>6. Running /\ Running' /\ Energised' = Energised
  BY <1>1, <1>4 DEF Running, Boot, Energised
<1>7. Reading = temp /\ Reading # None /\ Sample = None /\ Reading' = None
  <2>1. temp # None
    BY NoneAssumption DEF Inv, TypeOK, ControllerTypeOK
  <2> QED
    BY <1>1, <2>1 DEF Reading, Sample
<1>8. /\ Sample' = [temp |-> Reading, minTemp |-> minTemp, maxTemp |-> InForce]
      /\ number' = Reading
  <2>1. local[Ctl].temp = temp
    BY <1>1 DEF Inv, ReadingInv
  <2>2. number' = Reading
    BY <1>7, <2>1 DEF TakeParameters
  <2> QED
    BY <1>1, <1>3, <1>5, <1>7, <2>1, <2>2 DEF Sample, ThisSample
<1>9. Answers' = Answers
  <2>1. \A w \in Workers : local'[w] = local[w]
    BY ThreadsAssumption DEF TakeParameters, CtlEndGet, EndGetParameters, Inv, ControllerInv,
       ControllerTypeOK
  <2> QED
    BY <1>1, <2>1, AnswersKept
<1> QED
  BY <1>3, <1>4, <1>6, <1>7, <1>8, <1>9
     DEF Promise!TakeSample, InForce, Reading, Sample, Answers

LEMMA DecideRefines ==
  ASSUME Inv, Inv', Decide
  PROVE  Promise!Decide
<1>1. /\ pc[Ctl] = "decide" /\ pc'[Ctl] \in {"offState", "onState", "save"}
      /\ \A w \in Workers : pc'[w] = pc[w]
      /\ UNCHANGED <<minTemp, maxTemp, local, pinMode, number>>
  BY ThreadsAssumption
     DEF Decide, Switch, Goto, bandVars, relayVars, Inv, ControllerInv, ControllerTypeOK
<1>2. /\ Running /\ Running' /\ Sample = ThisSample /\ Sample' = None
      /\ Reading' = Reading
  BY <1>1 DEF Running, Boot, Reading, Sample
<1>3. InForce' = InForce
  BY <1>1, InForceKept
<1>4. /\ local[Ctl].temp \in Int /\ local[Ctl].minTemp \in Int /\ local[Ctl].maxTemp \in Int
      /\ ThisSample # None
  <2>1. local[Ctl].temp \in Int /\ local[Ctl].minTemp \in Int /\ local[Ctl].maxTemp \in Int
    BY TempsAssumption DEF Inv, TypeOK, ControllerTypeOK, Parameters
  <2>2. ThisSample \in Samples
    BY DEF ThisSample, Samples, Inv, TypeOK, ControllerTypeOK, Parameters
  <2> QED
    BY <2>1, <2>2, NoneAssumption
<1>5. Energised <=> state
  BY <1>1, <1>2 DEF Inv, RelayInv, RelayAgreesWithPin
<1>6. Promise!Allowed(ThisSample, Energised, Energised')
  <2> USE <1>1, <1>4, <1>5 DEF Promise!Allowed, ThisSample, TooWarm, TooCold
  <2>1. CASE TooWarm /\ Switch("HIGH", "offState")
    <3>1. Energised' = FALSE
      BY <2>1 DEF Switch, Energised
    <3> QED
      BY <2>1, <3>1
  <2>2. CASE ~TooWarm /\ TooCold /\ Switch("LOW", "onState")
    <3>1. Energised' = TRUE
      BY <2>2, <1>2 DEF Switch, Energised, Inv, RelayInv
    <3> QED
      BY <2>2, <3>1
  <2>3. CASE ~TooWarm /\ ~TooCold /\ UNCHANGED relayVars
    <3>1. Energised' = Energised
      BY <2>3 DEF Energised, relayVars
    <3> QED
      BY <2>3, <3>1
  <2> QED
    BY <2>1, <2>2, <2>3 DEF Decide
<1>7. Energised' \in BOOLEAN
  BY MappedNext DEF Mapped
<1>8. Answers' = Answers
  BY <1>1, AnswersKept
<1> QED
  BY <1>1, <1>2, <1>3, <1>4, <1>6, <1>7, <1>8
     DEF Promise!Decide, InForce, Reading, Sample, Answers

(* The other steps of the loop leave the reading and the sample alone. *)
LEMMA LoopRefines ==
  ASSUME Inv, AskParameters \/ SetRelayState \/ LogSwitch \/ SaveIfDue \/ CtlToDisk
  PROVE  UNCHANGED Promise!vars
<1> DEFINE others == CtlLabels \ {"params", "copy", "decide"}
<1>1. /\ \/ pc[Ctl] = "params" /\ pc'[Ctl] = "copy" /\ temp' = temp
         \/ pc[Ctl] \in others /\ pc'[Ctl] \in others
      /\ \A w \in Workers : pc'[w] = pc[w] /\ local'[w] = local[w]
      /\ UNCHANGED <<minTemp, maxTemp, relayVars, number>>
  <2> USE ThreadsAssumption DEF Goto, CtlLabels, bandVars, Inv, ControllerInv, ControllerTypeOK
  <2>1. CASE AskParameters
    BY <2>1 DEF AskParameters, CtlBeginGet, BeginGetParameters
  <2>2. CASE SetRelayState
    BY <2>2 DEF SetRelayState, SetState
  <2>3. CASE LogSwitch
    BY <2>3 DEF LogSwitch, InsertState
  <2>4. CASE SaveIfDue
    BY <2>4 DEF SaveIfDue, Save, ToDiskReadMin
  <2>5. CASE CtlToDisk
    BY <2>5 DEF CtlToDisk, ToDisk, ToDiskReadMax, ToDiskOpen, ToDiskWrite, AfterToDisk
  <2> QED
    BY <2>1, <2>2, <2>3, <2>4, <2>5
<1>2. Running' = Running /\ Reading' = Reading /\ Sample' = Sample
  BY <1>1 DEF Running, Boot, CtlLabels, Reading, Sample
<1>3. Energised' = Energised
  BY <1>1 DEF Energised, relayVars
<1>4. InForce' = InForce /\ Answers' = Answers
  BY <1>1, InForceKept, AnswersKept
<1> QED
  BY <1>1, <1>2, <1>3, <1>4, Unobserved

(* What a step of a worker leaves alone of the promise. *)
LEMMA WorkerLeaves ==
  ASSUME Inv, NEW w \in Workers, WorkerStarts(w) \/ WorkerFinishes(w)
  PROVE  /\ Running /\ Running' = Running /\ Energised' = Energised
         /\ Reading' = Reading /\ Sample' = Sample /\ number' = number
<1>1. (StartRequest(w) \/ FinishRequest(w)) /\ UNCHANGED <<relayVars, number>>
  BY DEF WorkerStarts, WorkerFinishes
<1>2. pc'[Ctl] = pc[Ctl] /\ local'[Ctl] = local[Ctl] /\ temp' = temp
  BY <1>1, WorkerFrame
<1>3. Running
  <2>1. CASE StartRequest(w)
    BY <2>1 DEF StartRequest, BeginGet, BeginSetParameters, SetOneBound, Shutdown
  <2>2. CASE FinishRequest(w)
    <3>1. pc[w] # "idle"
      BY <2>2 DEF FinishRequest, EndGet, Reply, EndSetParameters, ToDisk, ToDiskReadMax,
         ToDiskOpen, ToDiskWrite, Goto
    <3> QED
      BY <3>1 DEF Inv, ControllerInv, LockInv
  <2> QED
    BY <1>1, <2>1, <2>2
<1>4. Running' = Running /\ Reading' = Reading /\ Sample' = Sample
  BY <1>2, <1>3 DEF Running, Reading, Sample, ThisSample
<1> QED
  BY <1>1, <1>3, <1>4 DEF Energised, relayVars

(* Only the two setters that a client calls change the band in force, and  *)
(* setParameters() changes both bounds of it in its first step.            *)
LEMMA BeginSetParametersRefines ==
  ASSUME Inv, NEW w \in Workers, NEW b \in Choices, BeginSetParameters(w, b[1], b[2])
  PROVE  minTemp' = b[1] /\ InForce' = b[2]
<1>1. pc[w] = "idle" /\ pc' = [pc EXCEPT ![w] = "set"] /\ parametersMutex = None
  BY DEF BeginSetParameters, Goto, MutexFree
<1>2. SettingWorkers = {}
  BY <1>1, ThreadsAssumption DEF SettingWorkers, Inv, ControllerInv, LockInv
<1>3. SettingWorkers' = {w}
  BY <1>1, <1>2 DEF SettingWorkers, Inv, ControllerInv, ControllerTypeOK
<1>4. minTemp' = b[1] /\ local'[w].maxTemp = b[2]
  BY DEF BeginSetParameters, Inv, ControllerInv, ControllerTypeOK, Parameters
<1> QED
  BY <1>3, <1>4 DEF InForce

LEMMA EndSetParametersRefines ==
  ASSUME Inv, NEW w \in Workers, EndSetParameters(w)
  PROVE  minTemp' = minTemp /\ InForce' = InForce
<1>1. pc[w] = "set" /\ pc' = [pc EXCEPT ![w] = "idle"]
  BY DEF EndSetParameters, Goto
<1>2. SettingWorkers = {w}
  BY <1>1 DEF SettingWorkers, Inv, ControllerInv, LockInv
<1>3. SettingWorkers' = {}
  BY <1>1, <1>2 DEF SettingWorkers, Inv, ControllerInv, ControllerTypeOK
<1>4. minTemp' = minTemp /\ maxTemp' = local[w].maxTemp
  BY DEF EndSetParameters
<1> QED
  BY <1>2, <1>3, <1>4 DEF InForce

LEMMA SetOneBoundRefines ==
  ASSUME Inv, NEW w \in Workers, NEW b \in Choices, SetOneBound(w, b[1], b[2])
  PROVE  minTemp' \in {minTemp, b[1]} /\ InForce' \in {InForce, b[2]}
<1>1. SettingWorkers = {} /\ SettingWorkers' = {}
  BY ThreadsAssumption DEF SetOneBound, MutexFree, lockVars, SettingWorkers, Inv, ControllerInv,
     LockInv
<1>2. minTemp' \in {minTemp, b[1]} /\ maxTemp' \in {maxTemp, b[2]}
  BY DEF SetOneBound
<1> QED
  BY <1>1, <1>2 DEF InForce

(* A worker that sets the band, asks for it or saves it answers nobody. *)
LEMMA OthersAnswer ==
  ASSUME Inv, NEW w \in Workers,
         \/ \E b \in Choices : BeginSetParameters(w, b[1], b[2]) \/ SetOneBound(w, b[1], b[2])
         \/ EndSetParameters(w) \/ BeginGet(w) \/ Shutdown(w) \/ ToDisk(w)
  PROVE  Answers' = Answers
<1>1. /\ \A v \in Workers \ {w} : pc'[v] = pc[v] /\ local'[v] = local[v]
      /\ pc[w] # "reply" /\ pc'[w] # "reply"
  <2> USE ThreadsAssumption DEF Goto, Inv, ControllerInv, ControllerTypeOK
  <2>1. CASE \E b \in Choices : BeginSetParameters(w, b[1], b[2]) \/ SetOneBound(w, b[1], b[2])
    BY <2>1 DEF BeginSetParameters, SetOneBound, lockVars
  <2>2. CASE EndSetParameters(w) \/ BeginGet(w)
    BY <2>2 DEF EndSetParameters, BeginGet, BeginGetParameters
  <2>3. CASE Shutdown(w)
    BY <2>3 DEF Shutdown, ToDiskReadMin
  <2>4. CASE ToDisk(w)
    BY <2>4 DEF ToDisk, ToDiskReadMax, ToDiskOpen, ToDiskWrite, AfterToDisk
  <2> QED
    BY <2>1, <2>2, <2>3, <2>4
<1> QED
  BY <1>1, AnswersKept

(* Asking for the band, replying with it and saving it change nothing. *)
LEMMA GetAndSaveRefine ==
  ASSUME Inv, NEW w \in Workers,
         BeginGet(w) \/ EndGet(w) \/ Reply(w) \/ Shutdown(w) \/ ToDisk(w)
  PROVE  minTemp' = minTemp /\ InForce' = InForce
<1>1. /\ UNCHANGED <<minTemp, maxTemp>>
      /\ pc[w] # "set" /\ pc'[w] # "set"
      /\ \A v \in Workers \ {w} : pc'[v] = pc[v] /\ local'[v] = local[v]
  <2> USE ThreadsAssumption DEF Goto, bandVars, Inv, ControllerInv, ControllerTypeOK
  <2>1. CASE BeginGet(w) \/ EndGet(w) \/ Reply(w)
    BY <2>1 DEF BeginGet, BeginGetParameters, EndGet, EndGetParameters, Reply
  <2>2. CASE Shutdown(w)
    BY <2>2 DEF Shutdown, ToDiskReadMin
  <2>3. CASE ToDisk(w)
    BY <2>3 DEF ToDisk, ToDiskReadMax, ToDiskOpen, ToDiskWrite, AfterToDisk
  <2> QED
    BY <2>1, <2>2, <2>3
<1> QED
  BY <1>1, InForceKept

(* A worker that has asked holds the mutex, so that no other worker is in  *)
(* setParameters(): what it copies is the band in force.                   *)
LEMMA EndGetRefines ==
  ASSUME Inv, NEW w \in Workers, EndGet(w)
  PROVE  Answers[w] = None /\ Answers' = [Answers EXCEPT ![w] = <<minTemp, InForce>>]
<1>1. pc[w] = "get" /\ pc' = [pc EXCEPT ![w] = "reply"]
  BY DEF EndGet, Goto
<1>2. SettingWorkers = {}
  BY <1>1 DEF SettingWorkers, Inv, ControllerInv, LockInv
<1>3. /\ local'[w].minTemp = minTemp /\ local'[w].maxTemp = maxTemp
      /\ \A v \in Workers \ {w} : local'[v] = local[v]
  BY DEF EndGet, EndGetParameters, Inv, ControllerInv, ControllerTypeOK, Parameters
<1>4. pc'[w] = "reply" /\ \A v \in Workers \ {w} : pc'[v] = pc[v]
  BY <1>1 DEF Inv, ControllerInv, ControllerTypeOK
<1>5. InForce = maxTemp
  BY <1>2 DEF InForce
<1> QED
  BY <1>1, <1>3, <1>4, <1>5 DEF Answers

LEMMA ReplyRefines ==
  ASSUME Inv, NEW w \in Workers, Reply(w)
  PROVE  Answers[w] # None /\ Answers' = [Answers EXCEPT ![w] = None]
<1>1. pc[w] = "reply" /\ pc' = [pc EXCEPT ![w] = "idle"]
  BY DEF Reply, Goto
<1>2. pc'[w] = "idle" /\ \A v \in Workers \ {w} : pc'[v] = pc[v] /\ local'[v] = local[v]
  BY <1>1 DEF Reply, Inv, ControllerInv, ControllerTypeOK
<1>3. <<local[w].minTemp, local[w].maxTemp>> # None
  <2>1. <<local[w].minTemp, local[w].maxTemp>> \in Bands
    BY DEF Inv, ControllerInv, ControllerTypeOK, Parameters
  <2> QED
    BY <2>1, NoneAssumption
<1> QED
  BY <1>1, <1>2, <1>3 DEF Answers

LEMMA WorkerRefines ==
  ASSUME Inv, NEW w \in Workers, WorkerStarts(w) \/ WorkerFinishes(w)
  PROVE  Promise!Next \/ UNCHANGED Promise!vars
<1>1. CASE \E b \in Choices : BeginSetParameters(w, b[1], b[2]) \/ SetOneBound(w, b[1], b[2])
  <2>1. PICK b \in Choices : BeginSetParameters(w, b[1], b[2]) \/ SetOneBound(w, b[1], b[2])
    BY <1>1
  <2>2. Answers' = Answers
    BY <2>1, OthersAnswer
  <2>3. minTemp' \in {minTemp, b[1]} /\ InForce' \in {InForce, b[2]}
    <3>1. CASE BeginSetParameters(w, b[1], b[2])
      BY <3>1, BeginSetParametersRefines
    <3>2. CASE SetOneBound(w, b[1], b[2])
      BY <3>2, SetOneBoundRefines
    <3> QED
      BY <2>1, <3>1, <3>2
  <2>4. Promise!SetBand
    BY <2>2, <2>3, WorkerLeaves DEF Promise!SetBand, InForce, Reading, Sample, Answers
  <2> QED
    BY <2>4 DEF Promise!Next
<1>2. CASE BeginGet(w) \/ Shutdown(w) \/ EndSetParameters(w) \/ ToDisk(w)
  <2>1. minTemp' = minTemp /\ InForce' = InForce /\ Answers' = Answers
    BY <1>2, EndSetParametersRefines, GetAndSaveRefine, OthersAnswer
  <2> QED
    BY <2>1, WorkerLeaves, Unobserved
<1>3. CASE EndGet(w)
  <2>1. Promise!Answer(w)
    BY <1>3, EndGetRefines, GetAndSaveRefine, WorkerLeaves
       DEF Promise!Answer, InForce, Reading, Sample, Answers
  <2> QED
    BY <2>1 DEF Promise!Next
<1>4. CASE Reply(w)
  <2>1. Promise!Leave(w)
    BY <1>4, ReplyRefines, GetAndSaveRefine, WorkerLeaves
       DEF Promise!Leave, InForce, Reading, Sample, Answers
  <2> QED
    BY <2>1 DEF Promise!Next
<1> QED
  BY <1>1, <1>2, <1>3, <1>4 DEF WorkerStarts, WorkerFinishes, StartRequest, FinishRequest

LEMMA StutterRefines ==
  ASSUME UNCHANGED vars
  PROVE  UNCHANGED Promise!vars
BY DEF vars, controllerVars, bandVars, lockVars, relayVars, Promise!vars, Running, Energised,
   SettingWorkers, ThisSample

LEMMA NextRefines == Inv /\ Inv' /\ [Next]_vars => [Promise!Next]_Promise!vars
<1> SUFFICES ASSUME Inv, Inv', [Next]_vars
             PROVE  Promise!Next \/ UNCHANGED Promise!vars
  OBVIOUS
<1>1. CASE Start \/ SetupPinMode
  <2>1. ~Running /\ ~Running' /\ number' \in {number, None}
    BY <1>1 DEF Start, Construct, SetupPinMode, Goto, Running, Boot, Inv, ControllerInv,
       ControllerTypeOK
  <2> QED
    BY <2>1, DownRefines DEF Promise!Next
<1>2. CASE SetupPinLevel
  BY <1>2, SetupPinLevelRefines DEF Promise!Next
<1>3. CASE StartFails
  BY <1>3, StutterRefines DEF StartFails, ConstructThrows, vars
<1>4. CASE Crash
  <2>1. ~Running' /\ number' = number
    BY <1>4 DEF Crash, Die, Running, Boot
  <2> QED
    BY <2>1, DownRefines, StopRefines DEF Promise!Next
<1>5. CASE TakeParameters
  BY <1>5, TakeParametersRefines DEF Promise!Next
<1>6. CASE Decide
  BY <1>6, DecideRefines DEF Promise!Next
<1>7. CASE AskParameters \/ SetRelayState \/ LogSwitch \/ SaveIfDue \/ CtlToDisk
  BY <1>7, LoopRefines DEF Promise!Next
<1>8. CASE \E w \in Workers : WorkerStarts(w) \/ WorkerFinishes(w)
  BY <1>8, WorkerRefines DEF Promise!Next
<1>9. CASE UNCHANGED vars
  BY <1>9, StutterRefines
<1>10. CASE ReadSensor
  BY <1>10, ReadSensorRefines DEF Promise!Next
<1>11. CASE ClockIsSet
  BY <1>11 DEF ClockIsSet, SetClock, bandVars, lockVars, relayVars, Promise!vars, Running,
     Energised, SettingWorkers, ThisSample
<1> QED
  BY <1>1, <1>2, <1>3, <1>4, <1>5, <1>6, <1>7, <1>8, <1>9, <1>10, <1>11
     DEF Next, BootStep, LoopStep

(* HardwareController, with its lock, its relay and the requests beside    *)
(* the loop, keeps the promise of Thermostat.                              *)
THEOREM Refinement == Spec => ImplementsThermostat
  BY InvHolds, InitRefines, NextRefines, PTL DEF Spec, ImplementsThermostat, Promise!Spec
=============================================================================
