------------------- MODULE HardwarelessController_proofs -------------------
(***************************************************************************)
(* The safety properties of HardwarelessController, from what              *)
(* Controller_proofs says of the base class.                               *)
(***************************************************************************)
EXTENDS HardwarelessController, Controller_proofs

USE DEF Threads, Bands, diskVars

LogTypeOK == stateRow \in {"none", "on", "off"} /\ rowLost \in BOOLEAN
IInv == ControllerInv /\ LogTypeOK

LEMMA InitIInv == Init => IInv
  BY InitEstablishes DEF Init, IInv, LogTypeOK

LEMMA DecidePreserves ==
  ASSUME IInv, Decide
  PROVE  IInv'
<1>1. PICK to \in {"insertTrue", "insertFalse", "save"} :
        /\ Goto(Ctl, "decide", to)
        /\ UNCHANGED <<bandVars, temp, parametersMutex, local, diskVars, sinceSave,
                       boundVars, tempRead, logVars>>
        /\ state' \in BOOLEAN
  BY DEF Decide, SetState, IInv, ControllerInv, ControllerTypeOK
<1>2. ControllerInv'
  BY <1>1, LoopMoves DEF IInv
<1> QED
  BY <1>1, <1>2 DEF IInv, LogTypeOK, logVars

LEMMA LogSwitchPreserves ==
  ASSUME IInv, LogSwitch
  PROVE  IInv'
<1>1. PICK from \in {"insertTrue", "insertFalse"}, row \in {"on", "off"} : InsertState(from, row)
  BY DEF LogSwitch
<1>2. state' \in BOOLEAN
  BY <1>1 DEF InsertState, IInv, ControllerInv, ControllerTypeOK
<1>3. ControllerInv'
  BY <1>1, <1>2, LoopMoves DEF InsertState, IInv
<1> QED
  BY <1>1, <1>3 DEF InsertState, IInv, LogTypeOK

LEMMA NextIInv == IInv /\ [Next]_vars => IInv'
<1> SUFFICES ASSUME IInv, [Next]_vars PROVE IInv'
  OBVIOUS
<1> USE DEF IInv, LogTypeOK, logVars
<1>1. CASE Start
  BY <1>1, ConstructPreserves DEF Start
<1>2. CASE StartFails \/ UNCHANGED vars
  BY <1>2, StutterPreserves DEF StartFails, ConstructThrows, vars
<1>3. CASE Crash
  BY <1>3, DiePreserves DEF Crash
<1>4. CASE ReadSensor
  BY <1>4, CheckTempPreserves DEF ReadSensor
<1>5. CASE AskParameters
  BY <1>5, CtlBeginGetPreserves DEF AskParameters
<1>6. CASE TakeParameters
  BY <1>6, CtlEndGetPreserves DEF TakeParameters
<1>7. CASE Decide
  BY <1>7, DecidePreserves
<1>8. CASE LogSwitch
  BY <1>8, LogSwitchPreserves
<1>9. CASE SaveIfDue
  BY <1>9, SavePreserves DEF SaveIfDue
<1>10. CASE CtlToDisk
  BY <1>10, ToDiskPreserves DEF CtlToDisk
<1>11. ASSUME NEW w \in Workers, WorkerStarts(w) \/ WorkerFinishes(w)
       PROVE  IInv'
  BY <1>11, WorkerPreserves DEF WorkerStarts, WorkerFinishes
<1>12. CASE ClockIsSet
  BY <1>12, SetClockPreserves DEF ClockIsSet
<1> QED
  BY <1>1, <1>2, <1>3, <1>4, <1>5, <1>6, <1>7, <1>8, <1>9, <1>10, <1>11, <1>12
     DEF Next, LoopStep

-----------------------------------------------------------------------------
(* The state of the loop without hardware keeps its type.                  *)
THEOREM TypeCorrect == Spec => []TypeOK
<1>1. IInv => TypeOK
  BY DEF IInv, LogTypeOK, ControllerInv, TypeOK
<1> QED
  BY <1>1, InitIInv, NextIInv, PTL DEF Spec

(* getParameters() does not mix the bounds of two bands here either.       *)
THEOREM SnapshotsAreConsistent == Spec => []SnapshotConsistent
<1>1. IInv => SnapshotConsistent
  BY DEF IInv, ControllerInv
<1> QED
  BY <1>1, InitIInv, NextIInv, PTL DEF Spec

(* Nor does a save leave half a file or an old band, unless a setter or    *)
(* another save gets in its way.                                           *)
THEOREM SavesAreWhole == Spec => UndisturbedSavesAreWhole
<1>1. ASSUME ControllerInv, [Next]_vars, NEW t \in Threads
      PROVE  SavesWhole(t)
  <2> SUFFICES ASSUME EndsSave(t)
               PROVE  SavesWhole(t)
    BY DEF SavesWhole
  <2>1. CASE \E w \in Workers : WorkerStarts(w) \/ WorkerFinishes(w)
    BY <1>1, <2>1, WorkerEndsSave, WriteIsWhole DEF WorkerStarts, WorkerFinishes
  <2>2. CASE CtlToDisk
    <3>1. CASE ToDiskWrite(Ctl)
      <4>1. t = Ctl
        BY <1>1, <3>1 DEF ToDiskWrite, Goto, EndsSave, ControllerInv, ControllerTypeOK
      <4> QED
        BY <1>1, <3>1, <4>1, WriteIsWhole
    <3>2. CASE ToDiskReadMax(Ctl) \/ ToDiskOpen(Ctl)
      BY <1>1, <3>2, LoopEndsSave DEF ToDiskReadMax, ToDiskOpen
    <3> QED
      BY <2>2, <3>1, <3>2 DEF CtlToDisk, ToDisk
  <2>3. ~Crash /\ ~ClockIsSet
    BY DEF Crash, Die, ClockIsSet, SetClock, lockVars, EndsSave
  <2>4. CASE StartFails \/ UNCHANGED vars
    BY <2>4 DEF StartFails, ConstructThrows, vars, controllerVars, lockVars, EndsSave
  <2>5. CASE Start \/ AskParameters \/ ReadSensor \/ TakeParameters
    BY <1>1, <2>5, LoopEndsSave DEF Start, Construct, AskParameters, CtlBeginGet, ReadSensor,
       CheckTemp, TakeParameters, CtlEndGet
  <2>6. CASE Decide \/ LogSwitch \/ SaveIfDue
    BY <1>1, <2>6, LoopEndsSave DEF Decide, SetState, LogSwitch, InsertState, SaveIfDue, Save,
       ToDiskReadMin
  <2> QED
    BY <1>1, <2>1, <2>2, <2>3, <2>4, <2>5, <2>6 DEF Next, LoopStep
<1>2. IInv /\ [Next]_vars => [\A t \in Threads : SavesWhole(t)]_controllerVars
  BY <1>1 DEF IInv
<1> QED
  BY <1>2, InitIInv, NextIInv, PTL DEF Spec, UndisturbedSavesAreWhole, SavesWhole

=============================================================================
