------------------------- MODULE Controller_proofs -------------------------
(***************************************************************************)
(* Every step of the Controller base class preserves ControllerInv: the    *)
(* lemmas that the proofs about the two subclasses share.                  *)
(***************************************************************************)
EXTENDS Controller, TLAPS

USE DEF Threads, Bands, diskVars

LEMMA UnsetType == Unset \in Temps
  BY TempsAssumption DEF Unset

LEMMA NoLocalType == NoLocal \in Parameters
  BY UnsetType DEF NoLocal, Parameters

LEMMA TextLengthType == \A b \in Bands : TextLength[b] \in Nat /\ TextLength[b] # 0
  BY TextAssumption

(* What getParameters() copies is a Parameters record. *)
LEMMA CopyType ==
  ASSUME ControllerTypeOK, NEW t \in Threads, EndGetParameters(t)
  PROVE  local' \in [Threads -> Parameters]
<1> DEFINE copy == [local[t] EXCEPT !.minTemp = minTemp, !.maxTemp = maxTemp, !.state = state]
<1>1. local \in [Threads -> Parameters] /\ local[t] \in Parameters
  BY DEF ControllerTypeOK
<1>2. minTemp \in Temps /\ maxTemp \in Temps /\ state \in BOOLEAN
  BY DEF ControllerTypeOK
<1>3. copy \in Parameters
  BY <1>1, <1>2 DEF Parameters
<1>4. local' = [local EXCEPT ![t] = copy]
  BY <1>1 DEF EndGetParameters
<1> QED
  BY <1>1, <1>3, <1>4

(* The state after a step that moves the loop from one label to another    *)
(* and leaves alone everything the invariant is about but state.           *)
LEMMA LoopMoves ==
  ASSUME ControllerInv, NEW from, NEW to, Goto(Ctl, from, to),
         from \in {"decide", "offState", "onState", "insertTrue", "insertFalse"},
         to \in {"offState", "onState", "insertTrue", "insertFalse", "save"},
         state' \in BOOLEAN,
         UNCHANGED <<bandVars, temp, parametersMutex, local, diskVars, sinceSave,
                     boundVars, tempRead>>
  PROVE  ControllerInv'
<1>0. /\ pc[Ctl] = from
      /\ pc' = [pc EXCEPT ![Ctl] = to]
  BY DEF Goto
<1>1. ControllerTypeOK'
  BY <1>0, ThreadsAssumption DEF ControllerInv, ControllerTypeOK, bandVars, boundVars,
     CtlLabels
<1>2. LockInv'
  BY <1>0, ThreadsAssumption DEF ControllerInv, ControllerTypeOK, LockInv, Running, Boot
<1>3. BandInForce'
  BY <1>0, ThreadsAssumption DEF ControllerInv, ControllerTypeOK, BandInForce, bandVars
<1>4. SnapshotConsistent'
  BY <1>0, ThreadsAssumption
     DEF ControllerInv, ControllerTypeOK, SnapshotConsistent, bandVars
<1>5. SaveInv'
  <2>1. pc'[Ctl] = to /\ \A t \in Threads \ {Ctl} : pc'[t] = pc[t]
    BY <1>0 DEF ControllerInv, ControllerTypeOK
  <2>2. Saving' = Saving /\ Ctl \notin Saving /\ SettingWorkers' = SettingWorkers
    BY <1>0, <2>1, ThreadsAssumption DEF Saving, SettingWorkers
  <2>3. \A t \in Saving : t \in Threads /\ pc'[t] = pc[t] /\ local' = local
    BY <2>1, <2>2 DEF Saving
  <2>4. UNCHANGED <<minTemp, maxTemp, parametersFile, disturbed>>
    BY DEF bandVars
  <2> QED
    BY <2>2, <2>3, <2>4 DEF ControllerInv, SaveInv
<1> QED
  BY <1>1, <1>2, <1>3, <1>4, <1>5 DEF ControllerInv

(* The steps of a request. *)
LEMMA BeginGetPreserves ==
  ASSUME ControllerInv, NEW w \in Workers, BeginGet(w)
  PROVE  ControllerInv'
<1> USE DEF BeginGet, BeginGetParameters, Goto, MutexFree, bandVars
<1>1. ControllerTypeOK'
  BY ThreadsAssumption, BoundsAssumption
     DEF ControllerInv, ControllerTypeOK, WorkerLabels, Parameters
<1>2. LockInv'
  BY ThreadsAssumption
     DEF ControllerInv, ControllerTypeOK, LockInv, Running, Boot
<1>3. BandInForce'
  BY ThreadsAssumption
     DEF ControllerInv, ControllerTypeOK, BandInForce
<1>4. SnapshotConsistent'
  BY ThreadsAssumption
     DEF ControllerInv, ControllerTypeOK, SnapshotConsistent
<1>5. SaveInv'
  BY ThreadsAssumption
     DEF ControllerInv, ControllerTypeOK, SaveInv, Saving, SettingWorkers
<1> QED
  BY <1>1, <1>2, <1>3, <1>4, <1>5 DEF ControllerInv

LEMMA EndGetPreserves ==
  ASSUME ControllerInv, NEW w \in Workers, EndGet(w)
  PROVE  ControllerInv'
<1> USE DEF EndGet, EndGetParameters, Goto, bandVars, boundVars
<1>1. ControllerTypeOK'
  <2>1. local' \in [Threads -> Parameters]
    <3>1. EndGetParameters(w) /\ w \in Threads /\ ControllerTypeOK
      BY DEF ControllerInv
    <3> QED
      BY <3>1, CopyType
  <2> QED
    BY <2>1, ThreadsAssumption DEF ControllerInv, ControllerTypeOK, WorkerLabels
<1>2. LockInv'
  BY ThreadsAssumption
     DEF ControllerInv, ControllerTypeOK, LockInv, Running, Boot
<1>3. BandInForce'
  BY ThreadsAssumption
     DEF ControllerInv, ControllerTypeOK, BandInForce
<1>4. SnapshotConsistent'
  BY ThreadsAssumption
     DEF ControllerInv, ControllerTypeOK, SnapshotConsistent, LockInv, BandInForce, Running, Boot
<1>5. SaveInv'
  BY ThreadsAssumption
     DEF ControllerInv, ControllerTypeOK, SaveInv, Saving, SettingWorkers
<1> QED
  BY <1>1, <1>2, <1>3, <1>4, <1>5 DEF ControllerInv

LEMMA ReplyPreserves ==
  ASSUME ControllerInv, NEW w \in Workers, Reply(w)
  PROVE  ControllerInv'
<1> USE DEF Reply, Goto, bandVars, boundVars
<1>1. ControllerTypeOK'
  BY ThreadsAssumption, NoLocalType
     DEF ControllerInv, ControllerTypeOK, WorkerLabels
<1>2. LockInv'
  BY ThreadsAssumption
     DEF ControllerInv, ControllerTypeOK, LockInv, Running, Boot
<1>3. BandInForce'
  BY ThreadsAssumption
     DEF ControllerInv, ControllerTypeOK, BandInForce
<1>4. SnapshotConsistent'
  BY ThreadsAssumption
     DEF ControllerInv, ControllerTypeOK, SnapshotConsistent
<1>5. SaveInv'
  BY ThreadsAssumption
     DEF ControllerInv, ControllerTypeOK, SaveInv, Saving, SettingWorkers
<1> QED
  BY <1>1, <1>2, <1>3, <1>4, <1>5 DEF ControllerInv

LEMMA BeginSetParametersPreserves ==
  ASSUME ControllerInv, NEW w \in Workers, NEW b \in Choices, BeginSetParameters(w, b[1], b[2])
  PROVE  ControllerInv'
<1> USE DEF BeginSetParameters, Goto, MutexFree
<1>1. ControllerTypeOK'
  BY ThreadsAssumption, TempsAssumption, BoundsAssumption
     DEF Saving, ControllerInv, ControllerTypeOK, WorkerLabels, Parameters
<1>2. LockInv'
  BY ThreadsAssumption
     DEF ControllerInv, ControllerTypeOK, LockInv, Running, Boot
<1>3. BandInForce'
  BY ThreadsAssumption
     DEF ControllerInv, ControllerTypeOK, BandInForce
<1>4. SnapshotConsistent'
  BY ThreadsAssumption
     DEF ControllerInv, ControllerTypeOK, SnapshotConsistent
<1>5. SaveInv'
  BY ThreadsAssumption
     DEF ControllerInv, ControllerTypeOK, SaveInv, Saving, SettingWorkers
<1> QED
  BY <1>1, <1>2, <1>3, <1>4, <1>5 DEF ControllerInv

LEMMA EndSetParametersPreserves ==
  ASSUME ControllerInv, NEW w \in Workers, EndSetParameters(w)
  PROVE  ControllerInv'
<1> USE DEF EndSetParameters, Goto, boundVars
<1>1. ControllerTypeOK'
  BY ThreadsAssumption, NoLocalType
     DEF ControllerInv, ControllerTypeOK, WorkerLabels, Parameters
<1>2. LockInv'
  BY ThreadsAssumption
     DEF ControllerInv, ControllerTypeOK, LockInv, Running, Boot
<1>3. BandInForce'
  BY ThreadsAssumption
     DEF ControllerInv, ControllerTypeOK, BandInForce, LockInv
<1>4. SnapshotConsistent'
  BY ThreadsAssumption
     DEF ControllerInv, ControllerTypeOK, SnapshotConsistent
<1>5. SaveInv'
  BY ThreadsAssumption
     DEF ControllerInv, ControllerTypeOK, SaveInv, Saving, SettingWorkers
<1> QED
  BY <1>1, <1>2, <1>3, <1>4, <1>5 DEF ControllerInv

LEMMA SetOneBoundPreserves ==
  ASSUME ControllerInv, NEW w \in Workers, NEW b \in Choices, SetOneBound(w, b[1], b[2])
  PROVE  ControllerInv'
<1> USE DEF SetOneBound, MutexFree, lockVars
<1>1. ControllerTypeOK'
  BY ThreadsAssumption, TempsAssumption, BoundsAssumption
     DEF Saving, ControllerInv, ControllerTypeOK, WorkerLabels
<1>2. LockInv'
  BY ThreadsAssumption
     DEF ControllerInv, ControllerTypeOK, LockInv, Running, Boot
<1>3. BandInForce'
  BY ThreadsAssumption
     DEF ControllerInv, ControllerTypeOK, BandInForce
<1>4. SnapshotConsistent'
  BY ThreadsAssumption
     DEF ControllerInv, ControllerTypeOK, SnapshotConsistent
<1>5. SaveInv'
  BY ThreadsAssumption
     DEF ControllerInv, ControllerTypeOK, SaveInv, Saving, SettingWorkers
<1> QED
  BY <1>1, <1>2, <1>3, <1>4, <1>5 DEF ControllerInv

LEMMA ShutdownPreserves ==
  ASSUME ControllerInv, NEW w \in Workers, Shutdown(w)
  PROVE  ControllerInv'
<1> USE DEF Shutdown, ToDiskReadMin, Goto, bandVars
<1>1. ControllerTypeOK'
  BY ThreadsAssumption, BoundsAssumption
     DEF Saving, ControllerInv, ControllerTypeOK, WorkerLabels, Parameters
<1>2. LockInv'
  BY ThreadsAssumption
     DEF ControllerInv, ControllerTypeOK, LockInv, Running, Boot
<1>3. BandInForce'
  BY ThreadsAssumption
     DEF ControllerInv, ControllerTypeOK, BandInForce
<1>4. SnapshotConsistent'
  BY ThreadsAssumption
     DEF ControllerInv, ControllerTypeOK, SnapshotConsistent
<1>5. SaveInv'
  BY ThreadsAssumption
     DEF ControllerInv, ControllerTypeOK, SaveInv, Saving, SettingWorkers
<1> QED
  BY <1>1, <1>2, <1>3, <1>4, <1>5 DEF ControllerInv

(* toDisk(), by whichever thread. *)
LEMMA ToDiskReadMaxPreserves ==
  ASSUME ControllerInv, NEW t \in Threads, ToDiskReadMax(t)
  PROVE  ControllerInv'
<1> USE DEF ToDiskReadMax, Goto, bandVars, boundVars
<1>1. ControllerTypeOK'
  BY ThreadsAssumption
     DEF ControllerInv, ControllerTypeOK, WorkerLabels, CtlLabels, Parameters
<1>2. LockInv'
  BY ThreadsAssumption
     DEF ControllerInv, ControllerTypeOK, LockInv, Running, Boot
<1>3. BandInForce'
  BY ThreadsAssumption
     DEF ControllerInv, ControllerTypeOK, BandInForce
<1>4. SnapshotConsistent'
  BY ThreadsAssumption
     DEF ControllerInv, ControllerTypeOK, SnapshotConsistent
<1>5. SaveInv'
  BY ThreadsAssumption
     DEF ControllerInv, ControllerTypeOK, SaveInv, Saving, SettingWorkers
<1> QED
  BY <1>1, <1>2, <1>3, <1>4, <1>5 DEF ControllerInv

LEMMA ToDiskOpenPreserves ==
  ASSUME ControllerInv, NEW t \in Threads, ToDiskOpen(t)
  PROVE  ControllerInv'
<1> USE DEF ToDiskOpen, Truncated, Goto, bandVars, boundVars
<1>1. ControllerTypeOK'
  BY ThreadsAssumption
     DEF ControllerInv, ControllerTypeOK, WorkerLabels, CtlLabels
<1>2. LockInv'
  BY ThreadsAssumption
     DEF ControllerInv, ControllerTypeOK, LockInv, Running, Boot
<1>3. BandInForce'
  BY ThreadsAssumption
     DEF ControllerInv, ControllerTypeOK, BandInForce
<1>4. SnapshotConsistent'
  BY ThreadsAssumption
     DEF ControllerInv, ControllerTypeOK, SnapshotConsistent
<1>5. SaveInv'
  BY ThreadsAssumption
     DEF ControllerInv, ControllerTypeOK, SaveInv, Saving, SettingWorkers
<1> QED
  BY <1>1, <1>2, <1>3, <1>4, <1>5 DEF ControllerInv

LEMMA ToDiskWritePreserves ==
  ASSUME ControllerInv, NEW t \in Threads, ToDiskWrite(t)
  PROVE  ControllerInv'
<1> USE DEF ToDiskWrite, Overwritten, AfterToDisk, Goto, bandVars, boundVars
<1>1. ControllerTypeOK'
  BY ThreadsAssumption, NoLocalType, TextLengthType
     DEF ControllerInv, ControllerTypeOK, WorkerLabels, CtlLabels, Parameters
<1>2. LockInv'
  BY ThreadsAssumption
     DEF ControllerInv, ControllerTypeOK, LockInv, Running, Boot
<1>3. BandInForce'
  BY ThreadsAssumption
     DEF ControllerInv, ControllerTypeOK, BandInForce
<1>4. SnapshotConsistent'
  BY ThreadsAssumption
     DEF ControllerInv, ControllerTypeOK, SnapshotConsistent
<1>5. SaveInv'
  BY ThreadsAssumption
     DEF ControllerInv, ControllerTypeOK, SaveInv, Saving, SettingWorkers
<1> QED
  BY <1>1, <1>2, <1>3, <1>4, <1>5 DEF ControllerInv

(* The run() loop. *)
LEMMA CheckTempPreserves ==
  ASSUME ControllerInv, CheckTemp
  PROVE  ControllerInv'
<1> USE DEF CheckTemp, Goto, bandVars, boundVars
<1>1. ControllerTypeOK'
  BY ThreadsAssumption, BoundsAssumption
     DEF ControllerInv, ControllerTypeOK, CtlLabels, Elapsed
<1>2. LockInv'
  BY ThreadsAssumption
     DEF ControllerInv, ControllerTypeOK, LockInv, Running, Boot
<1>3. BandInForce'
  BY ThreadsAssumption
     DEF ControllerInv, ControllerTypeOK, BandInForce
<1>4. SnapshotConsistent'
  BY ThreadsAssumption
     DEF ControllerInv, ControllerTypeOK, SnapshotConsistent
<1>5. SaveInv'
  BY ThreadsAssumption
     DEF ControllerInv, ControllerTypeOK, SaveInv, Saving, SettingWorkers
<1> QED
  BY <1>1, <1>2, <1>3, <1>4, <1>5 DEF ControllerInv

LEMMA CtlBeginGetPreserves ==
  ASSUME ControllerInv, CtlBeginGet
  PROVE  ControllerInv'
<1> USE DEF CtlBeginGet, BeginGetParameters, Goto, MutexFree, bandVars, boundVars
<1>1. ControllerTypeOK'
  BY ThreadsAssumption
     DEF ControllerInv, ControllerTypeOK, CtlLabels, Parameters
<1>2. LockInv'
  BY ThreadsAssumption
     DEF ControllerInv, ControllerTypeOK, LockInv, Running, Boot
<1>3. BandInForce'
  BY ThreadsAssumption
     DEF ControllerInv, ControllerTypeOK, BandInForce
<1>4. SnapshotConsistent'
  BY ThreadsAssumption
     DEF ControllerInv, ControllerTypeOK, SnapshotConsistent
<1>5. SaveInv'
  BY ThreadsAssumption
     DEF ControllerInv, ControllerTypeOK, SaveInv, Saving, SettingWorkers
<1> QED
  BY <1>1, <1>2, <1>3, <1>4, <1>5 DEF ControllerInv

LEMMA CtlEndGetPreserves ==
  ASSUME ControllerInv, CtlEndGet
  PROVE  ControllerInv'
<1> USE DEF CtlEndGet, EndGetParameters, Goto, bandVars, boundVars
<1>1. ControllerTypeOK'
  <2>1. local' \in [Threads -> Parameters]
    <3>1. EndGetParameters(Ctl) /\ Ctl \in Threads /\ ControllerTypeOK
      BY DEF ControllerInv
    <3> QED
      BY <3>1, CopyType
  <2> QED
    BY <2>1, ThreadsAssumption DEF ControllerInv, ControllerTypeOK, CtlLabels
<1>2. LockInv'
  BY ThreadsAssumption
     DEF ControllerInv, ControllerTypeOK, LockInv, Running, Boot
<1>3. BandInForce'
  BY ThreadsAssumption
     DEF ControllerInv, ControllerTypeOK, BandInForce
<1>4. SnapshotConsistent'
  BY ThreadsAssumption
     DEF ControllerInv, ControllerTypeOK, SnapshotConsistent, LockInv, BandInForce, Running, Boot
<1>5. SaveInv'
  BY ThreadsAssumption
     DEF ControllerInv, ControllerTypeOK, SaveInv, Saving, SettingWorkers
<1> QED
  BY <1>1, <1>2, <1>3, <1>4, <1>5 DEF ControllerInv

LEMMA SavePreserves ==
  ASSUME ControllerInv, Save
  PROVE  ControllerInv'
<1> USE DEF Save, SaveDue, ToDiskReadMin, Goto, bandVars, boundVars
<1>1. ControllerTypeOK'
  BY ThreadsAssumption, NoLocalType, BoundsAssumption
     DEF Elapsed, Saving, ControllerInv, ControllerTypeOK, CtlLabels, Parameters
<1>2. LockInv'
  BY ThreadsAssumption
     DEF ControllerInv, ControllerTypeOK, LockInv, Running, Boot
<1>3. BandInForce'
  BY ThreadsAssumption
     DEF ControllerInv, ControllerTypeOK, BandInForce
<1>4. SnapshotConsistent'
  BY ThreadsAssumption
     DEF ControllerInv, ControllerTypeOK, SnapshotConsistent
<1>5. SaveInv'
  <2>1. CASE SaveDue /\ ToDiskReadMin(Ctl, "save")
    BY <2>1, ThreadsAssumption
       DEF ControllerInv, ControllerTypeOK, SaveInv, Saving, SettingWorkers
  <2>2. CASE Goto(Ctl, "save", "check") /\ local' = [local EXCEPT ![Ctl] = NoLocal]
             /\ UNCHANGED <<bandVars, diskVars>>
    <3>1. Saving' = Saving /\ Ctl \notin Saving /\ SettingWorkers' = SettingWorkers
      BY <2>2, ThreadsAssumption DEF ControllerInv, ControllerTypeOK, Saving, SettingWorkers
    <3>2. \A t \in Saving : pc'[t] = pc[t] /\ local'[t] = local[t]
      BY <2>2, <3>1 DEF ControllerInv, ControllerTypeOK, Saving
    <3> QED
      BY <2>2, <3>1, <3>2 DEF ControllerInv, SaveInv
  <2> QED
    BY <2>1, <2>2
<1> QED
  BY <1>1, <1>2, <1>3, <1>4, <1>5 DEF ControllerInv

(* The clock is set: only sinceSave and the budget of the model change. *)
LEMMA SetClockPreserves ==
  ASSUME ControllerInv, SetClock
  PROVE  ControllerInv'
<1> USE DEF SetClock, lockVars, bandVars, diskVars
<1>1. ControllerTypeOK'
  BY BoundsAssumption DEF ControllerInv, ControllerTypeOK
<1>2. LockInv' /\ BandInForce'
  BY DEF ControllerInv, LockInv, BandInForce, Running
<1>3. SnapshotConsistent'
  BY DEF ControllerInv, SnapshotConsistent
<1>4. SaveInv'
  BY DEF ControllerInv, SaveInv, Saving, SettingWorkers
<1> QED
  BY <1>1, <1>2, <1>3, <1>4 DEF ControllerInv

(* Life and death. *)
LEMMA InitEstablishes ==
  ASSUME InitController
  PROVE  ControllerInv
<1> USE DEF InitController
<1>1. PICK b \in Choices : /\ minTemp = b[1] /\ maxTemp = b[2]
                           /\ parametersFile = [band |-> b, size |-> TextLength[b]]
                           /\ bands = {b}
  OBVIOUS
<1>2. b \in Bands /\ minTemp \in Temps /\ maxTemp \in Temps /\ b = <<minTemp, maxTemp>>
  BY <1>1, TempsAssumption
<1>3. ControllerTypeOK
  <2>1. parametersFile \in [band: Bands, size: Nat] /\ bands \subseteq Bands
    BY <1>1, <1>2, TextLengthType
  <2>2. /\ pc \in [Threads -> Boot \cup CtlLabels \cup WorkerLabels]
        /\ pc[Ctl] \in Boot \cup CtlLabels
        /\ \A w \in Workers : pc[w] \in WorkerLabels
        /\ local \in [Threads -> Parameters]
    BY ThreadsAssumption, NoLocalType DEF Boot, WorkerLabels
  <2>3. state \in BOOLEAN /\ tempRead \in BOOLEAN
    OBVIOUS
  <2>4. sinceSave \in Elapsed /\ requests \in 0..MaxRequests
        /\ shutdowns \in 0..MaxShutdowns /\ crashes \in 0..MaxCrashes
        /\ clockSets \in 0..MaxClockSets
    BY BoundsAssumption DEF Elapsed
  <2> QED
    BY <1>2, <2>1, <2>2, <2>3, <2>4, UnsetType DEF ControllerTypeOK
<1>4. LockInv
  BY ThreadsAssumption DEF LockInv
<1>5. BandInForce
  BY DEF BandInForce
<1>6. SnapshotConsistent
  BY ThreadsAssumption DEF SnapshotConsistent
<1>7. SaveInv
  BY ThreadsAssumption DEF SaveInv, Saving
<1> QED
  BY <1>3, <1>4, <1>5, <1>6, <1>7 DEF ControllerInv

LEMMA ConstructPreserves ==
  ASSUME ControllerInv, NEW to \in {"pinMode", "check"}, Construct(to)
  PROVE  ControllerInv'
<1> USE DEF Construct, Goto, boundVars
<1>1. ControllerTypeOK'
  <2>1. parametersFile.band \in Bands
    BY DEF ControllerInv, ControllerTypeOK
  <2>2. minTemp' \in Temps /\ maxTemp' \in Temps /\ bands' \subseteq Bands
    BY <2>1 DEF ControllerInv, ControllerTypeOK
  <2>3. state' \in BOOLEAN /\ tempRead' \in BOOLEAN
    OBVIOUS
  <2>4. /\ pc' \in [Threads -> Boot \cup CtlLabels \cup WorkerLabels]
        /\ pc'[Ctl] \in Boot \cup CtlLabels
        /\ \A w \in Workers : pc'[w] \in WorkerLabels
    BY ThreadsAssumption DEF ControllerInv, ControllerTypeOK, Boot, CtlLabels
  <2>5. sinceSave' \in Elapsed
    BY BoundsAssumption DEF Elapsed
  <2> QED
    BY <2>2, <2>3, <2>4, <2>5 DEF ControllerInv, ControllerTypeOK
<1>2. LockInv'
  BY ThreadsAssumption
     DEF ControllerInv, ControllerTypeOK, LockInv, Running, Boot
<1>3. BandInForce'
  BY ThreadsAssumption
     DEF ControllerInv, ControllerTypeOK, BandInForce, LockInv, Running, Boot
<1>4. SnapshotConsistent'
  BY ThreadsAssumption
     DEF ControllerInv, ControllerTypeOK, SnapshotConsistent
<1>5. SaveInv'
  <2>1. \A t \in Workers : pc[t] = "idle" /\ pc'[t] = "idle"
    BY ThreadsAssumption DEF ControllerInv, ControllerTypeOK, LockInv, Running, Boot
  <2>2. pc'[Ctl] = to
    BY DEF ControllerInv, ControllerTypeOK
  <2> QED
    BY <2>1, <2>2 DEF SaveInv, Saving
<1> QED
  BY <1>1, <1>2, <1>3, <1>4, <1>5 DEF ControllerInv

LEMMA DiePreserves ==
  ASSUME ControllerInv, Die
  PROVE  ControllerInv'
<1> USE DEF Die, bandVars
<1>1. ControllerTypeOK'
  BY ThreadsAssumption, NoLocalType, BoundsAssumption
     DEF ControllerInv, ControllerTypeOK, Boot, WorkerLabels
<1>2. LockInv'
  BY ThreadsAssumption
     DEF ControllerInv, ControllerTypeOK, LockInv, Running, Boot
<1>3. BandInForce'
  BY ThreadsAssumption
     DEF ControllerInv, ControllerTypeOK, BandInForce
<1>4. SnapshotConsistent'
  BY ThreadsAssumption
     DEF ControllerInv, ControllerTypeOK, SnapshotConsistent
<1>5. SaveInv'
  BY ThreadsAssumption
     DEF ControllerInv, ControllerTypeOK, SaveInv, Saving, SettingWorkers
<1> QED
  BY <1>1, <1>2, <1>3, <1>4, <1>5 DEF ControllerInv

(* Relay::setup(), between the constructor and the loop. *)
LEMMA SetupPreserves ==
  ASSUME ControllerInv, NEW from, NEW to, Goto(Ctl, from, to),
         <<from, to>> \in {<<"pinMode", "pinHigh">>, <<"pinHigh", "check">>},
         UNCHANGED <<bandVars, temp, parametersMutex, local, state, diskVars,
                     sinceSave, boundVars, tempRead>>
  PROVE  ControllerInv'
<1> USE DEF Goto, bandVars, boundVars
<1>1. ControllerTypeOK'
  BY ThreadsAssumption
     DEF ControllerInv, ControllerTypeOK, Boot, CtlLabels
<1>2. LockInv'
  BY ThreadsAssumption
     DEF ControllerInv, ControllerTypeOK, LockInv, Running, Boot
<1>3. BandInForce'
  BY ThreadsAssumption
     DEF ControllerInv, ControllerTypeOK, BandInForce
<1>4. SnapshotConsistent'
  BY ThreadsAssumption
     DEF ControllerInv, ControllerTypeOK, SnapshotConsistent
<1>5. SaveInv'
  BY ThreadsAssumption
     DEF ControllerInv, ControllerTypeOK, SaveInv, Saving, SettingWorkers
<1> QED
  BY <1>1, <1>2, <1>3, <1>4, <1>5 DEF ControllerInv

LEMMA StutterPreserves ==
  ASSUME ControllerInv, UNCHANGED controllerVars
  PROVE  ControllerInv'
  BY DEF ControllerInv, ControllerTypeOK, LockInv, BandInForce, SnapshotConsistent,
     controllerVars, bandVars, lockVars, boundVars, Running,
     SaveInv, Saving, SettingWorkers

(* All requests together, and all of toDisk(). *)
LEMMA ToDiskPreserves ==
  ASSUME ControllerInv, NEW t \in Threads, ToDisk(t)
  PROVE  ControllerInv'
  BY ToDiskReadMaxPreserves, ToDiskOpenPreserves, ToDiskWritePreserves DEF ToDisk

LEMMA WorkerPreserves ==
  ASSUME ControllerInv, NEW w \in Workers, StartRequest(w) \/ FinishRequest(w)
  PROVE  ControllerInv'
<1>1. CASE StartRequest(w)
  BY <1>1, BeginGetPreserves, BeginSetParametersPreserves, SetOneBoundPreserves,
     ShutdownPreserves DEF StartRequest
<1>2. CASE FinishRequest(w)
  BY <1>2, EndGetPreserves, ReplyPreserves, EndSetParametersPreserves, ToDiskPreserves
     DEF FinishRequest
<1> QED
  BY <1>1, <1>2

(* What UndisturbedSavesAreWhole says of a step. *)
SavesWhole(t) ==
  EndsSave(t) /\ t \notin disturbed =>
    /\ Parses(parametersFile')
    /\ parametersFile'.band = <<minTemp', maxTemp'>>
    /\ parametersFile'.band \in bands'

(* An undisturbed save opened, and thereby emptied, the file that it       *)
(* writes to, and writes what is in memory.                                *)
LEMMA WriteIsWhole ==
  ASSUME ControllerInv, NEW t \in Threads, ToDiskWrite(t)
  PROVE  SavesWhole(t)
<1> SUFFICES ASSUME t \notin disturbed
             PROVE  /\ Parses(parametersFile')
                    /\ parametersFile'.band = <<minTemp', maxTemp'>>
                    /\ parametersFile'.band \in bands'
  BY DEF SavesWhole
<1> DEFINE band == <<local[t].minTemp, local[t].maxTemp>>
<1>1. /\ pc[t] = "write" /\ UNCHANGED bandVars
      /\ parametersFile' = Overwritten(parametersFile, band)
  BY DEF ToDiskWrite, Goto
<1>2. /\ SettingWorkers = {} /\ parametersFile.size = 0
      /\ local[t].minTemp = minTemp /\ local[t].maxTemp = maxTemp
  BY <1>1 DEF ControllerInv, SaveInv, Saving
<1>3. band \in bands
  <2>1. pc[Ctl] # "down"
    BY <1>1, ThreadsAssumption DEF ControllerInv, LockInv, Running, Boot
  <2> QED
    BY <1>2, <2>1 DEF ControllerInv, BandInForce, SettingWorkers
<1>4. TextLength[band] \in Nat
  BY <1>3, TextLengthType DEF ControllerInv, ControllerTypeOK
<1>5. parametersFile' = [band |-> band, size |-> TextLength[band]]
  BY <1>1, <1>2, <1>4 DEF Overwritten
<1> QED
  BY <1>1, <1>2, <1>3, <1>5 DEF Parses, bandVars

(* Nothing but its write and the death of the process ends a save. *)
LEMMA WorkerEndsSave ==
  ASSUME ControllerInv, NEW w \in Workers, StartRequest(w) \/ FinishRequest(w),
         NEW t \in Threads, EndsSave(t)
  PROVE  ToDiskWrite(t)
<1>1. CASE ToDiskWrite(w)
  BY <1>1 DEF ToDiskWrite, Goto, EndsSave, ControllerInv, ControllerTypeOK
<1>2. CASE ~ToDiskWrite(w)
  <2>1. CASE StartRequest(w)
    BY <1>2, <2>1 DEF StartRequest, BeginGet, BeginSetParameters, SetOneBound, Shutdown,
       ToDiskReadMin, Goto, lockVars, EndsSave, ControllerInv, ControllerTypeOK
  <2>2. CASE FinishRequest(w)
    BY <1>2, <2>2 DEF FinishRequest, EndGet, Reply, EndSetParameters, ToDisk, ToDiskReadMax,
       ToDiskOpen, Goto, EndsSave, ControllerInv, ControllerTypeOK
  <2> QED
    BY <2>1, <2>2
<1> QED
  BY <1>1, <1>2

(* The loop moves from a label of its own; only from "write" out of a save. *)
LEMMA LoopEndsSave ==
  ASSUME ControllerInv, NEW from, NEW to, Goto(Ctl, from, to), from # "write",
         NEW t \in Threads
  PROVE  ~EndsSave(t)
BY DEF Goto, EndsSave, ControllerInv, ControllerTypeOK

=============================================================================
