----------------------------- MODULE Controller -----------------------------
(***************************************************************************)
(* The Controller base class of src/src/controller.{h,cpp}: the operating  *)
(* band and the last reading, the mutex that guards the band, the saving   *)
(* of the band to parameters.json, and the requests by which the web       *)
(* server's worker threads reach them.  The two run() loops that share it  *)
(* are HardwareController and HardwarelessController.                      *)
(*                                                                         *)
(* A step is one access that another thread can observe.  What a thread    *)
(* does while it holds parametersMutex is split only where an access is    *)
(* not protected by that mutex: toDisk() reads the band without it, and    *)
(* checkTemp() writes temp without it.                                     *)
(*                                                                         *)
(* A definition X_<Bug> is X as a plausible mistake would have it; no      *)
(* specification uses it, it serves to show that a property can fail.      *)
(***************************************************************************)
EXTENDS Integers

CONSTANTS
  Ctl,           \* the thread that executes Controller::run
  Workers,       \* the web server's threads, one request each at a time; and
                 \* the database thread, whose ten-minute routine only ever
                 \* calls getParameters
  None,          \* no thread, no sample, no switch
  Temps,         \* temperatures, in tenths of a degree
  Choices,       \* the <<minTemp, maxTemp>> pairs clients post to /setParams
  TextLength,    \* bytes of the JSON text of a band
  SaveInterval,  \* saveInterval, in the time of an iteration of the run() loop
  MaxRequests,   \* bound: requests for or against the band
  MaxShutdowns,  \* bound: requests to /shutdown
  MaxCrashes,    \* bound: deaths of the process
  MaxClockSets,  \* bound: how often somebody sets the clock
  MaxBack        \* bound: how far it is set back behind lastSave, in iterations

Threads == Workers \cup {Ctl}
Bands == Temps \X Temps

ASSUME ThreadsAssumption == Ctl \notin Workers /\ None \notin Threads
ASSUME TempsAssumption == Temps \subseteq Int /\ Temps # {} /\ Choices \subseteq Bands
ASSUME TextAssumption == TextLength \in [Bands -> Nat \ {0}]
ASSUME BoundsAssumption ==
  /\ SaveInterval \in Nat
  /\ MaxRequests \in Nat
  /\ MaxShutdowns \in Nat
  /\ MaxCrashes \in Nat
  /\ MaxClockSets \in Nat
  /\ MaxBack \in Nat

VARIABLES
  minTemp, maxTemp,  \* the band in memory
  temp,              \* the last reading; not initialised by the constructor
  parametersMutex,   \* the thread inside it, or None
  state,             \* what getState() returns: is the relay switched on?
  parametersFile,    \* parameters.json: the band written last, and the size
  sinceSave,         \* now() - lastSave, in iterations, up to SaveInterval + 1
  pc,                \* where each thread is
  local,             \* the Parameters record each thread works on
  requests, shutdowns, crashes, clockSets,  \* how much of the bounds is used up
  tempRead,          \* history: has this process assigned temp?
  bands,             \* history: the bands that were ever in force
  disturbed          \* history: the threads in toDisk() that a setter or
                     \* another toDisk() has overlapped

bandVars == <<minTemp, maxTemp, bands>>
diskVars == <<parametersFile, disturbed>>
lockVars == <<parametersMutex, pc, local>>
boundVars == <<requests, shutdowns, crashes, clockSets>>
controllerVars == <<bandVars, temp, lockVars, state, diskVars, sinceSave,
                    boundVars, tempRead>>

(* struct Parameters; also holds the arguments of a call in progress. *)
Parameters == [minTemp: Temps, maxTemp: Temps, temp: Temps, state: BOOLEAN]
Unset == CHOOSE t \in Temps : TRUE
NoLocal == [minTemp |-> Unset, maxTemp |-> Unset, temp |-> Unset, state |-> FALSE]

(* The program counter while the process is not running its threads. *)
Boot == {"down", "pinMode", "pinHigh"}
CtlLabels == {"check", "params", "copy", "decide", "offState", "onState", "insertTrue",
              "insertFalse", "save", "readMax", "open", "write"}
WorkerLabels == {"idle", "get", "reply", "set", "readMax", "open", "write"}
Running == pc[Ctl] \notin Boot

(* Who is in toDisk(), and who between the assignments of setParameters(). *)
Saving == {t \in Threads : pc[t] \in {"readMax", "open", "write"}}
SettingWorkers == {w \in Workers : pc[w] = "set"}

(* Thread t steps from one label to another. *)
Goto(t, from, to) == pc[t] = from /\ pc' = [pc EXCEPT ![t] = to]

-----------------------------------------------------------------------------
(* The mutex and the band.                                                 *)

MutexFree_Ignored == TRUE
MutexFree == parametersMutex = None

(* getParameters() up to the copy of temp, which its lock does not protect. *)
BeginGetParameters(t) ==
  /\ MutexFree
  /\ parametersMutex' = t
  /\ local' = [local EXCEPT ![t].temp = temp]
  /\ UNCHANGED <<bandVars, temp, state, tempRead, diskVars>>

(* The copies of the band and of getState(), and the release of the lock. *)
EndGetParameters(t) ==
  /\ parametersMutex' = None
  /\ local' = [local EXCEPT ![t].minTemp = minTemp, ![t].maxTemp = maxTemp,
                            ![t].state = state]
  /\ UNCHANGED <<bandVars, temp, state, tempRead, diskVars>>

(* A request to getParameters, by /getParams or /dashboard. *)
BeginGet(w) ==
  /\ Running
  /\ requests < MaxRequests
  /\ requests' = requests + 1
  /\ Goto(w, "idle", "get")
  /\ BeginGetParameters(w)
  /\ UNCHANGED <<sinceSave, shutdowns, crashes, clockSets>>

EndGet(w) ==
  /\ Goto(w, "get", "reply")
  /\ EndGetParameters(w)
  /\ UNCHANGED <<sinceSave, boundVars>>

Reply(w) ==
  /\ Goto(w, "reply", "idle")
  /\ local' = [local EXCEPT ![w] = NoLocal]
  /\ UNCHANGED <<bandVars, temp, parametersMutex, state, tempRead, diskVars, sinceSave,
                 boundVars>>

(* setParameters(): the lock and the first assignment, then the second     *)
(* assignment and the unlock.  toDisk() can run between the two.           *)
BeginSetParameters(w, newMinTemp, newMaxTemp) ==
  /\ Running
  /\ requests < MaxRequests
  /\ requests' = requests + 1
  /\ MutexFree
  /\ Goto(w, "idle", "set")
  /\ parametersMutex' = w
  /\ minTemp' = newMinTemp
  /\ local' = [local EXCEPT ![w].maxTemp = newMaxTemp]
  /\ disturbed' = Saving
  /\ UNCHANGED <<maxTemp, bands, temp, state, tempRead, parametersFile, sinceSave,
                 shutdowns, crashes, clockSets>>

EndSetParameters(w) ==
  /\ Goto(w, "set", "idle")
  /\ maxTemp' = local[w].maxTemp
  /\ parametersMutex' = None
  /\ bands' = bands \cup {<<minTemp, maxTemp'>>}
  /\ local' = [local EXCEPT ![w] = NoLocal]
  /\ UNCHANGED <<minTemp, temp, state, tempRead, diskVars, sinceSave, boundVars>>

(* setMinTemp() and setMaxTemp(), for a request whose other bound is null. *)
SetOneBound(w, newMinTemp, newMaxTemp) ==
  /\ Running
  /\ requests < MaxRequests
  /\ requests' = requests + 1
  /\ MutexFree
  /\ pc[w] = "idle"
  /\ \/ minTemp' = newMinTemp /\ UNCHANGED maxTemp
     \/ maxTemp' = newMaxTemp /\ UNCHANGED minTemp
  /\ bands' = bands \cup {<<minTemp', maxTemp'>>}
  /\ disturbed' = Saving
  /\ UNCHANGED <<lockVars, temp, state, tempRead, parametersFile, sinceSave,
                 shutdowns, crashes, clockSets>>

-----------------------------------------------------------------------------
(* toDisk(): two unlocked reads, the truncating open, and the write that   *)
(* the stream makes when it is destroyed.                                  *)

Parses(f) == f.size = TextLength[f.band]
Truncated_Not(f) == f
Truncated(f) == [f EXCEPT !.size = 0]

(* A write at offset 0 of a file another writer may have made longer. *)
Overwritten(f, band) ==
  [band |-> band,
   size |-> IF f.size > TextLength[band] THEN f.size ELSE TextLength[band]]

AfterToDisk_Ends(t) == "idle"
AfterToDisk(t) == IF t = Ctl THEN "check" ELSE "idle"

(* The first read; the caller of toDisk() makes it part of its own step. *)
ToDiskReadMin(t, from) ==
  /\ Goto(t, from, "readMax")
  /\ local' = [local EXCEPT ![t].minTemp = minTemp]
  /\ disturbed' = IF Saving \cup SettingWorkers = {} THEN {} ELSE Saving \cup {t}
  /\ UNCHANGED <<bandVars, temp, parametersMutex, state, tempRead, parametersFile>>

ToDiskReadMax(t) ==
  /\ Goto(t, "readMax", "open")
  /\ local' = [local EXCEPT ![t].maxTemp = maxTemp]
  /\ UNCHANGED <<bandVars, temp, parametersMutex, state, tempRead, diskVars, sinceSave,
                 boundVars>>

ToDiskOpen(t) ==
  /\ Goto(t, "open", "write")
  /\ parametersFile' = Truncated(parametersFile)
  /\ UNCHANGED <<bandVars, temp, parametersMutex, local, state, tempRead, disturbed,
                 sinceSave, boundVars>>

ToDiskWrite(t) ==
  /\ Goto(t, "write", AfterToDisk(t))
  /\ parametersFile' = Overwritten(parametersFile, <<local[t].minTemp, local[t].maxTemp>>)
  /\ local' = [local EXCEPT ![t] = NoLocal]
  /\ disturbed' = disturbed \ {t}
  /\ UNCHANGED <<bandVars, temp, parametersMutex, state, tempRead, sinceSave, boundVars>>

ToDisk(t) == ToDiskReadMax(t) \/ ToDiskOpen(t) \/ ToDiskWrite(t)

(* Site::shutdown(): toDisk(), then a power-off a minute away.  Until then *)
(* the server runs on; the power-off itself is one of the crashes below.   *)
Shutdown(w) ==
  /\ Running
  /\ shutdowns < MaxShutdowns
  /\ shutdowns' = shutdowns + 1
  /\ ToDiskReadMin(w, "idle")
  /\ UNCHANGED <<sinceSave, requests, crashes, clockSets>>

-----------------------------------------------------------------------------
(* The parts of the run() loop that both subclasses have.                  *)

(* What now() - lastSave can be; more than SaveInterval is all the same. *)
Elapsed == -MaxBack..(SaveInterval + 1)

(* checkTemp() assigns temp once, after all its reads and sleeps, which    *)
(* take the time of an iteration.                                          *)
CheckTemp ==
  /\ Goto(Ctl, "check", "params")
  /\ temp' \in Temps
  /\ tempRead' = TRUE
  /\ sinceSave' = IF sinceSave > SaveInterval THEN sinceSave ELSE sinceSave + 1
  /\ UNCHANGED <<bandVars, parametersMutex, local, state, diskVars, boundVars>>

CtlBeginGet ==
  /\ Goto(Ctl, "params", "copy")
  /\ BeginGetParameters(Ctl)
  /\ UNCHANGED <<sinceSave, boundVars>>

CtlEndGet ==
  /\ Goto(Ctl, "copy", "decide")
  /\ EndGetParameters(Ctl)
  /\ UNCHANGED <<sinceSave, boundVars>>

TooWarm_AtMin == local[Ctl].temp > local[Ctl].minTemp /\ state
TooWarm == local[Ctl].temp > local[Ctl].maxTemp /\ state
TooCold_Unguarded == local[Ctl].temp < local[Ctl].minTemp
TooCold_Late == local[Ctl].temp < local[Ctl].minTemp - 1 /\ ~state
TooCold == local[Ctl].temp < local[Ctl].minTemp /\ ~state

SaveDue_Never == FALSE
SaveDue == sinceSave > SaveInterval

(* The end of an iteration: reset lastSave and call toDisk() when due. *)
Save ==
  \/ /\ SaveDue
     /\ sinceSave' = 0
     /\ ToDiskReadMin(Ctl, "save")
     /\ UNCHANGED boundVars
  \/ /\ ~SaveDue
     /\ Goto(Ctl, "save", "check")
     /\ local' = [local EXCEPT ![Ctl] = NoLocal]
     /\ UNCHANGED <<bandVars, temp, parametersMutex, state, tempRead, diskVars, sinceSave,
                    boundVars>>

(* Somebody sets the clock, back or forth: high_resolution_clock is the    *)
(* system clock in libstdc++, and lastSave was taken from it.              *)
SetClock ==
  /\ Running
  /\ clockSets < MaxClockSets
  /\ clockSets' = clockSets + 1
  /\ sinceSave' \in Elapsed
  /\ UNCHANGED <<bandVars, temp, lockVars, state, diskVars, tempRead, requests, shutdowns,
                 crashes>>

-----------------------------------------------------------------------------
(* Life and death of the process.                                          *)

InitController ==
  /\ \E b \in Choices :
       /\ minTemp = b[1] /\ maxTemp = b[2]
       /\ parametersFile = [band |-> b, size |-> TextLength[b]]
       /\ bands = {b}
  /\ temp = Unset
  /\ parametersMutex = None
  /\ state = FALSE
  /\ sinceSave = 0
  /\ pc = [t \in Threads |-> IF t = Ctl THEN "down" ELSE "idle"]
  /\ local = [t \in Threads |-> NoLocal]
  /\ requests = 0 /\ shutdowns = 0 /\ crashes = 0 /\ clockSets = 0
  /\ tempRead = FALSE
  /\ disturbed = {}

(* App::App() and the Controller constructor: json::parse of the file, the *)
(* band from it, temp whatever the allocator left there, a new Relay.      *)
Construct(to) ==
  /\ Goto(Ctl, "down", to)
  /\ Parses(parametersFile)
  /\ minTemp' = parametersFile.band[1]
  /\ maxTemp' = parametersFile.band[2]
  /\ bands' = bands \cup {parametersFile.band}
  /\ temp' \in Temps
  /\ tempRead' = FALSE
  /\ state' = FALSE
  /\ sinceSave' = 0
  /\ UNCHANGED <<parametersMutex, local, diskVars, boundVars>>

(* json::parse throws out of main(): the new process dies at once. *)
ConstructThrows ==
  /\ pc[Ctl] = "down"
  /\ ~Parses(parametersFile)
  /\ UNCHANGED controllerVars

(* The process dies, at any step of any of its threads. *)
Die ==
  /\ pc[Ctl] # "down"
  /\ crashes < MaxCrashes
  /\ crashes' = crashes + 1
  /\ pc' = [t \in Threads |-> IF t = Ctl THEN "down" ELSE "idle"]
  /\ local' = [t \in Threads |-> NoLocal]
  /\ parametersMutex' = None
  /\ disturbed' = {}
  /\ UNCHANGED <<bandVars, temp, state, tempRead, parametersFile, sinceSave, requests,
                 shutdowns, clockSets>>

(* Everything a worker does, from the arrival of a request to its end. *)
StartRequest(w) ==
  \/ BeginGet(w)
  \/ \E b \in Choices : BeginSetParameters(w, b[1], b[2]) \/ SetOneBound(w, b[1], b[2])
  \/ Shutdown(w)
FinishRequest(w) == EndGet(w) \/ Reply(w) \/ EndSetParameters(w) \/ ToDisk(w)

-----------------------------------------------------------------------------
ControllerTypeOK ==
  /\ minTemp \in Temps /\ maxTemp \in Temps /\ temp \in Temps
  /\ parametersMutex \in Threads \cup {None}
  /\ state \in BOOLEAN
  /\ parametersFile \in [band: Bands, size: Nat]
  /\ sinceSave \in Elapsed
  /\ pc \in [Threads -> Boot \cup CtlLabels \cup WorkerLabels]
  /\ pc[Ctl] \in Boot \cup CtlLabels
  /\ \A w \in Workers : pc[w] \in WorkerLabels
  /\ local \in [Threads -> Parameters]
  /\ requests \in 0..MaxRequests /\ shutdowns \in 0..MaxShutdowns
  /\ crashes \in 0..MaxCrashes /\ clockSets \in 0..MaxClockSets
  /\ tempRead \in BOOLEAN
  /\ bands \subseteq Bands
  /\ disturbed \subseteq Threads

(* Every band that leaves getParameters(), for the loop's decision or for  *)
(* a reply, was in force as a whole: no caller sees one bound of the old   *)
(* pair and the other bound of the new one (controller.cpp:47-68).         *)
SnapshotConsistent ==
  \A t \in Threads :
    pc[t] \in {"reply", "decide", "offState", "onState", "insertTrue", "insertFalse", "save"}
      => <<local[t].minTemp, local[t].maxTemp>> \in bands

(* What makes it so: parametersMutex is held by the thread that is between *)
(* its lock and its unlock, no worker serves a process that is not up, and *)
(* the band in memory is whole whenever nobody is about to complete it.    *)
LockInv ==
  /\ \A t \in Threads : parametersMutex = t <=> pc[t] \in {"get", "set", "copy"}
  /\ ~Running => \A w \in Workers : pc[w] = "idle"

BandInForce ==
  pc[Ctl] # "down" /\ (\A w \in Workers : pc[w] # "set") => <<minTemp, maxTemp>> \in bands

(* A save that no setter and no other save overlaps leaves a file that can *)
(* be parsed and that holds the band in memory, which is one that was in   *)
(* force: whatever earlier races and crashes left in the file, toDisk()    *)
(* repairs (controller.cpp:90-99).                                         *)
EndsSave(t) == pc[t] = "write" /\ pc'[t] # "write" /\ pc'[Ctl] # "down"

UndisturbedSavesAreWhole ==
  [][\A t \in Threads : EndsSave(t) /\ t \notin disturbed =>
       /\ Parses(parametersFile')
       /\ parametersFile'.band = <<minTemp', maxTemp'>>
       /\ parametersFile'.band \in bands']_controllerVars

(* What makes it so: nobody else is in toDisk() or between the assignments *)
(* of a setter, and what has been read is still what is in memory.         *)
SaveInv ==
  \A t \in Saving \ disturbed :
    /\ Saving = {t} /\ SettingWorkers = {}
    /\ local[t].minTemp = minTemp
    /\ pc[t] \in {"open", "write"} => local[t].maxTemp = maxTemp
    /\ pc[t] = "write" => parametersFile.size = 0

ControllerInv == ControllerTypeOK /\ LockInv /\ BandInForce /\ SnapshotConsistent /\ SaveInv

(* While the process lives, parameters.json agrees with the memory again   *)
(* and again once no request changes the band: no new band stays unsaved,  *)
(* what two racing saves leave behind is repaired, and a clock set back    *)
(* only puts the next save off.                                            *)
BandReachesDisk ==
  <>[]Running => []<>(Parses(parametersFile) /\ parametersFile.band = <<minTemp, maxTemp>>)

-----------------------------------------------------------------------------
(* Statements of the documentation that the code does not keep.            *)

(* "updated every 10 minutes by the program with the values from memory"   *)
(* (README.md:101): a band that can be read back was in memory as a band.   *)
SavedBandWasInForce == Parses(parametersFile) => parametersFile.band \in bands
=============================================================================
