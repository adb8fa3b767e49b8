----------------------------- MODULE Thermostat -----------------------------
(***************************************************************************)
(* What a thermostat promises, whatever its threads, locks and pins are:   *)
(* while it runs, the heater changes only by a decision; a decision is     *)
(* about one sample, which pairs a reading that the thermostat has made    *)
(* since it started and since the last decision with the band in force at  *)
(* that moment; and it leaves the heater off above the band, on below it,  *)
(* and as it was inside it.  The band changes only when a client sets it,  *)
(* both bounds at once or one of them; a client that asks is told the band *)
(* in force at one moment while it waits; the temperature shown is that of *)
(* the last sample.  It starts with the heater off and nothing shown.      *)
(* Nothing is promised of the heater while it does not run, nor of the     *)
(* band that it starts with.                                               *)
(***************************************************************************)
EXTENDS Integers

CONSTANTS Temps, Choices, Clients, None

VARIABLES running, heater, minTemp, maxTemp, reading, sample, shown, answer

vars == <<running, heater, minTemp, maxTemp, reading, sample, shown, answer>>

Sample == [temp: Temps, minTemp: Temps, maxTemp: Temps]
NoAnswers == [c \in Clients |-> None]

TypeOK ==
  /\ running \in BOOLEAN /\ heater \in BOOLEAN
  /\ minTemp \in Temps /\ maxTemp \in Temps
  /\ reading \in Temps \cup {None} /\ shown \in Temps \cup {None}
  /\ sample \in Sample \cup {None}
  /\ answer \in [Clients -> (Temps \X Temps) \cup {None}]

Init ==
  /\ ~running
  /\ heater \in BOOLEAN
  /\ minTemp \in Temps /\ maxTemp \in Temps
  /\ reading = None /\ sample = None /\ shown = None /\ answer = NoAnswers

(* The outcomes a sample allows.  In an empty band (minTemp > maxTemp) a   *)
(* temperature can be both too warm and too cold, and either is allowed.   *)
Allowed(s, before, after) ==
  /\ before /\ ~after => s.temp > s.maxTemp
  /\ ~before /\ after => s.temp < s.minTemp
  /\ s.temp > s.maxTemp /\ s.temp >= s.minTemp => ~after
  /\ s.temp < s.minTemp /\ s.temp <= s.maxTemp => after

Start ==
  /\ ~running
  /\ running' = TRUE
  /\ heater' = FALSE
  /\ minTemp' \in Temps /\ maxTemp' \in Temps
  /\ reading' = None /\ sample' = None /\ shown' = None
  /\ UNCHANGED answer

Stop ==
  /\ running
  /\ running' = FALSE
  /\ heater' \in BOOLEAN
  /\ minTemp' \in Temps /\ maxTemp' \in Temps
  /\ reading' = None /\ sample' = None /\ answer' = NoAnswers
  /\ UNCHANGED shown

Stopped ==
  /\ ~running
  /\ heater' \in BOOLEAN
  /\ minTemp' \in Temps /\ maxTemp' \in Temps
  /\ shown' \in {shown, None}
  /\ UNCHANGED <<running, reading, sample, answer>>

SetBand ==
  /\ running
  /\ \E b \in Choices : minTemp' \in {minTemp, b[1]} /\ maxTemp' \in {maxTemp, b[2]}
  /\ UNCHANGED <<running, heater, reading, sample, shown, answer>>

Answer(c) ==
  /\ running
  /\ answer[c] = None
  /\ answer' = [answer EXCEPT ![c] = <<minTemp, maxTemp>>]
  /\ UNCHANGED <<running, heater, minTemp, maxTemp, reading, sample, shown>>

Leave(c) ==
  /\ running
  /\ answer[c] # None
  /\ answer' = [answer EXCEPT ![c] = None]
  /\ UNCHANGED <<running, heater, minTemp, maxTemp, reading, sample, shown>>

Read ==
  /\ running
  /\ reading = None /\ sample = None
  /\ reading' \in Temps
  /\ UNCHANGED <<running, heater, minTemp, maxTemp, sample, shown, answer>>

TakeSample ==
  /\ running
  /\ reading # None /\ sample = None
  /\ sample' = [temp |-> reading, minTemp |-> minTemp, maxTemp |-> maxTemp]
  /\ reading' = None
  /\ shown' = reading
  /\ UNCHANGED <<running, heater, minTemp, maxTemp, answer>>

Decide ==
  /\ running
  /\ sample # None
  /\ heater' \in BOOLEAN
  /\ Allowed(sample, heater, heater')
  /\ sample' = None
  /\ UNCHANGED <<running, minTemp, maxTemp, reading, shown, answer>>

Next ==
  \/ Start \/ Stop \/ Stopped
  \/ SetBand \/ \E c \in Clients : Answer(c) \/ Leave(c)
  \/ Read \/ TakeSample \/ Decide

Spec == Init /\ [][Next]_vars
=============================================================================
