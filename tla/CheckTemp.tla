------------------------------ MODULE CheckTemp ------------------------------
(***************************************************************************)
(* Controller::checkTemp() (controller.cpp:102-119), called again and      *)
(* again by run(), with the settings the constructor leaves it             *)
(* (controller.cpp:24-44).  The sensor's driver file holds thousandths of  *)
(* a degree; temp is kept in tenths, the float's rounding left out.  The   *)
(* sleep after each read, of readDelay/numOfReads milliseconds, changes    *)
(* nothing, and no step stands for it.                                     *)
(***************************************************************************)
EXTENDS Integers

CONSTANTS
  WordSize,     \* number of values of an unsigned int
  Configs,      \* the values of numOfReads in config.json
  Readings,     \* what the driver file can hold
  Garbage,      \* what an uninitialised int can hold
  Calibration   \* calibration, in tenths of a degree

ASSUME WordAssumption == WordSize \in Nat \ {0} /\ WordSize % 2 = 0
ASSUME ConfigsAssumption == Configs \subseteq Int
ASSUME ValuesAssumption == Readings \subseteq Int /\ Garbage \subseteq Int
                           /\ Calibration \in Int

VARIABLES
  config,         \* the setting this process was started with
  numOfReads,     \* an unsigned int
  pc,             \* "read" or "done"
  i, sum, temp,   \* of checkTemp()
  total,          \* history: the sum of what the sensor held in this round
  missed          \* history: did a read of this round fail?

settings == <<config, numOfReads>>
vars == <<settings, pc, i, sum, temp, total, missed>>

(* Conversion to unsigned int, and back to int. *)
Unsigned(n) == n % WordSize
Signed(n) == IF Unsigned(n) < WordSize \div 2 THEN Unsigned(n) ELSE Unsigned(n) - WordSize

(* The constructor's check of the unsigned setting. *)
SanitisedReads(n) == IF Unsigned(n) <= 0 THEN 4 ELSE Unsigned(n)

(* Not the 2^30 reads, or a multiple of them, for which 100 * numOfReads   *)
(* wraps to zero and the division traps.                                   *)
ASSUME DivisorAssumption ==
  \A c \in Configs : Unsigned(100 * SanitisedReads(c)) # 0

BeginRound ==
  /\ pc' = "read" /\ i' = 0 /\ sum' = 0
  /\ total' = 0 /\ missed' = FALSE

Init ==
  /\ config \in Configs
  /\ numOfReads = SanitisedReads(config)
  /\ pc = "read" /\ i = 0 /\ sum = 0
  /\ temp = 0
  /\ total = 0 /\ missed = FALSE

MoreReads_Off == i <= numOfReads
MoreReads == i < numOfReads

(* operator>> stores the number; or 0 when the text is not a number; or    *)
(* nothing at all when the file could not be opened.                       *)
ReadSensor ==
  /\ pc = "read" /\ MoreReads
  /\ \/ \E r \in Readings : sum' = Signed(sum + r) /\ total' = total + r /\ UNCHANGED missed
     \/ \E t \in Garbage \cup {0} : sum' = Signed(sum + t) /\ missed' = TRUE /\ UNCHANGED total
  /\ i' = i + 1
  /\ UNCHANGED <<settings, pc, temp>>

(* The unsigned divisor makes the division of the int sum unsigned, too. *)
Average_OfOne == Signed(Unsigned(sum) \div 100)
Average == Signed(Unsigned(sum) \div Unsigned(100 * numOfReads))

AssignTemp ==
  /\ pc = "read" /\ ~MoreReads
  /\ temp' = Average + Calibration
  /\ pc' = "done"
  /\ UNCHANGED <<settings, i, sum, total, missed>>

CallAgain == pc = "done" /\ BeginRound /\ UNCHANGED <<settings, temp>>

Next == ReadSensor \/ AssignTemp \/ CallAgain

Spec == Init /\ [][Next]_vars

-----------------------------------------------------------------------------
TypeOK ==
  /\ config \in Configs
  /\ numOfReads \in 1..(WordSize + 4)
  /\ pc \in {"read", "done"}
  /\ i \in 0..numOfReads
  /\ sum \in Int /\ temp \in Int /\ total \in Int
  /\ missed \in BOOLEAN

(* A round in which every read succeeds, and whose readings do not average *)
(* below zero, sets temp to their average plus the calibration, cut off to *)
(* a tenth of a degree: no reading is lost or counted twice, and the       *)
(* integer division loses less than a tenth (controller.cpp:104-118).      *)
AveragesWarmReadings ==
  pc = "done" /\ ~missed /\ total >= 0 =>
    LET hundredths == 100 * numOfReads
    IN  /\ hundredths * (temp - Calibration) <= total
        /\ total < hundredths * (temp - Calibration + 1)

-----------------------------------------------------------------------------
(* Statements of the documentation that the code does not keep.            *)

(* "determines how many temperature readings the program makes and         *)
(* averages them" (README.md:82), below zero as well as above.             *)
AveragesReadings ==
  pc = "done" /\ ~missed =>
    LET error == 100 * numOfReads * (temp - Calibration) - total
    IN  error < 100 * numOfReads /\ -error < 100 * numOfReads
=============================================================================
