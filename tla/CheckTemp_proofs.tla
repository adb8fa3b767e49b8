-------------------------- MODULE CheckTemp_proofs --------------------------
(***************************************************************************)
(* The rounds of checkTemp() for every configuration, every word size and  *)
(* all readings: types always; averages as long as no sum of readings      *)
(* leaves the int.                                                         *)
(***************************************************************************)
EXTENDS CheckTemp, TLAPS

(* The quotient of the division of two naturals. *)
LEMMA Quotient ==
  ASSUME NEW a \in Nat, NEW n \in Nat \ {0}
  PROVE  /\ a \div n \in Nat
         /\ n * (a \div n) <= a /\ a < n * (a \div n + 1)
  OBVIOUS

LEMMA QuotientIsLess ==
  ASSUME NEW a \in Nat, NEW n \in Nat \ {0}
  PROVE  a \div n <= a
<1> DEFINE q == a \div n
<1>1. q \in Nat /\ n * q <= a
  BY Quotient
<1> HIDE DEF q
<1>2. q <= n * q
  BY <1>1
<1> QED
  BY <1>1, <1>2 DEF q

LEMMA TimesMonotone ==
  ASSUME NEW m \in Nat, NEW a \in Nat, NEW b \in Nat, a <= b
  PROVE  m * a <= m * b
  OBVIOUS

LEMMA Distributes ==
  ASSUME NEW m \in Nat, NEW a \in Nat
  PROVE  m * (a + 1) = m * a + m
  OBVIOUS

LEMMA UnsignedType ==
  ASSUME NEW n \in Int
  PROVE  Unsigned(n) \in 0..(WordSize - 1)
  BY WordAssumption DEF Unsigned

LEMMA SignedType ==
  ASSUME NEW n \in Int
  PROVE  Signed(n) \in Int
  BY WordAssumption, UnsignedType DEF Signed

LEMMA HalfWord == WordSize \div 2 \in Nat /\ 2 * (WordSize \div 2) = WordSize
  BY WordAssumption

LEMMA UnsignedOfSmall ==
  ASSUME NEW n \in 0..(WordSize - 1)
  PROVE  Unsigned(n) = n
  BY WordAssumption DEF Unsigned

(* A number that an int can hold is not changed by its conversion. *)
LEMMA SignedOfSmall ==
  ASSUME NEW n \in Int, -(WordSize \div 2) <= n, n < WordSize \div 2
  PROVE  Signed(n) = n
<1>1. CASE 0 <= n
  BY <1>1, HalfWord, UnsignedOfSmall DEF Signed
<1>2. CASE n < 0
  <2>1. Unsigned(n) = n + WordSize
    BY <1>2, HalfWord, WordAssumption DEF Unsigned
  <2> QED
    BY <1>2, <2>1, HalfWord DEF Signed
<1> QED
  BY <1>1, <1>2

LEMMA SanitisedType ==
  ASSUME NEW n \in Int
  PROVE  SanitisedReads(n) \in 1..(WordSize + 4)
  BY UnsignedType, WordAssumption DEF SanitisedReads

-----------------------------------------------------------------------------
(* Types. *)

LEMMA AverageType ==
  ASSUME TypeOK, numOfReads = SanitisedReads(config)
  PROVE  Average \in Int
<1> DEFINE d == Unsigned(100 * numOfReads)
<1>1. d \in Nat \ {0}
  BY DivisorAssumption, UnsignedType, WordAssumption DEF TypeOK
<1>2. Unsigned(sum) \in Nat
  BY UnsignedType, WordAssumption DEF TypeOK
<1> HIDE DEF d
<1>3. Unsigned(sum) \div d \in Int
  BY <1>1, <1>2, Quotient
<1> QED
  BY <1>3, SignedType DEF Average, d

(* The number of reads is what the constructor makes of the setting, and a *)
(* round that is done has made them all.                                   *)
SettingsInv == numOfReads = SanitisedReads(config)
RoundInv == pc = "done" => i = numOfReads

ReadsInv == TypeOK /\ SettingsInv /\ RoundInv

LEMMA InitReadsInv == Init => ReadsInv
<1> SUFFICES ASSUME Init PROVE ReadsInv
  OBVIOUS
<1>1. config \in Configs /\ config \in Int
  BY ConfigsAssumption DEF Init
<1>2. numOfReads \in 1..(WordSize + 4)
  BY <1>1, SanitisedType DEF Init
<1>3. TypeOK
  <2>1. missed \in BOOLEAN
    BY DEF Init
  <2>2. 0 \in 0..numOfReads
    BY <1>2, WordAssumption
  <2> QED
    BY <1>1, <1>2, <2>1, <2>2 DEF Init, TypeOK
<1> QED
  BY <1>3 DEF Init, ReadsInv, RoundInv, SettingsInv

LEMMA ReadSensorReads ==
  ASSUME ReadsInv, ReadSensor
  PROVE  ReadsInv'
<1> USE DEF ReadsInv
<1>1. PICK t \in Int : sum' = Signed(sum + t) /\ (total' = total + t \/ total' = total)
  BY ValuesAssumption DEF ReadSensor
<1>2. sum' \in Int /\ total' \in Int
  BY <1>1, SignedType DEF TypeOK
<1>3. missed' \in BOOLEAN
  BY DEF ReadSensor, TypeOK
<1>4. i' \in 0..numOfReads
  BY DEF ReadSensor, MoreReads, TypeOK
<1>5. TypeOK'
  BY <1>2, <1>3, <1>4 DEF ReadSensor, TypeOK, settings
<1> QED
  BY <1>5 DEF RoundInv, SettingsInv, ReadSensor, settings

LEMMA AssignTempReads ==
  ASSUME ReadsInv, AssignTemp
  PROVE  ReadsInv'
<1> USE DEF ReadsInv
<1>1. temp' \in Int
  BY AverageType, ValuesAssumption DEF AssignTemp, SettingsInv
<1>2. TypeOK'
  BY <1>1 DEF AssignTemp, TypeOK, settings
<1>3. i = numOfReads
  BY DEF AssignTemp, MoreReads, TypeOK
<1> QED
  BY <1>2, <1>3 DEF RoundInv, SettingsInv, AssignTemp, settings

LEMMA CallAgainReads ==
  ASSUME ReadsInv, CallAgain
  PROVE  ReadsInv'
<1> USE DEF ReadsInv
<1>1. TypeOK'
  <2>1. missed' \in BOOLEAN
    BY DEF CallAgain, BeginRound
  <2>2. i' \in 0..numOfReads'
    BY DEF CallAgain, BeginRound, TypeOK, settings
  <2> QED
    BY <2>1, <2>2 DEF CallAgain, BeginRound, TypeOK, settings
<1> QED
  BY <1>1 DEF RoundInv, SettingsInv, CallAgain, BeginRound, settings

LEMMA ReadsInvHolds == Spec => []ReadsInv
<1>1. ReadsInv /\ [Next]_vars => ReadsInv'
  <2> SUFFICES ASSUME ReadsInv, [Next]_vars PROVE ReadsInv'
    OBVIOUS
  <2>1. CASE UNCHANGED vars
    BY <2>1 DEF vars, settings, ReadsInv, TypeOK, SettingsInv, RoundInv
  <2> QED
    BY <2>1, ReadSensorReads, AssignTempReads, CallAgainReads DEF Next
<1> QED
  BY <1>1, InitReadsInv, PTL DEF Spec

(* Type correctness, for any setting and any garbage. *)
THEOREM TypeCorrect == Spec => []TypeOK
<1>1. ReadsInv => TypeOK
  BY DEF ReadsInv
<1> QED
  BY <1>1, ReadsInvHolds, PTL

-----------------------------------------------------------------------------
(* The average, for readings between -m and m whose sums an int can hold.  *)

Fits(m) ==
  /\ \A r \in Readings : -m <= r /\ r <= m
  /\ \A c \in Configs : LET n == SanitisedReads(c)
                        IN  m * n < WordSize \div 2 /\ 100 * n < WordSize

(* The int has not wrapped so far, and temp is the average. *)
SumInv(m) ==
  ~missed =>
    /\ sum = total
    /\ -(m * i) <= total /\ total <= m * i
    /\ pc = "done" /\ total >= 0 => temp = total \div (100 * numOfReads) + Calibration

LEMMA SumFits ==
  ASSUME NEW m \in Nat, Fits(m), ReadsInv, NEW k \in 0..numOfReads
  PROVE  m * k \in Nat /\ m * k < WordSize \div 2
<1>1. m * numOfReads < WordSize \div 2 /\ numOfReads \in Nat
  BY DEF Fits, ReadsInv, SettingsInv, TypeOK
<1>2. m * k <= m * numOfReads
  BY <1>1, TimesMonotone
<1> QED
  BY <1>1, <1>2, HalfWord

LEMMA ReadSensorSums ==
  ASSUME NEW m \in Nat, Fits(m), ReadsInv, SumInv(m), ReadSensor
  PROVE  SumInv(m)'
<1> SUFFICES ASSUME ~missed'
             PROVE  sum' = total' /\ -(m * (i + 1)) <= total' /\ total' <= m * (i + 1)
  BY DEF SumInv, ReadSensor
<1>1. PICK r \in Readings : sum' = Signed(sum + r) /\ total' = total + r /\ ~missed
  BY DEF ReadSensor
<1>2. r \in Int /\ -m <= r /\ r <= m
  BY ValuesAssumption DEF Fits
<1>3. sum = total /\ total \in Int /\ -(m * i) <= total /\ total <= m * i
  BY <1>1 DEF SumInv, ReadSensor, ReadsInv, TypeOK
<1>4. i \in Nat /\ i + 1 \in 0..numOfReads
  BY DEF ReadSensor, MoreReads, ReadsInv, TypeOK
<1>5. m * i \in Nat /\ m * (i + 1) = m * i + m
  BY <1>4, Distributes
<1>6. m * (i + 1) < WordSize \div 2
  BY <1>4, SumFits
<1> DEFINE bound == m * i
<1> HIDE DEF bound
<1>7. -(bound + m) <= total + r /\ total + r <= bound + m
  BY <1>2, <1>3, <1>5 DEF bound
<1>8. bound + m < WordSize \div 2
  BY <1>5, <1>6 DEF bound
<1>9. Signed(total + r) = total + r
  BY <1>2, <1>3, <1>5, <1>7, <1>8, HalfWord, SignedOfSmall DEF bound
<1> QED
  BY <1>1, <1>3, <1>5, <1>7, <1>9 DEF bound

LEMMA AssignTempSums ==
  ASSUME NEW m \in Nat, Fits(m), ReadsInv, SumInv(m), AssignTemp
  PROVE  SumInv(m)'
<1> SUFFICES ASSUME ~missed, total >= 0
             PROVE  temp' = total \div (100 * numOfReads) + Calibration
  BY DEF SumInv, AssignTemp, settings
<1>1. sum = total /\ total \in Nat /\ total <= m * i
  BY DEF SumInv, AssignTemp, ReadsInv, TypeOK
<1>2. total < WordSize \div 2
  <2>1. i \in 0..numOfReads
    BY DEF ReadsInv, TypeOK
  <2> QED
    BY <1>1, <2>1, SumFits, HalfWord
<1>3. Unsigned(sum) = total
  BY <1>1, <1>2, HalfWord, UnsignedOfSmall
<1> DEFINE d == 100 * numOfReads
<1>4. d \in Nat \ {0} /\ d < WordSize
  BY DEF Fits, ReadsInv, SettingsInv, TypeOK
<1> HIDE DEF d
<1>5. Unsigned(d) = d
  BY <1>4, WordAssumption, UnsignedOfSmall
<1>6. total \div d \in Nat /\ total \div d <= total
  BY <1>1, <1>4, Quotient, QuotientIsLess
<1>7. Signed(total \div d) = total \div d
  BY <1>1, <1>2, <1>6, HalfWord, SignedOfSmall
<1>8. Average = total \div d
  BY <1>3, <1>5, <1>7 DEF Average, d
<1> QED
  BY <1>8 DEF AssignTemp, d

LEMMA SumInvHolds ==
  ASSUME NEW m \in Nat, Fits(m)
  PROVE  Spec => []SumInv(m)
<1>1. Init => SumInv(m)
  BY DEF Init, SumInv
<1>2. ReadsInv /\ SumInv(m) /\ [Next]_vars => SumInv(m)'
  <2> SUFFICES ASSUME ReadsInv, SumInv(m), [Next]_vars PROVE SumInv(m)'
    OBVIOUS
  <2>1. CASE CallAgain
    BY <2>1 DEF CallAgain, BeginRound, SumInv
  <2>2. CASE UNCHANGED vars
    BY <2>2 DEF vars, settings, SumInv
  <2> QED
    BY <2>1, <2>2, ReadSensorSums, AssignTempSums DEF Next
<1> QED
  BY <1>1, <1>2, ReadsInvHolds, PTL DEF Spec

(* Whatever the configuration: if no sum of readings leaves the int, a     *)
(* round whose sum is not negative sets temp to the average of its         *)
(* readings, cut off to a tenth of a degree (controller.cpp:104-118).      *)
THEOREM AveragesAreRight ==
  ASSUME NEW m \in Nat, Fits(m)
  PROVE  Spec => []AveragesWarmReadings
<1>1. ReadsInv /\ SumInv(m) => AveragesWarmReadings
  <2> SUFFICES ASSUME ReadsInv, SumInv(m), pc = "done", ~missed, total >= 0
               PROVE  LET hundredths == 100 * numOfReads
                      IN  /\ hundredths * (temp - Calibration) <= total
                          /\ total < hundredths * (temp - Calibration + 1)
    BY DEF AveragesWarmReadings
  <2> DEFINE d == 100 * numOfReads
  <2>1. d \in Nat \ {0} /\ total \in Nat
    BY DEF ReadsInv, TypeOK
  <2>2. temp = total \div d + Calibration
    BY DEF SumInv
  <2> HIDE DEF d
  <2>3. total \div d \in Nat /\ d * (total \div d) <= total /\ total < d * (total \div d + 1)
    BY <2>1, Quotient
  <2>4. temp - Calibration = total \div d
    BY <2>2, <2>3, ValuesAssumption
  <2> QED
    BY <2>3, <2>4 DEF d
<1> QED
  BY <1>1, ReadsInvHolds, SumInvHolds, PTL
=============================================================================
