--------------------------- MODULE Display_proofs ---------------------------
(***************************************************************************)
(* The safety properties of Display for any texts, any number of digits,   *)
(* and any number of calls of show() and of deaths of the process.         *)
(***************************************************************************)
EXTENDS Display, TLAPS

InPass == {"char", "light", "enable", "disable"}

(* What show() keeps of a text: one decimal behind the dot. *)
IsCut(s) ==
  /\ s \in Seq(Chars) /\ Len(s) \in 3..(BufferSize - 1)
  /\ \A k \in 1..Len(s) : IF k = Len(s) - 1 THEN s[k] = "." ELSE s[k] \in Glyphs

-----------------------------------------------------------------------------
(* The invariant. *)

NumberType ==
  /\ chars \in [1..BufferSize -> Chars] /\ length \in 1..(BufferSize - 1)
  /\ showing \in Texts \cup {<<>>} /\ written \in 0..Len(showing)
  /\ wpc \in {"idle", "bytes", "cut"}
  /\ shows \in 0..MaxShows
  /\ current \in Seq(Chars)

RunType ==
  /\ pc \in {"down", "digits", "segments", "length", "copy", "char", "light", "enable",
             "disable"}
  /\ size \in 0..(BufferSize - 1) /\ temperature \in Seq(Chars) /\ Len(temperature) <= size
  /\ i \in 0..(BufferSize - 1) /\ posShift \in 0..Len(temperature)
  /\ pin \in Digits \cup Segments \cup {NoPin}
  /\ lit \subseteq Segments /\ low \subseteq Digits
  /\ crashes \in 0..MaxCrashes
  /\ meant \in Seq(Chars)
  /\ shown \in [Digits -> SUBSET Segments]

FlagType == decimalPoint \in BOOLEAN /\ disturbed \in BOOLEAN

(* Where run() is in its pass, and the flag of the decimal point. *)
PassInv ==
  /\ pc \in InPass => /\ Len(temperature) = size
                      /\ i \in 0..size /\ posShift + i <= size
  /\ pc = "copy" => Len(temperature) < size /\ posShift = 0 /\ ~decimalPoint
  /\ pc \in {"light", "enable", "disable"} => i > 0 /\ temperature[i] \in Glyphs
  /\ pc \in {"char", "light"} => (decimalPoint <=> HasPoint(temperature, i))
  /\ pc \in {"enable", "disable"} => ~decimalPoint

(* Which pins it drives there. *)
PinsInv ==
  /\ pc \notin {"down", "digits", "disable"} => low = {}
  /\ pc = "light" => lit = {}
  /\ pc = "enable" => lit = Shape(temperature, i)
  /\ pc = "disable" => /\ low \subseteq {pin}
                       /\ low # {} => lit = Shape(temperature, i)
                       /\ pin \in PinAt(posShift)

(* What the bytes of number are while show() is and is not at work. *)
BufferInv ==
  /\ IsCut(current)
  /\ pc = "down" => wpc = "idle"
  /\ wpc = "idle" /\ pc # "down" =>
       length = Len(current) /\ \A k \in 1..length : chars[k] = current[k]
  /\ wpc = "bytes" => showing \in Texts /\ \A k \in 1..written : chars[k] = showing[k]
  /\ wpc = "cut" => showing \in Texts /\ \A k \in 1..Len(showing) : chars[k] = showing[k]

(* What run() has copied if no show() overlapped with the copying, and how *)
(* far it has come with it.                                                *)
CopiedInv ==
  /\ IsCut(meant)
  /\ ~disturbed /\ pc = "copy" => wpc = "idle" /\ meant = current
  /\ ~disturbed /\ pc \in InPass \cup {"copy"} =>
       size = Len(meant) /\ \A k \in 1..Len(temperature) : temperature[k] = meant[k]

ShiftAt(n) == IF n >= Len(meant) - 1 THEN Len(meant) - n ELSE Len(meant) - n - 1
ShiftInv == ~disturbed /\ pc \in InPass => posShift = ShiftAt(i)

Done == IF pc = "disable" THEN posShift + 1 ELSE posShift
ShownInv ==
  /\ pc = "copy" => shown = Nothing
  /\ ~disturbed /\ pc \in InPass /\ Fits(meant) =>
       \A k \in 1..NumDigits :
         shown[digitPins[k]] = IF k <= Done THEN DigitOn(meant, k) ELSE {}

Inv == /\ NumberType /\ RunType /\ FlagType
       /\ PassInv /\ PinsInv /\ BufferInv /\ CopiedInv /\ ShiftInv /\ ShownInv

-----------------------------------------------------------------------------
(* Lemmas about texts and pins. *)

LEMMA GlyphFacts ==
  /\ Glyphs = {"0", "1", "2", "3", "4", "5", "6", "7", "8", "9", "-"}
  /\ "." \notin Glyphs /\ "NUL" \notin Glyphs
  BY DEF Glyphs, numberConstructor

LEMMA SegmentsOfGlyph ==
  ASSUME NEW c \in Glyphs
  PROVE  numberConstructor[c] \subseteq Segments
  BY DEF Glyphs, numberConstructor, Segments

LEMMA TextFacts ==
  ASSUME NEW t \in Texts
  PROVE  /\ t \in Seq(Chars) /\ Len(t) \in 3..(BufferSize - 1)
         /\ DotOf(t) \in 2..(Len(t) - 1)
         /\ \A k \in 1..Len(t) : IF k = DotOf(t) THEN t[k] = "." ELSE t[k] \in Glyphs
<1>1. t \in Seq(Chars) /\ IsNumeral(t)
  BY TextsAssumption
<1>2. PICK d \in 2..(Len(t) - 1) :
        \A k \in 1..Len(t) : IF k = d THEN t[k] = "." ELSE t[k] \in Glyphs
  BY <1>1 DEF IsNumeral
<1>3. d \in 1..Len(t) /\ t[d] = "."
  BY <1>1, <1>2
<1>4. DotOf(t) \in 1..Len(t) /\ t[DotOf(t)] = "."
  BY <1>3 DEF DotOf
<1>5. DotOf(t) = d
  BY <1>2, <1>4, GlyphFacts
<1>6. Len(t) \in Nat
  BY <1>1
<1>7. Len(t) \in 3..(BufferSize - 1)
  <2>1. Len(t) < 16
    BY <1>1 DEF IsNumeral, BufferSize
  <2>2. 3 <= Len(t)
    BY <1>6
  <2> DEFINE n == Len(t)
  <2>3. n \in Nat /\ n < 16 /\ 3 <= n
    BY <1>6, <2>1, <2>2
  <2> HIDE DEF n
  <2>4. n \in 3..(BufferSize - 1)
    BY <2>3 DEF BufferSize
  <2> QED
    BY <2>4 DEF n
<1>8. \A k \in 1..Len(t) : IF k = DotOf(t) THEN t[k] = "." ELSE t[k] \in Glyphs
  BY <1>2, <1>5
<1> QED
  BY <1>1, <1>5, <1>7, <1>8

LEMMA CutFacts ==
  ASSUME NEW t \in Texts
  PROVE  LET s == SubSeq(t, 1, DotOf(t) + 1)
         IN  IsCut(s) /\ Len(s) = CutAt(t) /\ \A k \in 1..Len(s) : s[k] = t[k]
<1> DEFINE d == DotOf(t)
           s == SubSeq(t, 1, d + 1)
<1>1. t \in Seq(Chars) /\ Len(t) \in 3..(BufferSize - 1) /\ d \in 2..(Len(t) - 1)
  BY TextFacts
<1>2. \A k \in 1..Len(t) : IF k = d THEN t[k] = "." ELSE t[k] \in Glyphs
  BY TextFacts
<1> HIDE DEF d
<1>3. s \in Seq(Chars) /\ Len(s) = d + 1 /\ \A k \in 1..(d + 1) : s[k] = t[k]
  BY <1>1
<1>4. IsCut(s)
  BY <1>1, <1>2, <1>3 DEF IsCut, BufferSize
<1> QED
  BY <1>3, <1>4 DEF d, CutAt

LEMMA InitialIsCut == IsCut(InitialText)
  BY GlyphFacts DEF IsCut, InitialText, Chars, BufferSize

LEMMA FreshFacts ==
  /\ Fresh(InitialText) \in [1..BufferSize -> Chars]
  /\ \A k \in 1..Len(InitialText) : Fresh(InitialText)[k] = InitialText[k]
<1>1. InitialText \in Seq(Chars) /\ Len(InitialText) = 4
  BY GlyphFacts DEF InitialText, Chars
<1> QED
  BY <1>1 DEF Fresh, BufferSize, Chars

LEMMA ShapeType ==
  ASSUME NEW s, NEW k, s[k] \in Glyphs
  PROVE  Shape(s, k) \subseteq Segments
<1>1. {"DP"} \subseteq Segments
  BY DEF Segments
<1> QED
  BY <1>1, SegmentsOfGlyph DEF Shape

LEMMA PinAtType ==
  ASSUME NEW n \in Nat
  PROVE  /\ PinAt(n) \subseteq Digits \cup Segments \cup {NoPin}
         /\ n < NumDigits => n + 1 \in 1..NumDigits /\ PinAt(n) = {digitPins[n + 1]}
         /\ n < NumDigits => digitPins[n + 1] \in Digits
  BY PinsAssumption DEF PinAt, Digits, NumDigits

LEMMA TypeOKParts == TypeOK <=> NumberType /\ RunType /\ FlagType
  BY DEF TypeOK, NumberType, RunType, FlagType

-----------------------------------------------------------------------------
(* Type correctness. *)

LEMMA InitTypes == Init => NumberType /\ RunType /\ FlagType
<1> SUFFICES ASSUME Init PROVE NumberType /\ RunType /\ FlagType
  OBVIOUS
<1> USE DEF Init
<1>1. InitialText \in Seq(Chars) /\ Len(InitialText) = 4
  BY GlyphFacts DEF InitialText, Chars
<1>2. NumberType
  BY <1>1, FreshFacts, BoundsAssumption DEF NumberType, BufferSize
<1>3. RunType
  <2>1. shown \in [Digits -> SUBSET Segments]
    BY DEF Nothing
  <2>2. lit \subseteq Segments /\ low \subseteq Digits
    OBVIOUS
  <2> QED
    BY <1>1, <2>1, <2>2, BoundsAssumption DEF RunType, BufferSize
<1>4. FlagType
  BY DEF FlagType
<1> QED
  BY <1>2, <1>3, <1>4

(* SetLength leaves the bytes of the text alone. *)
LEMMA SetLengthFacts ==
  ASSUME NumberType, NEW n \in 1..(BufferSize - 1), SetLength(n)
  PROVE  /\ length' \in 1..(BufferSize - 1)
         /\ chars' \in [1..BufferSize -> Chars]
         /\ \A k \in 1..n : chars'[k] = chars[k]
<1>1. n + 1 \in 1..BufferSize /\ "NUL" \in Chars
  BY DEF BufferSize, Chars
<1> QED
  BY <1>1 DEF SetLength, NumberType

(* The texts of show()'s steps, and how long they are. *)
LEMMA ShowingFacts ==
  ASSUME BufferInv, wpc \in {"bytes", "cut"}
  PROVE  /\ showing \in Texts
         /\ Len(showing) \in 1..(BufferSize - 1) /\ CutAt(showing) \in 1..(BufferSize - 1)
         /\ \A k \in 1..Len(showing) : k + 1 \in 1..BufferSize /\ k \in 1..BufferSize
         /\ \A k \in 1..CutAt(showing) : k \in 1..Len(showing)
<1> DEFINE n == Len(showing)
           d == DotOf(showing)
<1>1. showing \in Texts
  BY DEF BufferInv
<1>2. n \in 3..(BufferSize - 1) /\ d \in 2..(n - 1)
  BY <1>1, TextFacts
<1>3. CutAt(showing) = d + 1
  BY DEF CutAt
<1> HIDE DEF n, d
<1>4. n \in 1..(BufferSize - 1) /\ d + 1 \in 1..n /\ d + 1 \in 1..(BufferSize - 1)
  BY <1>2 DEF BufferSize
<1>5. \A k \in 1..n : k + 1 \in 1..BufferSize /\ k \in 1..BufferSize
  BY <1>2 DEF BufferSize
<1>6. \A k \in 1..(d + 1) : k \in 1..n
  BY <1>2
<1> QED
  BY <1>1, <1>3, <1>4, <1>5, <1>6 DEF n

LEMMA NumberTypeKept ==
  ASSUME NumberType, BufferInv, [Next]_vars
  PROVE  NumberType'
<1> USE DEF NumberType
<1>1. ASSUME NEW t \in Texts, BeginShow(t) PROVE NumberType'
  <2>1. Len(t) \in Nat
    BY TextFacts
  <2>2. shows' \in 0..MaxShows
    BY <1>1, BoundsAssumption DEF BeginShow
  <2> QED
    BY <1>1, <2>1, <2>2 DEF BeginShow
<1>2. CASE CopyByteIn
  <2>1. showing \in Seq(Chars) /\ Len(showing) \in 1..(BufferSize - 1)
    BY <1>2, ShowingFacts, TextFacts DEF CopyByteIn
  <2>2. written + 1 \in 1..Len(showing) /\ showing[written + 1] \in Chars
    BY <1>2, <2>1 DEF CopyByteIn
  <2>3. written + 1 \in 1..BufferSize
    BY <1>2, <2>2, ShowingFacts DEF CopyByteIn
  <2>4. chars' \in [1..BufferSize -> Chars]
    BY <1>2, <2>2, <2>3 DEF CopyByteIn
  <2> QED
    BY <1>2, <2>2, <2>4 DEF CopyByteIn
<1>3. CASE EndAssign
  <2>1. length' \in 1..(BufferSize - 1) /\ chars' \in [1..BufferSize -> Chars]
    BY <1>3, ShowingFacts, SetLengthFacts DEF EndAssign
  <2> QED
    BY <1>3, <2>1 DEF EndAssign
<1>4. CASE Cut
  <2>1. CutAt(showing) \in 1..(BufferSize - 1)
    BY <1>4, ShowingFacts DEF Cut
  <2>2. length' \in 1..(BufferSize - 1) /\ chars' \in [1..BufferSize -> Chars]
    BY <1>4, <2>1, SetLengthFacts DEF Cut
  <2>3. current' \in Seq(Chars)
    BY <1>4, ShowingFacts, CutFacts DEF Cut, IsCut
  <2> QED
    BY <1>4, <2>2, <2>3 DEF Cut
<1>5. CASE InitDigits \/ InitSegments
  BY <1>5 DEF InitDigits, InitSegments, numberVars
<1>6. CASE PassStep
  BY <1>6 DEF PassStep, ReadLength, CopyByteOut, Dot, Clear, Light, Enable, Disable,
              EndPass, Abort, numberVars
<1>7. CASE Crash
  BY <1>7 DEF Crash, Die
<1>8. CASE Restart
  <2>1. InitialText \in Seq(Chars) /\ Len(InitialText) = 4
    BY GlyphFacts DEF InitialText, Chars
  <2>2. current' \in Seq(Chars) /\ length' \in 1..(BufferSize - 1)
    BY <1>8, <2>1 DEF Restart, BufferSize
  <2> QED
    BY <1>8, <2>2, FreshFacts DEF Restart
<1>9. CASE UNCHANGED vars
  BY <1>9 DEF vars, numberVars
<1> QED
  BY <1>1, <1>2, <1>3, <1>4, <1>5, <1>6, <1>7, <1>8, <1>9 DEF Next, ShowStep

(* The steps of run(). *)
LEMMA RunTypeKept ==
  ASSUME NumberType, RunType, PassInv, [Next]_vars
  PROVE  RunType'
<1> USE DEF RunType
<1>1. ASSUME NEW t \in Texts, BeginShow(t) PROVE RunType'
  BY <1>1 DEF BeginShow, passVars, pinVars
<1>2. CASE ShowStep
  BY <1>2 DEF ShowStep, CopyByteIn, EndAssign, Cut, passVars, pinVars, historyVars
<1>3. CASE InitDigits \/ InitSegments
  BY <1>3 DEF InitDigits, InitSegments, passVars, historyVars
<1>4. CASE ReadLength
  <2>1. size' \in 0..(BufferSize - 1) /\ meant' \in Seq(Chars)
    BY <1>4 DEF ReadLength, NumberType, BufferSize
  <2>2. shown' \in [Digits -> SUBSET Segments]
    BY <1>4 DEF ReadLength, Nothing
  <2>3. temperature' = <<>> /\ posShift' = 0
    BY <1>4 DEF ReadLength, FirstShift
  <2> QED
    BY <1>4, <2>1, <2>2, <2>3 DEF ReadLength, pinVars, BufferSize
<1>5. CASE CopyByteOut
  <2>1. Len(temperature) < size /\ posShift = 0
    BY <1>5 DEF CopyByteOut, PassInv
  <2>2. Len(temperature) + 1 \in 1..BufferSize
    <3> DEFINE n == Len(temperature)
    <3>1. n \in Nat /\ n < size /\ size \in 0..(BufferSize - 1)
      BY <2>1
    <3> HIDE DEF n
    <3>2. n + 1 \in 1..BufferSize
      BY <3>1 DEF BufferSize
    <3> QED
      BY <3>2 DEF n
  <2>3. chars[Len(temperature) + 1] \in Chars
    BY <2>2 DEF NumberType
  <2>4. temperature' \in Seq(Chars) /\ Len(temperature') = Len(temperature) + 1
    BY <1>5, <2>3 DEF CopyByteOut
  <2>5. i' \in 0..(BufferSize - 1)
    BY <1>5 DEF CopyByteOut
  <2> QED
    BY <1>5, <2>1, <2>4, <2>5 DEF CopyByteOut, pinVars, historyVars
<1>6. CASE Dot
  BY <1>6 DEF Dot, ClearSegments, historyVars, BufferSize
<1>7. CASE Clear
  BY <1>7 DEF Clear, ClearSegments, passVars, historyVars
<1>8. CASE Light
  <2>1. lit' \subseteq Segments
    <3>1. temperature[i] \in Glyphs
      BY <1>8 DEF Light, PassInv
    <3>2. numberConstructor[temperature[i]] \subseteq Segments
      BY <3>1, SegmentsOfGlyph
    <3>3. {"DP"} \subseteq Segments
      BY DEF Segments
    <3> QED
      BY <1>8, <3>2, <3>3 DEF Light
  <2> QED
    BY <1>8, <2>1 DEF Light, historyVars
<1>9. CASE Enable
  <2>1. posShift \in Nat
    OBVIOUS
  <2>2. PICK p \in PinAt(posShift) :
          pin' = p /\ low' = low \cup ({p} \cap Digits) /\ lit' = lit \ {p}
    BY <1>9 DEF Enable
  <2>3. p \in Digits \cup Segments \cup {NoPin}
    BY <2>1, PinAtType
  <2>4. shown' \in [Digits -> SUBSET Segments]
    BY <1>9 DEF Enable
  <2> QED
    BY <1>9, <2>2, <2>3, <2>4 DEF Enable
<1>10. CASE Disable
  <2>1. Len(temperature) = size /\ i \in 1..size /\ posShift + i <= size
    BY <1>10 DEF Disable, PassInv, InPass
  <2>2. i' \in 0..(BufferSize - 1) /\ posShift' \in 0..Len(temperature)
    BY <1>10, <2>1 DEF Disable, BufferSize
  <2>3. lit' \subseteq Segments /\ low' \subseteq Digits
    BY <1>10 DEF Disable, LowAfter
  <2> QED
    BY <1>10, <2>2, <2>3 DEF Disable, historyVars
<1>11. CASE EndPass
  BY <1>11 DEF EndPass, passVars, pinVars, historyVars
<1>12. CASE Abort
  BY <1>12 DEF Abort, ClearSegments, passVars, historyVars
<1>13. CASE Crash
  BY <1>13, BoundsAssumption DEF Crash, Die, passVars, pinVars, historyVars
<1>14. CASE Restart
  BY <1>14 DEF Restart, passVars, pinVars, historyVars
<1>15. CASE UNCHANGED vars
  BY <1>15 DEF vars, passVars, pinVars, historyVars
<1> QED
  BY <1>1, <1>2, <1>3, <1>4, <1>5, <1>6, <1>7, <1>8, <1>9, <1>10, <1>11, <1>12, <1>13,
     <1>14, <1>15 DEF Next, PassStep

LEMMA FlagTypeKept ==
  ASSUME FlagType, [Next]_vars
  PROVE  FlagType'
<1> USE DEF FlagType
<1>1. decimalPoint' \in BOOLEAN
  <2>1. CASE UNCHANGED decimalPoint
    BY <2>1
  <2>2. CASE ReadLength \/ Dot \/ Light
    BY <2>2 DEF ReadLength, Dot, Light, DecimalPointAfter
  <2> QED
    BY <2>1, <2>2 DEF Next, ShowStep, PassStep, BeginShow, CopyByteIn, EndAssign, Cut,
       InitDigits, InitSegments, CopyByteOut, Clear, Enable, Disable, EndPass, Abort,
       Crash, Die, Restart, vars, passVars
<1>2. disturbed' \in BOOLEAN
  <2>1. CASE UNCHANGED disturbed
    BY <2>1
  <2>2. CASE ReadLength
    BY <2>2 DEF ReadLength
  <2>3. ASSUME NEW t \in Texts, BeginShow(t) PROVE disturbed' \in BOOLEAN
    BY <2>3 DEF BeginShow
  <2> QED
    BY <2>1, <2>2, <2>3 DEF Next, ShowStep, PassStep, CopyByteIn, EndAssign, Cut,
       InitDigits, InitSegments, CopyByteOut, Dot, Light, Clear, Enable, Disable, EndPass,
       Abort, Crash, Die, Restart, vars, historyVars
<1> QED
  BY <1>1, <1>2

-----------------------------------------------------------------------------
(* One digit at a time, and no ghost. *)

LEMMA OutsideThePass ==
  ASSUME pc \notin InPass \cup {"copy"}
  PROVE  PassInv
  BY DEF PassInv, InPass

LEMMA PassInvKept ==
  ASSUME NumberType, RunType, FlagType, PassInv, [Next]_vars
  PROVE  PassInv'
<1> USE DEF PassInv, InPass
<1>1. CASE UNCHANGED <<pc, passVars>>
  BY <1>1 DEF passVars, HasPoint
<1>2. CASE pc' \notin InPass \cup {"copy"}
  BY <1>2
<1>3. CASE ReadLength
  <2>1. pc' = "copy" /\ decimalPoint' = FALSE /\ posShift' = 0 /\ temperature' = <<>>
        /\ size' = length
    BY <1>3 DEF ReadLength, FirstShift
  <2>2. Len(temperature') = 0 /\ size' \in Nat /\ 0 < size'
    BY <2>1 DEF NumberType, BufferSize
  <2> QED
    BY <2>1, <2>2
<1>4. CASE CopyByteOut
  <2>1. Len(temperature) < size /\ posShift = 0 /\ ~decimalPoint
    BY <1>4 DEF CopyByteOut
  <2>2. Len(temperature') = Len(temperature) + 1
    BY <1>4 DEF CopyByteOut, RunType
  <2>3. CASE Len(temperature) + 1 = size
    <3>1. pc' = "char" /\ i' = size /\ Len(temperature') = size
      BY <1>4, <2>2, <2>3 DEF CopyByteOut
    <3>2. ~HasPoint(temperature, i)'
      BY <3>1 DEF HasPoint, RunType
    <3> QED
      BY <1>4, <2>1, <3>1, <3>2 DEF CopyByteOut, RunType
  <2>4. CASE Len(temperature) + 1 # size
    <3> DEFINE n == Len(temperature)
    <3>1. n \in Nat /\ n < size /\ n + 1 # size /\ size \in Nat
      BY <2>1, <2>4 DEF RunType
    <3> HIDE DEF n
    <3>2. n + 1 < size
      BY <3>1
    <3>3. Len(temperature') < size
      BY <2>2, <3>2 DEF n
    <3>4. pc' = "copy" /\ posShift' = 0 /\ ~decimalPoint' /\ size' = size
      BY <1>4, <2>1, <2>4 DEF CopyByteOut
    <3> QED
      BY <3>3, <3>4
  <2> QED
    BY <2>3, <2>4
<1>5. CASE Dot
  <2>1. i \in 1..size /\ Len(temperature) = size /\ temperature[i] = "." /\ i' = i - 1
        /\ posShift + i <= size
    BY <1>5 DEF Dot, RunType
  <2>2. HasPoint(temperature, i)'
    BY <1>5, <2>1 DEF Dot, HasPoint
  <2> QED
    BY <1>5, <2>1, <2>2 DEF Dot, RunType
<1>6. CASE Clear
  BY <1>6 DEF Clear, passVars, HasPoint
<1>7. CASE Light
  BY <1>7 DEF Light, DecimalPointAfter
<1>8. CASE Enable
  BY <1>8 DEF Enable
<1>9. CASE Disable
  <2>1. i \in 1..size /\ Len(temperature) = size /\ temperature[i] \in Glyphs /\ i' = i - 1
        /\ posShift + i <= size /\ ~decimalPoint /\ posShift' = posShift + 1
    BY <1>9 DEF Disable, RunType
  <2>2. ~HasPoint(temperature, i)'
    BY <1>9, <2>1, GlyphFacts DEF Disable, HasPoint
  <2> QED
    BY <1>9, <2>1, <2>2 DEF Disable, RunType
<1>10. CASE InitDigits \/ InitSegments \/ EndPass \/ Abort \/ Crash \/ Restart
  BY <1>10, <1>2 DEF InitDigits, InitSegments, EndPass, Abort, Crash, Die, Restart
<1>11. CASE ShowStep
  BY <1>11, <1>1 DEF ShowStep, CopyByteIn, EndAssign, Cut
<1>12. ASSUME NEW t \in Texts, BeginShow(t) PROVE PassInv'
  BY <1>12, <1>1 DEF BeginShow
<1>13. CASE UNCHANGED vars
  BY <1>13, <1>1 DEF vars
<1> QED
  BY <1>3, <1>4, <1>5, <1>6, <1>7, <1>8, <1>9, <1>10, <1>11, <1>12, <1>13 DEF Next, PassStep

LEMMA PinsInvKept ==
  ASSUME RunType, PassInv, PinsInv, [Next]_vars
  PROVE  PinsInv'
<1> USE DEF PinsInv
<1>1. CASE UNCHANGED <<pc, passVars, pinVars>>
  <2>1. Shape(temperature, i)' = Shape(temperature, i) /\ PinAt(posShift)' = PinAt(posShift)
    BY <1>1 DEF passVars, Shape, HasPoint, PinAt
  <2> QED
    BY <1>1, <2>1 DEF passVars, pinVars
<1>2. CASE pc' = "down" \/ pc' = "digits"
  BY <1>2
<1>3. CASE InitDigits \/ InitSegments \/ ReadLength \/ CopyByteOut \/ Dot \/ Clear \/ EndPass
  <2>1. low' = {}
    <3>1. CASE InitDigits
      BY <3>1 DEF InitDigits
    <3>2. CASE ~InitDigits
      <4>1. pc \in {"segments", "length", "copy", "char"} /\ low' = low
        BY <1>3, <3>2 DEF InitSegments, ReadLength, CopyByteOut, Dot, Clear, EndPass,
                          AtPassEnd, pinVars
      <4> QED
        BY <4>1
    <3> QED
      BY <3>1, <3>2
  <2>2. pc' \in {"segments", "length", "copy", "char", "light"} /\ (pc' = "light" => lit' = {})
    BY <1>3 DEF InitDigits, InitSegments, ReadLength, CopyByteOut, Dot, Clear, EndPass,
                ClearSegments
  <2> QED
    BY <2>1, <2>2
<1>4. CASE Light
  <2>1. lit = {} /\ low = {} /\ pc' = "enable" /\ low' = low
    BY <1>4 DEF Light
  <2>2. decimalPoint <=> HasPoint(temperature, i)
    BY <1>4 DEF Light, PassInv
  <2>3. lit' = Shape(temperature, i)
    BY <1>4, <2>1, <2>2 DEF Light, Shape
  <2>4. Shape(temperature, i)' = Shape(temperature, i)
    BY <1>4 DEF Light, Shape, HasPoint
  <2> QED
    BY <2>1, <2>3, <2>4
<1>5. CASE Enable
  <2>1. lit = Shape(temperature, i) /\ low = {} /\ pc' = "disable"
    BY <1>5 DEF Enable
  <2>2. PICK p \in PinAt(posShift) :
          pin' = p /\ low' = low \cup ({p} \cap Digits) /\ lit' = lit \ {p}
    BY <1>5 DEF Enable
  <2>3. low' \subseteq {pin'} /\ (low' # {} => p \in Digits)
    BY <2>1, <2>2
  <2>4. p \in Digits => lit' = lit
    BY <2>2, PinsAssumption DEF RunType
  <2>5. Shape(temperature, i)' = Shape(temperature, i) /\ PinAt(posShift)' = PinAt(posShift)
    BY <1>5 DEF Enable, Shape, HasPoint, PinAt
  <2> QED
    BY <2>1, <2>2, <2>3, <2>4, <2>5
<1>6. CASE Disable
  BY <1>6 DEF Disable, LowAfter
<1>7. CASE Abort \/ Crash \/ Restart
  BY <1>7 DEF Abort, Crash, Die, Restart
<1>8. CASE ShowStep
  BY <1>8, <1>1 DEF ShowStep, CopyByteIn, EndAssign, Cut
<1>9. ASSUME NEW t \in Texts, BeginShow(t) PROVE PinsInv'
  BY <1>9, <1>1 DEF BeginShow
<1>10. CASE UNCHANGED vars
  BY <1>10, <1>1 DEF vars
<1> QED
  BY <1>3, <1>4, <1>5, <1>6, <1>7, <1>8, <1>9, <1>10 DEF Next, PassStep

-----------------------------------------------------------------------------
(* What number holds, and what run() has copied of it. *)

LEMMA BufferInvKept ==
  ASSUME NumberType, BufferInv, [Next]_vars
  PROVE  BufferInv'
<1> USE DEF BufferInv
<1>1. CASE UNCHANGED numberVars /\ pc # "down" /\ pc' # "down"
  BY <1>1 DEF numberVars, IsCut
<1>2. ASSUME NEW t \in Texts, BeginShow(t) PROVE BufferInv'
  <2>1. \A k \in 1..0 : chars'[k] = t[k]
    OBVIOUS
  <2> QED
    BY <1>2, <2>1 DEF BeginShow, IsCut
<1>3. CASE CopyByteIn
  <2>1. showing \in Texts /\ \A k \in 1..written : chars[k] = showing[k]
    BY <1>3 DEF CopyByteIn
  <2>2. written \in Nat /\ written + 1 \in 1..Len(showing)
    BY <1>3, <2>1, TextFacts DEF CopyByteIn, NumberType
  <2>3. written + 1 \in 1..BufferSize
    BY <1>3, <2>2, ShowingFacts DEF CopyByteIn
  <2>4. \A k \in 1..(written + 1) : chars'[k] = showing[k]
    BY <1>3, <2>1, <2>2, <2>3, ShowingFacts DEF CopyByteIn, NumberType
  <2> QED
    BY <1>3, <2>1, <2>4 DEF CopyByteIn, IsCut
<1>4. CASE EndAssign
  <2>1. showing \in Texts /\ \A k \in 1..Len(showing) : chars[k] = showing[k]
    BY <1>4 DEF EndAssign
  <2>2. \A k \in 1..Len(showing) : chars'[k] = chars[k]
    BY <1>4, ShowingFacts, SetLengthFacts DEF EndAssign
  <2> QED
    BY <1>4, <2>1, <2>2 DEF EndAssign, IsCut
<1>5. CASE Cut
  <2> DEFINE s == SubSeq(showing, 1, DotOf(showing) + 1)
  <2>1. showing \in Texts /\ \A k \in 1..Len(showing) : chars[k] = showing[k]
    BY <1>5 DEF Cut
  <2>2. IsCut(s) /\ Len(s) = CutAt(showing) /\ \A k \in 1..Len(s) : s[k] = showing[k]
    BY <2>1, CutFacts
  <2>3. current' = s /\ length' = CutAt(showing)
    BY <1>5 DEF Cut, SetLength
  <2>4. \A k \in 1..CutAt(showing) : chars'[k] = chars[k] /\ k \in 1..Len(showing)
    BY <1>5, ShowingFacts, SetLengthFacts DEF Cut
  <2> HIDE DEF s
  <2>5. length' = Len(current') /\ \A k \in 1..length' : chars'[k] = current'[k]
    BY <2>1, <2>2, <2>3, <2>4
  <2>6. IsCut(current')
    BY <2>2, <2>3
  <2> QED
    BY <1>5, <2>5, <2>6 DEF Cut
<1>6. CASE InitDigits \/ InitSegments
  BY <1>6, <1>1 DEF InitDigits, InitSegments
<1>7. CASE PassStep /\ ~Abort
  BY <1>7, <1>1 DEF PassStep, ReadLength, CopyByteOut, Dot, Clear, Light, Enable, Disable,
                    EndPass, AtPassEnd
<1>8. CASE Abort \/ Crash
  BY <1>8 DEF Abort, Crash, Die, IsCut
<1>9. CASE Restart
  <2>1. IsCut(current')
    BY <1>9, InitialIsCut DEF Restart
  <2>2. length' = Len(current') /\ \A k \in 1..length' : chars'[k] = current'[k]
    BY <1>9, FreshFacts DEF Restart
  <2> QED
    BY <1>9, <2>1, <2>2 DEF Restart
<1>10. CASE UNCHANGED vars
  BY <1>10 DEF vars, numberVars, IsCut
<1> QED
  BY <1>2, <1>3, <1>4, <1>5, <1>6, <1>7, <1>8, <1>9, <1>10 DEF Next, ShowStep

LEMMA CopiedInvKept ==
  ASSUME NumberType, RunType, PassInv, BufferInv, CopiedInv, [Next]_vars
  PROVE  CopiedInv'
<1> USE DEF CopiedInv
<1>1. CASE UNCHANGED <<meant, disturbed, temperature, size>>
           /\ (pc' \in InPass \cup {"copy"} => pc \in InPass \cup {"copy"})
           /\ (pc' = "copy" => pc = "copy" /\ (wpc = "idle" => UNCHANGED <<wpc, current>>))
  BY <1>1 DEF IsCut
<1>2. ASSUME NEW t \in Texts, BeginShow(t) PROVE CopiedInv'
  <2>1. /\ UNCHANGED <<pc, meant, temperature, size>>
        /\ ~disturbed' => ~disturbed /\ pc # "copy"
    BY <1>2 DEF BeginShow, passVars
  <2> QED
    BY <2>1 DEF IsCut
<1>3. CASE ShowStep
  BY <1>3, <1>1 DEF ShowStep, CopyByteIn, EndAssign, Cut, passVars, historyVars
<1>4. CASE InitDigits \/ InitSegments \/ EndPass \/ Crash \/ Restart
  BY <1>4, <1>1 DEF InitDigits, InitSegments, EndPass, Crash, Die, Restart, passVars,
                    historyVars, InPass
<1>5. CASE ReadLength
  <2>1. IsCut(meant')
    BY <1>5 DEF ReadLength, BufferInv
  <2>2. ~disturbed' => wpc = "idle" /\ length = Len(current)
    BY <1>5 DEF ReadLength, BufferInv
  <2>3. size' = length /\ meant' = current /\ temperature' = <<>> /\ UNCHANGED <<wpc, current>>
    BY <1>5 DEF ReadLength, numberVars
  <2>4. \A k \in 1..Len(temperature') : temperature'[k] = meant'[k]
    BY <2>3
  <2> QED
    BY <2>1, <2>2, <2>3, <2>4
<1>6. CASE CopyByteOut
  <2> DEFINE n == Len(temperature)
  <2>1. pc = "copy" /\ n < size /\ n \in Nat /\ size \in Nat
    BY <1>6 DEF CopyByteOut, PassInv, RunType
  <2>2. /\ temperature' = Append(temperature, chars[n + 1])
        /\ UNCHANGED <<meant, disturbed, size, wpc, current>>
        /\ pc' \in {"copy", "char"}
    BY <1>6 DEF CopyByteOut, numberVars, historyVars
  <2>3. Len(temperature') = n + 1 /\ temperature'[n + 1] = chars[n + 1]
        /\ \A k \in 1..n : temperature'[k] = temperature[k]
    BY <2>2 DEF RunType
  <2>4. ASSUME ~disturbed
        PROVE  /\ wpc = "idle" /\ meant = current /\ size = Len(meant)
               /\ \A k \in 1..(n + 1) : temperature'[k] = meant[k]
    <3>1. wpc = "idle" /\ meant = current /\ size = Len(meant)
          /\ \A k \in 1..n : temperature[k] = meant[k]
      BY <2>1, <2>4
    <3>2. size = length /\ \A k \in 1..size : chars[k] = meant[k]
      BY <2>1, <3>1 DEF BufferInv
    <3> HIDE DEF n
    <3>3. n + 1 \in 1..size
      BY <2>1
    <3>4. chars[n + 1] = meant[n + 1]
      BY <3>2, <3>3
    <3>5. ASSUME NEW k \in 1..(n + 1) PROVE temperature'[k] = meant[k]
      <4>1. k \in 1..n \/ k = n + 1
        BY <2>1
      <4> QED
        BY <2>3, <3>1, <3>4, <4>1
    <3> QED
      BY <3>1, <3>5
  <2> HIDE DEF n
  <2> QED
    BY <2>2, <2>3, <2>4
<1>7. CASE Dot \/ Clear \/ Light \/ Enable \/ Disable \/ Abort
  BY <1>7, <1>1 DEF Dot, Clear, Light, Enable, Disable, Abort, passVars, historyVars, InPass
<1>8. CASE UNCHANGED vars
  BY <1>8, <1>1 DEF vars, numberVars, passVars, historyVars
<1> QED
  BY <1>2, <1>3, <1>4, <1>5, <1>6, <1>7, <1>8 DEF Next, PassStep

LEMMA ShiftInvKept ==
  ASSUME RunType, PassInv, CopiedInv, ShiftInv, [Next]_vars
  PROVE  ShiftInv'
<1> USE DEF ShiftInv, InPass
<1>1. CASE UNCHANGED <<meant, disturbed, posShift, i>> /\ (pc' \in InPass => pc \in InPass)
  BY <1>1 DEF ShiftAt
<1>2. ASSUME NEW t \in Texts, BeginShow(t) PROVE ShiftInv'
  BY <1>2 DEF BeginShow, passVars, ShiftAt
<1>3. CASE ShowStep
  BY <1>3, <1>1 DEF ShowStep, CopyByteIn, EndAssign, Cut, passVars, historyVars
<1>4. CASE InitDigits \/ InitSegments \/ ReadLength \/ EndPass \/ Abort \/ Crash \/ Restart
  BY <1>4 DEF InitDigits, InitSegments, ReadLength, EndPass, Abort, Crash, Die, Restart
<1>5. CASE CopyByteOut
  <2> SUFFICES ASSUME ~disturbed, pc' = "char" PROVE posShift' = ShiftAt(i)'
    BY <1>5 DEF CopyByteOut, historyVars
  <2> DEFINE m == Len(meant)
  <2>1. posShift' = 0 /\ i' = size /\ size = m /\ meant' = meant
    BY <1>5 DEF CopyByteOut, PassInv, CopiedInv, historyVars
  <2>2. m \in 3..(BufferSize - 1)
    BY DEF CopiedInv, IsCut
  <2> HIDE DEF m
  <2>3. i' = m /\ Len(meant') = m
    BY <2>1 DEF m
  <2> QED
    BY <2>1, <2>2, <2>3 DEF ShiftAt, BufferSize
<1>6. CASE Clear \/ Light \/ Enable
  BY <1>6, <1>1 DEF Clear, Light, Enable, passVars, historyVars
<1>7. ASSUME Dot \/ Disable, ~disturbed
      PROVE  /\ i \in 1..Len(meant) /\ Len(meant) \in 3..(BufferSize - 1)
             /\ i' = i - 1 /\ UNCHANGED <<meant, disturbed>>
             /\ posShift = ShiftAt(i)
             /\ i = Len(meant) - 1 <=> temperature[i] = "."
  <2>1. pc \in InPass /\ i > 0 /\ i' = i - 1 /\ UNCHANGED <<meant, disturbed>>
    BY <1>7 DEF Dot, Disable, PassInv, historyVars
  <2>2. i \in 1..Len(meant) /\ Len(meant) \in 3..(BufferSize - 1)
    BY <2>1, <1>7 DEF PassInv, CopiedInv, IsCut, RunType
  <2>3. temperature[i] = meant[i]
    BY <2>1, <2>2, <1>7 DEF PassInv, CopiedInv
  <2>4. i = Len(meant) - 1 <=> meant[i] = "."
    BY <2>2, GlyphFacts DEF CopiedInv, IsCut
  <2> QED
    BY <2>1, <2>2, <2>3, <2>4, <1>7
<1>8. CASE Dot
  <2> SUFFICES ASSUME ~disturbed PROVE posShift' = ShiftAt(i)'
    BY <1>8 DEF Dot, historyVars
  <2>1. temperature[i] = "." /\ posShift' = posShift
    BY <1>8 DEF Dot
  <2>2. i = Len(meant) - 1 /\ i' = i - 1 /\ meant' = meant
        /\ posShift = ShiftAt(i) /\ Len(meant) \in 3..(BufferSize - 1)
    BY <1>7, <1>8, <2>1
  <2> DEFINE m == Len(meant)
  <2>3. m \in Int /\ i = m - 1 /\ i' = m - 2 /\ Len(meant') = m /\ Len(meant) = m
    BY <2>2
  <2> HIDE DEF m
  <2> QED
    BY <2>1, <2>2, <2>3 DEF ShiftAt
<1>9. CASE Disable
  <2> SUFFICES ASSUME ~disturbed PROVE posShift' = ShiftAt(i)'
    BY <1>9 DEF Disable, historyVars
  <2>1. temperature[i] # "." /\ posShift' = posShift + 1
    BY <1>9, GlyphFacts DEF Disable, PassInv
  <2>2. i # Len(meant) - 1 /\ i \in 1..Len(meant) /\ i' = i - 1 /\ meant' = meant
        /\ posShift = ShiftAt(i) /\ Len(meant) \in 3..(BufferSize - 1)
    BY <1>7, <1>9, <2>1
  <2> DEFINE m == Len(meant)
  <2>3. m \in Int /\ i \in 1..m /\ i # m - 1 /\ Len(meant') = m /\ Len(meant) = m
    BY <2>2
  <2> HIDE DEF m
  <2> QED
    BY <2>1, <2>2, <2>3 DEF ShiftAt
<1>10. CASE UNCHANGED vars
  BY <1>10, <1>1 DEF vars, passVars, historyVars
<1> QED
  BY <1>2, <1>3, <1>4, <1>5, <1>6, <1>8, <1>9, <1>10 DEF Next, PassStep

-----------------------------------------------------------------------------
(* Every digit on its own pin. *)

LEMMA NumDigitsType == NumDigits \in Nat
  BY PinsAssumption DEF NumDigits

(* A character that is lit in a quiet pass: it has a pin, and looks as the *)
(* digit of that pin should.                                               *)
LEMMA QuietDigit ==
  ASSUME RunType, PassInv, CopiedInv, ShiftInv, ~disturbed,
         pc \in {"light", "enable", "disable"}
  PROVE  /\ Fits(meant) => posShift < NumDigits
         /\ Shape(temperature, i) = DigitOn(meant, posShift + 1)
<1> DEFINE m == Len(meant)
<1>1. m \in 3..(BufferSize - 1) /\ m = Len(temperature)
  BY DEF PassInv, CopiedInv, IsCut, InPass
<1>2. i \in 1..m /\ temperature[i] \in Glyphs
  BY <1>1 DEF PassInv, CopiedInv, InPass, RunType
<1>3. \A k \in 1..m : temperature[k] = meant[k]
  BY <1>1 DEF CopiedInv, InPass
<1>4. \A k \in 1..m : IF k = m - 1 THEN meant[k] = "." ELSE meant[k] \in Glyphs
  BY DEF CopiedInv, IsCut
<1>5. posShift = IF i >= m - 1 THEN m - i ELSE m - i - 1
  BY DEF ShiftInv, ShiftAt, InPass
<1>6. Fits(meant) => m <= NumDigits + 1
  BY DEF Fits
<1>7. HasPoint(temperature, i) <=> i < m /\ meant[i + 1] = "."
  BY <1>1, <1>2, <1>3 DEF HasPoint
<1>8. DigitOn(meant, posShift + 1) =
        CASE posShift + 1 = 1 -> numberConstructor[meant[m]]
          [] posShift + 1 = 2 -> numberConstructor[meant[m - 2]] \cup {"DP"}
          [] OTHER -> IF posShift + 1 < m THEN numberConstructor[meant[m - (posShift + 1)]]
                                          ELSE {}
  BY DEF DigitOn
<1> HIDE DEF m
<1>9. m \in Int /\ m >= 3 /\ i \in Int /\ 1 <= i /\ i <= m
  BY <1>1, <1>2
<1>10. i # m - 1 /\ meant[i] = temperature[i]
  BY <1>2, <1>3, <1>4, GlyphFacts
<1>11. Fits(meant) => posShift < NumDigits
  BY <1>5, <1>6, <1>9, <1>10, NumDigitsType
<1>12. CASE i = m
  <2>1. posShift + 1 = 1 /\ ~HasPoint(temperature, i)
    BY <1>5, <1>7, <1>9, <1>12
  <2> QED
    BY <1>8, <1>10, <1>11, <1>12, <2>1 DEF Shape
<1>13. CASE i = m - 2
  <2>1. posShift + 1 = 2 /\ i + 1 = m - 1
    BY <1>5, <1>9, <1>13
  <2>2. HasPoint(temperature, i)
    BY <1>4, <1>7, <1>9, <1>13
  <2> QED
    BY <1>8, <1>10, <1>11, <1>13, <2>1, <2>2 DEF Shape
<1>14. CASE i < m - 2
  <2>1. posShift + 1 = m - i /\ m - (m - i) = i /\ m - i < m /\ m - i # 1 /\ m - i # 2
    BY <1>5, <1>9, <1>14
  <2>2. i + 1 \in 1..m /\ i + 1 # m - 1
    BY <1>9, <1>14
  <2>3. ~HasPoint(temperature, i)
    BY <1>4, <1>7, <2>2, GlyphFacts
  <2> QED
    BY <1>8, <1>10, <1>11, <2>1, <2>3 DEF Shape
<1> QED
  BY <1>9, <1>10, <1>12, <1>13, <1>14

LEMMA ShownInvKept ==
  ASSUME RunType, PassInv, PinsInv, CopiedInv, ShiftInv, ShownInv, [Next]_vars
  PROVE  ShownInv'
<1> USE DEF ShownInv, InPass
<1>1. CASE /\ UNCHANGED <<meant, disturbed, posShift, shown>>
           /\ pc' \in InPass => pc \in InPass /\ (pc' = "disable" <=> pc = "disable")
           /\ pc' = "copy" => pc = "copy"
  BY <1>1 DEF Fits, Done, DigitOn
<1>2. ASSUME NEW t \in Texts, BeginShow(t) PROVE ShownInv'
  <2>1. UNCHANGED <<pc, meant, posShift, shown>> /\ (~disturbed' => ~disturbed)
    BY <1>2 DEF BeginShow, passVars
  <2> QED
    BY <2>1 DEF Fits, Done, DigitOn
<1>3. CASE ShowStep
  BY <1>3, <1>1 DEF ShowStep, CopyByteIn, EndAssign, Cut, passVars, historyVars
<1>4. CASE InitDigits \/ InitSegments \/ EndPass \/ Abort \/ Crash \/ Restart
  BY <1>4 DEF InitDigits, InitSegments, EndPass, Abort, Crash, Die, Restart
<1>5. CASE ReadLength
  BY <1>5 DEF ReadLength
<1>6. CASE CopyByteOut
  <2>1. shown' = shown /\ shown = Nothing /\ posShift' = 0 /\ pc' # "disable"
    BY <1>6 DEF CopyByteOut, PassInv, historyVars
  <2>2. ASSUME NEW k \in 1..NumDigits
        PROVE  shown'[digitPins[k]] = IF k <= Done' THEN DigitOn(meant, k)' ELSE {}
    <3>1. digitPins[k] \in Digits
      BY DEF Digits
    <3>2. Done' = 0
      BY <2>1 DEF Done
    <3>3. k \in Nat /\ ~(k <= 0)
      BY NumDigitsType
    <3> QED
      BY <2>1, <3>1, <3>2, <3>3 DEF Nothing
  <2> QED
    BY <2>1, <2>2
<1>7. CASE Dot \/ Clear \/ Light
  BY <1>7, <1>1 DEF Dot, Clear, Light, passVars, historyVars
<1>8. CASE Enable
  <2> SUFFICES ASSUME ~disturbed, Fits(meant), NEW k \in 1..NumDigits
               PROVE  shown'[digitPins[k]] = IF k <= posShift + 1 THEN DigitOn(meant, k) ELSE {}
    <3>1. UNCHANGED <<meant, disturbed, posShift>> /\ pc' = "disable"
      BY <1>8 DEF Enable
    <3>2. Done' = posShift + 1
      BY <3>1 DEF Done
    <3>3. Fits(meant)' = Fits(meant) /\ \A k \in 1..NumDigits : DigitOn(meant, k)' = DigitOn(meant, k)
      BY <3>1 DEF Fits, DigitOn
    <3> QED
      BY <3>1, <3>2, <3>3
  <2>1. posShift < NumDigits /\ posShift \in Nat /\ lit = DigitOn(meant, posShift + 1)
    BY <1>8, QuietDigit DEF Enable, PinsInv, RunType
  <2>2. pin' = digitPins[posShift + 1] /\ posShift + 1 \in 1..NumDigits
    BY <1>8, <2>1, PinAtType DEF Enable
  <2>3. digitPins[k] \in Digits /\ k \in Nat
    BY NumDigitsType DEF Digits
  <2>4. shown'[digitPins[k]] = IF digitPins[k] = pin' THEN lit ELSE shown[digitPins[k]]
    BY <1>8, <2>3 DEF Enable
  <2>5. digitPins[k] = pin' <=> k = posShift + 1
    BY <2>2, PinsAssumption
  <2>6. shown[digitPins[k]] = IF k <= posShift THEN DigitOn(meant, k) ELSE {}
    BY <1>8 DEF Enable, Done
  <2> QED
    BY <2>1, <2>3, <2>4, <2>5, <2>6
<1>9. CASE Disable
  <2>1. Done' = Done /\ UNCHANGED <<meant, disturbed, shown>> /\ pc \in InPass /\ pc' = "char"
    BY <1>9 DEF Disable, Done, historyVars
  <2> QED
    BY <2>1 DEF Fits, DigitOn
<1>10. CASE UNCHANGED vars
  BY <1>10, <1>1 DEF vars, passVars, historyVars
<1> QED
  BY <1>2, <1>3, <1>4, <1>5, <1>6, <1>7, <1>8, <1>9, <1>10 DEF Next, PassStep

-----------------------------------------------------------------------------
(* The theorems. *)

LEMMA InitInv == Init => Inv
<1> SUFFICES ASSUME Init PROVE Inv
  OBVIOUS
<1>1. pc = "digits" /\ wpc = "idle" /\ ~disturbed
  BY DEF Init
<1>2. PassInv /\ PinsInv /\ ShiftInv /\ ShownInv
  BY <1>1 DEF PassInv, PinsInv, ShiftInv, ShownInv, InPass
<1>3. BufferInv
  BY <1>1, InitialIsCut, FreshFacts DEF Init, BufferInv
<1>4. CopiedInv
  BY <1>1, InitialIsCut DEF Init, CopiedInv, InPass
<1> QED
  BY <1>2, <1>3, <1>4, InitTypes DEF Inv

(* The invariant holds, whatever show() does during a pass, and wherever   *)
(* the process dies.                                                       *)
THEOREM InvHolds == Spec => []Inv
<1>1. Inv /\ [Next]_vars => Inv'
  BY NumberTypeKept, RunTypeKept, FlagTypeKept, PassInvKept, PinsInvKept, BufferInvKept,
     CopiedInvKept, ShiftInvKept, ShownInvKept DEF Inv
<1> QED
  BY <1>1, InitInv, PTL DEF Spec

(* Type correctness, with an index that never runs ahead of the text. *)
THEOREM TypeCorrect == Spec => []TypeOK
<1>1. Inv => TypeOK
  BY TypeOKParts DEF Inv
<1> QED
  BY <1>1, InvHolds, PTL

(* Never two digits at once, never a ghost: for any number of digits and   *)
(* any texts, with the race on number and stray pins (display.cpp:35-62).  *)
THEOREM NeverGhosts == Spec => []NoGhosting
<1>1. Inv => NoGhosting
  <2> SUFFICES ASSUME Inv, pc \notin {"down", "digits"}
               PROVE  /\ low \subseteq {pin}
                      /\ low # {} => pc = "disable" /\ lit = Shape(temperature, i)
    BY DEF NoGhosting
  <2> QED
    BY DEF Inv, PinsInv
<1> QED
  BY <1>1, InvHolds, PTL

(* A pass that no show() overlaps with throws nothing, and drives no pin   *)
(* but the digits', for any text that fits (display.cpp:34-57).            *)
THEOREM QuietPassesAreSafe == Spec => []QuietPassIsSafe
<1>1. Inv => QuietPassIsSafe
  <2> SUFFICES ASSUME Inv, ~disturbed, pc \in InPass
               PROVE  ~NoGlyph /\ (Fits(meant) /\ pc = "disable" => pin \in Digits)
    BY DEF QuietPassIsSafe, InPass
  <2>1. ASSUME NoGlyph PROVE FALSE
    <3>1. i \in 1..Len(meant) /\ temperature[i] = meant[i]
      BY <2>1 DEF NoGlyph, Inv, PassInv, CopiedInv, RunType
    <3>2. meant[i] \in Glyphs \cup {"."}
      BY <3>1 DEF Inv, CopiedInv, IsCut
    <3> QED
      BY <2>1, <3>1, <3>2 DEF NoGlyph
  <2>2. ASSUME Fits(meant), pc = "disable" PROVE pin \in Digits
    BY <2>2, QuietDigit, PinAtType DEF Inv, PinsInv, RunType
  <2> QED
    BY <2>1, <2>2
<1> QED
  BY <1>1, InvHolds, PTL

(* A pass that no show() overlaps with shows the number it began with,     *)
(* every digit on its own pin, on a display of any size that it fits       *)
(* (display.cpp:30-64).                                                    *)
THEOREM FramesAreNumbers == Spec => []FrameIsNumber
<1>1. Inv => FrameIsNumber
  <2> SUFFICES ASSUME Inv, AtPassEnd, ~disturbed, Fits(meant), NEW k \in 1..NumDigits
               PROVE  shown[digitPins[k]] = DigitOn(meant, k)
    BY DEF FrameIsNumber, Shows
  <2> DEFINE m == Len(meant)
  <2>1. pc = "char" /\ i = 0
    BY DEF AtPassEnd
  <2>2. m \in 3..(BufferSize - 1)
    BY DEF Inv, CopiedInv, IsCut
  <2>3. posShift = IF 0 >= m - 1 THEN m - 0 ELSE m - 0 - 1
    BY <2>1 DEF Inv, ShiftInv, ShiftAt, InPass
  <2>4. shown[digitPins[k]] = IF k <= posShift THEN DigitOn(meant, k) ELSE {}
    BY <2>1 DEF Inv, ShownInv, Done, InPass
  <2>5. DigitOn(meant, k) =
          CASE k = 1 -> numberConstructor[meant[m]]
            [] k = 2 -> numberConstructor[meant[m - 2]] \cup {"DP"}
            [] OTHER -> IF k < m THEN numberConstructor[meant[m - k]] ELSE {}
    BY DEF DigitOn
  <2>6. k \in Nat
    BY NumDigitsType
  <2> HIDE DEF m
  <2>7. posShift = m - 1 /\ m \in Int /\ m >= 3
    BY <2>2, <2>3
  <2>8. CASE k <= m - 1
    BY <2>4, <2>7, <2>8
  <2>9. CASE ~(k <= m - 1)
    <3>1. k # 1 /\ k # 2 /\ ~(k < m)
      BY <2>6, <2>7, <2>9
    <3>2. DigitOn(meant, k) = {}
      BY <2>5, <3>1
    <3> QED
      BY <2>4, <2>7, <2>9, <3>2
  <2> QED
    BY <2>8, <2>9
<1> QED
  BY <1>1, InvHolds, PTL
=============================================================================
