------------------------------- MODULE Display -------------------------------
(***************************************************************************)
(* Display (display.{h,cpp}): the thread of run(), which multiplexes a     *)
(* seven-segment display one digit at a time, and show(), which the        *)
(* controller's loop calls and which takes numberMutex; run() does not.    *)
(*                                                                         *)
(* The std::string number is its inline buffer and its length.  Assigning  *)
(* a temporary to it copies the bytes one after the other, then sets the   *)
(* length and the NUL behind the text; copying it reads the length first,  *)
(* then the bytes.  Each of these is a step, since nothing excludes the    *)
(* other thread in between.                                                *)
(***************************************************************************)
EXTENDS Integers, Sequences, FiniteSets

CONSTANTS
  Texts,       \* what std::to_string returns for the temperatures shown
  digitPins,   \* the pins of the digits, from config.json
  NoPin,       \* a pin number that is neither a digit's nor a segment's
  MaxShows,    \* bound: calls of show()
  MaxCrashes   \* bound: deaths of the process that this thread did not cause

Segments == {"A", "B", "C", "D", "E", "F", "G", "DP"}

numberConstructor ==
  [c \in {"0", "1", "2", "3", "4", "5", "6", "7", "8", "9", "-"} |->
     CASE c = "1" -> {"B", "C"}
       [] c = "2" -> {"A", "B", "G", "E", "D"}
       [] c = "3" -> {"A", "B", "G", "C", "D"}
       [] c = "4" -> {"F", "B", "G", "C"}
       [] c = "5" -> {"A", "F", "G", "C", "D"}
       [] c = "6" -> {"F", "E", "D", "C", "G", "A"}
       [] c = "7" -> {"A", "B", "C"}
       [] c = "8" -> {"A", "B", "C", "D", "E", "F", "G"}
       [] c = "9" -> {"A", "B", "C", "F", "G", "D"}
       [] c = "0" -> {"A", "B", "C", "E", "F", "D"}
       [] c = "-" -> {"G"}]

Glyphs == DOMAIN numberConstructor
Chars == Glyphs \cup {".", "NUL"}
BufferSize == 16   \* of a short std::string, with its NUL
NumDigits == Len(digitPins)
Digits == {digitPins[k] : k \in 1..NumDigits}
DotOf(t) == CHOOSE d \in 1..Len(t) : t[d] = "."

(* "%f" of a number: a sign or not, digits, one dot, decimals. *)
IsNumeral(t) ==
  /\ Len(t) < BufferSize
  /\ \E d \in 2..(Len(t) - 1) :
       \A k \in 1..Len(t) : IF k = d THEN t[k] = "." ELSE t[k] \in Glyphs

ASSUME TextsAssumption == Texts \subseteq Seq(Chars) /\ \A t \in Texts : IsNumeral(t)
ASSUME PinsAssumption ==
  /\ digitPins \in Seq(Digits)
  /\ \A j, k \in 1..NumDigits : digitPins[j] = digitPins[k] => j = k
  /\ Digits \cap Segments = {} /\ NoPin \notin Digits \cup Segments
ASSUME BoundsAssumption == MaxShows \in Nat /\ MaxCrashes \in Nat

VARIABLES
  chars, length,      \* number
  showing, written,   \* of show(): the temporary, and how much of it is copied
  wpc,                \* show(): "idle", "bytes" or "cut"
  pc,                 \* run(): where the display's thread is
  size, temperature,  \* of run(): the length it read, the bytes it has copied
  i, posShift, decimalPoint, pin,
  lit, low,           \* segment pins that are HIGH, digit pins that are LOW
  shows, crashes,     \* how much of the bounds is used up
  current,            \* history: the text of the last show() that is complete
  meant, disturbed,   \* history: that text when this pass began; did a show()
                      \* overlap with the copying?
  shown               \* history: what each digit has shown in this pass

numberVars == <<chars, length, showing, written, wpc, shows, current>>
passVars == <<size, temperature, i, posShift, decimalPoint, pin>>
pinVars == <<lit, low>>
historyVars == <<meant, disturbed, shown>>
vars == <<numberVars, pc, passVars, pinVars, crashes, historyVars>>

Nothing == [p \in Digits |-> {}]
InitialText == <<"0", "0", ".", "0">>

-----------------------------------------------------------------------------
(* show(temp) *)

(* number.find('.') + 2, the length of the text that is kept. *)
CutAt_Dot(t) == DotOf(t)
CutAt_Never(t) == Len(t)
CutAt(t) == DotOf(t) + 1

(* number = std::to_string(temp) *)
BeginShow(t) ==
  /\ pc # "down" /\ wpc = "idle"
  /\ shows < MaxShows
  /\ shows' = shows + 1
  /\ wpc' = "bytes" /\ showing' = t /\ written' = 0
  /\ disturbed' = (disturbed \/ pc = "copy")
  /\ UNCHANGED <<chars, length, current, pc, passVars, pinVars, crashes, meant, shown>>

CopyByteIn ==
  /\ wpc = "bytes" /\ written < Len(showing)
  /\ chars' = [chars EXCEPT ![written + 1] = showing[written + 1]]
  /\ written' = written + 1
  /\ UNCHANGED <<length, showing, wpc, shows, current, pc, passVars, pinVars, crashes,
                 historyVars>>

SetLength(n) == length' = n /\ chars' = [chars EXCEPT ![n + 1] = "NUL"]

EndAssign ==
  /\ wpc = "bytes" /\ written = Len(showing)
  /\ SetLength(Len(showing))
  /\ wpc' = "cut"
  /\ UNCHANGED <<showing, written, shows, current, pc, passVars, pinVars, crashes,
                 historyVars>>

(* number = number.substr(0, number.find('.') + 2): the bytes stay as they *)
(* are.                                                                    *)
Cut ==
  /\ wpc = "cut"
  /\ SetLength(CutAt(showing))
  /\ current' = SubSeq(showing, 1, DotOf(showing) + 1)
  /\ wpc' = "idle"
  /\ UNCHANGED <<showing, written, shows, pc, passVars, pinVars, crashes, historyVars>>

-----------------------------------------------------------------------------
(* run() *)

(* pinsInit(): all digits off, then all segments. *)
InitDigits ==
  /\ pc = "digits" /\ pc' = "segments"
  /\ low' = {}
  /\ UNCHANGED <<numberVars, passVars, lit, crashes, historyVars>>

InitSegments ==
  /\ pc = "segments" /\ pc' = "length"
  /\ lit' = {}
  /\ UNCHANGED <<numberVars, passVars, low, crashes, historyVars>>

FirstShift_Kept == posShift
FirstShift == 0

(* std::string temperature = number *)
ReadLength ==
  /\ pc = "length" /\ pc' = "copy"
  /\ decimalPoint' = FALSE /\ posShift' = FirstShift
  /\ size' = length /\ temperature' = <<>>
  /\ meant' = current /\ disturbed' = (wpc # "idle") /\ shown' = Nothing
  /\ UNCHANGED <<numberVars, i, pin, pinVars, crashes>>

CopyByteOut ==
  /\ pc = "copy"
  /\ temperature' = Append(temperature, chars[Len(temperature) + 1])
  /\ IF Len(temperature) + 1 = size THEN pc' = "char" /\ i' = size
                                    ELSE UNCHANGED <<pc, i>>
  /\ UNCHANGED <<numberVars, size, posShift, decimalPoint, pin, pinVars, crashes,
                 historyVars>>

(* clearSegments(), and the dot, which waits for the digit before it. *)
ClearSegments_Skipped == lit
ClearSegments == {}

Dot ==
  /\ pc = "char" /\ i > 0 /\ temperature[i] = "."
  /\ lit' = ClearSegments
  /\ decimalPoint' = TRUE
  /\ i' = i - 1
  /\ UNCHANGED <<numberVars, pc, size, temperature, posShift, pin, low, crashes,
                 historyVars>>

Clear ==
  /\ pc = "char" /\ i > 0 /\ temperature[i] \in Glyphs
  /\ lit' = ClearSegments
  /\ pc' = "light"
  /\ UNCHANGED <<numberVars, passVars, low, crashes, historyVars>>

DecimalPointAfter_Kept == decimalPoint
DecimalPointAfter == FALSE

Light ==
  /\ pc = "light" /\ pc' = "enable"
  /\ lit' = lit \cup numberConstructor[temperature[i]]
                \cup (IF decimalPoint THEN {"DP"} ELSE {})
  /\ decimalPoint' = DecimalPointAfter
  /\ UNCHANGED <<numberVars, size, temperature, i, posShift, pin, low, crashes,
                 historyVars>>

(* digitPins[posShift]: behind the vector's end, whatever number the heap  *)
(* holds there, which is the same for the two accesses.                    *)
PinAt(shift) == IF shift < NumDigits THEN {digitPins[shift + 1]}
               ELSE Digits \cup Segments \cup {NoPin}

Enable ==
  /\ pc = "enable" /\ pc' = "disable"
  /\ \E p \in PinAt(posShift) :
       /\ pin' = p
       /\ low' = low \cup ({p} \cap Digits)
       /\ lit' = lit \ {p}
  /\ shown' = [p \in Digits |-> IF p = pin' THEN lit ELSE shown[p]]
  /\ UNCHANGED <<numberVars, size, temperature, i, posShift, decimalPoint, crashes,
                 meant, disturbed>>

LowAfter_Stuck == low
LowAfter == low \ {pin}

Disable ==
  /\ pc = "disable" /\ pc' = "char"
  /\ low' = LowAfter
  /\ lit' = lit \cup ({pin} \cap Segments)
  /\ posShift' = posShift + 1
  /\ i' = i - 1
  /\ UNCHANGED <<numberVars, size, temperature, decimalPoint, pin, crashes, historyVars>>

AtPassEnd == pc = "char" /\ i = 0

EndPass ==
  /\ AtPassEnd
  /\ pc' = "length"
  /\ UNCHANGED <<numberVars, passVars, pinVars, crashes, historyVars>>

(* The process dies with its threads; the pins stay as they are. *)
Die ==
  /\ pc' = "down" /\ wpc' = "idle"
  /\ UNCHANGED <<chars, length, showing, written, shows, current, passVars, pinVars,
                 historyVars>>

(* numberConstructor.at(digit) throws out of the thread's function, after  *)
(* clearSegments().                                                        *)
NoGlyph == pc = "char" /\ i > 0 /\ temperature[i] \notin Glyphs \cup {"."}
Abort ==
  /\ NoGlyph
  /\ pc' = "down" /\ wpc' = "idle"
  /\ lit' = ClearSegments
  /\ UNCHANGED <<chars, length, showing, written, shows, current, passVars, low, crashes,
                 historyVars>>

Crash ==
  /\ pc # "down"
  /\ crashes < MaxCrashes
  /\ crashes' = crashes + 1
  /\ Die

Fresh(s) == [k \in 1..BufferSize |-> IF k <= Len(s) THEN s[k] ELSE "NUL"]

Restart ==
  /\ pc = "down" /\ pc' = "digits"
  /\ chars' = Fresh(InitialText) /\ length' = Len(InitialText)
  /\ current' = InitialText
  /\ UNCHANGED <<showing, written, wpc, shows, passVars, pinVars, crashes, historyVars>>

-----------------------------------------------------------------------------
Init ==
  /\ chars = Fresh(InitialText) /\ length = Len(InitialText)
  /\ showing = <<>> /\ written = 0 /\ wpc = "idle"
  /\ pc = "digits"
  /\ size = 0 /\ temperature = <<>> /\ i = 0 /\ posShift = 0
  /\ decimalPoint = FALSE /\ pin = NoPin
  /\ lit \in {{}, Segments} /\ low \in {{}, Digits}
  /\ shows = 0 /\ crashes = 0
  /\ current = InitialText /\ meant = InitialText
  /\ disturbed = FALSE /\ shown = Nothing

ShowStep == CopyByteIn \/ EndAssign \/ Cut

PassStep == \/ ReadLength \/ CopyByteOut \/ Dot \/ Clear \/ Light \/ Enable \/ Disable
            \/ EndPass \/ Abort

Next ==
  \/ \E t \in Texts : BeginShow(t)
  \/ ShowStep
  \/ InitDigits \/ InitSegments \/ PassStep
  \/ Crash \/ Restart

Spec == Init /\ [][Next]_vars

(* Both threads are scheduled, and systemd restarts the process. *)
Fairness ==
  /\ WF_vars(ShowStep)
  /\ WF_vars(InitDigits \/ InitSegments \/ PassStep)
  /\ WF_vars(Restart)

FairSpec == Spec /\ Fairness

-----------------------------------------------------------------------------
TypeOK ==
  /\ chars \in [1..BufferSize -> Chars] /\ length \in 1..(BufferSize - 1)
  /\ showing \in Texts \cup {<<>>} /\ written \in 0..Len(showing)
  /\ wpc \in {"idle", "bytes", "cut"}
  /\ pc \in {"down", "digits", "segments", "length", "copy", "char", "light", "enable",
             "disable"}
  /\ size \in 0..(BufferSize - 1) /\ temperature \in Seq(Chars) /\ Len(temperature) <= size
  /\ i \in 0..(BufferSize - 1) /\ posShift \in 0..Len(temperature)
  /\ decimalPoint \in BOOLEAN /\ pin \in Digits \cup Segments \cup {NoPin}
  /\ lit \subseteq Segments /\ low \subseteq Digits
  /\ shows \in 0..MaxShows /\ crashes \in 0..MaxCrashes
  /\ current \in Seq(Chars) /\ meant \in Seq(Chars) /\ disturbed \in BOOLEAN
  /\ shown \in [Digits -> SUBSET Segments]

(* What a character of the text looks like: its glyph, and the decimal     *)
(* point if a dot follows it.                                              *)
HasPoint(s, k) == k < Len(s) /\ s[k + 1] = "."
Shape(s, k) == numberConstructor[s[k]] \cup (IF HasPoint(s, k) THEN {"DP"} ELSE {})

(* From the end of pinsInit() on, whatever show() does to the text in the  *)
(* meantime and wherever a process died: no two digits are on at once, and *)
(* a digit that is on shows one character of the text, with its decimal    *)
(* point and with nothing left over from another digit                     *)
(* (display.cpp:35-62).                                                    *)
NoGhosting ==
  pc \notin {"down", "digits"} =>
    /\ low \subseteq {pin}
    /\ low # {} => pc = "disable" /\ lit = Shape(temperature, i)

(* The harm of copying number without numberMutex (display.cpp:34) and     *)
(* that of an unchecked index (display.cpp:57) is confined: unless a       *)
(* show() overlaps with the copying, a pass over a text that fits on the   *)
(* display throws nothing and drives no pin that is not a digit's.         *)
Fits(s) == Len(s) <= NumDigits + 1
QuietPassIsSafe ==
  ~disturbed /\ pc \in {"char", "light", "enable", "disable"} =>
    /\ ~NoGlyph
    /\ Fits(meant) /\ pc = "disable" => pin \in Digits

(* Where the digits of a text belong: the last one on the first pin, and   *)
(* to its left, from the second pin on, those before the dot.              *)
DigitOn(s, k) ==
  CASE k = 1 -> numberConstructor[s[Len(s)]]
    [] k = 2 -> numberConstructor[s[Len(s) - 2]] \cup {"DP"}
    [] OTHER -> IF k < Len(s) THEN numberConstructor[s[Len(s) - k]] ELSE {}
Shows(s) == \A k \in 1..NumDigits : shown[digitPins[k]] = DigitOn(s, k)

(* A pass whose copying no show() overlapped shows the number that the     *)
(* last show() was told, every digit on its own pin (display.cpp:30-64).   *)
FrameIsNumber ==
  AtPassEnd /\ ~disturbed /\ Fits(meant) => Shows(meant)

(* However a show() was overlapped with, and after any crash: once the     *)
(* number stays the same, the display shows it again and again.            *)
ShowsTheNumber ==
  <>[](wpc = "idle")
    => []<>(AtPassEnd /\ (Fits(current) => Shows(current)))
=============================================================================
