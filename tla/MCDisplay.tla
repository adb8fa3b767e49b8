----------------------------- MODULE MCDisplay -----------------------------
(* Instances of Display for TLC. *)
EXTENDS Display

CONSTANTS d1, d2, d3

MCDigitPins == <<d1, d2, d3>>
(* Longer and shorter than the text before, with and without a sign; the    *)
(* first has more digits than there are pins, as all have before the cut.   *)
MCTexts == {<<"-", "1", "2", ".", "3", "0", "0">>, <<"-", "4", ".", "5", "0", "0">>}
=============================================================================
