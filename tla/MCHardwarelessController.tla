---------------------- MODULE MCHardwarelessController ----------------------
(* Instances of HardwarelessController for TLC. *)
EXTENDS HardwarelessController

CONSTANTS w1, w2

MCTemps == {1, 2, 3}
MCChoices == {<<2, 2>>, <<3, 3>>}
MCTextLength == [b \in Bands |-> b[1] + b[2]]
=============================================================================
