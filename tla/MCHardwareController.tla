------------------------ MODULE MCHardwareController ------------------------
(* Instances of HardwareController for TLC. *)
EXTENDS HardwareController, TLC

CONSTANTS w1, w2

MCTemps == {1, 2, 3, 4}
(* Requests for one bound make of these the band (2,3), with a temperature  *)
(* below, two inside and one above, and the empty band (3,2).               *)
MCChoices == {<<2, 2>>, <<3, 3>>}
(* For the long behaviours: below, inside and above (2,2). *)
FewTemps == {1, 2, 3}
(* The texts of two bands differ in length when their digits do. *)
MCTextLength == [b \in Bands |-> b[1] + b[2]]
WorkerSymmetry == Permutations(Workers)
=============================================================================
