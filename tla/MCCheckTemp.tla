----------------------------- MODULE MCCheckTemp -----------------------------
(* Instances of CheckTemp for TLC.  TLC's integers have 32 bits, so the     *)
(* word is 2^30 values here.                                               *)
EXTENDS CheckTemp

MCWordSize == 1073741824
(* README.md's default, one read, an odd number of reads, and a zero that   *)
(* is replaced by 4.                                                        *)
MCConfigs == {0, 1, 3, 4}
(* Frost, just below and above zero and a tenth, room and upper limit.      *)
MCReadings == {-40000, -30, 0, 99, 100, 21450, 85000}
(* -2 degrees, README.md's default. *)
MCCalibration == -20
MCGarbage == {-7, 65536}
SubzeroReadings == {-500, -30, 0, 1000}
=============================================================================
