--------------------------- MODULE MCCookieStore ---------------------------
(* Instances of CookieStore for TLC. *)
EXTENDS CookieStore

CONSTANTS w1, w2, t1, t2
=============================================================================
