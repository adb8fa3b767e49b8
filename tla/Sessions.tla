------------------------------ MODULE Sessions ------------------------------
(***************************************************************************)
(* What the login sessions of the web interface promise, whatever vector,  *)
(* mutex and cleaning thread keep them and whoever sets the clock: a       *)
(* session begins with a token that no session has; exactly the tokens of  *)
(* sessions whose age on the system clock is within Lifetime are accepted; *)
(* and a session is forgotten only when its age is beyond.  If the clock   *)
(* is set back, a session that is over but not forgotten is good again.    *)
(* A restart ends all sessions.                                            *)
(***************************************************************************)
EXTENDS Integers

CONSTANTS Tokens, Workers, None, Lifetime

VARIABLES
  alive,    \* is the process running?
  clock,    \* the system clock
  since,    \* when the session of each token began, or None
  verdict   \* the last verdict each worker got

vars == <<alive, clock, since, verdict>>

Known == {tok \in Tokens : since[tok] # None}
Open == {tok \in Known : clock - since[tok] <= Lifetime}
NoSessions == [tok \in Tokens |-> None]
NoVerdicts == [w \in Workers |-> None]

Init ==
  /\ alive = TRUE
  /\ clock \in Int
  /\ since = NoSessions
  /\ verdict = NoVerdicts

Login(tok) ==
  /\ alive
  /\ tok \notin Known
  /\ since' = [since EXCEPT ![tok] = clock]
  /\ UNCHANGED <<alive, clock, verdict>>

Verify(w, tok) ==
  /\ alive
  /\ verdict' = [verdict EXCEPT ![w] = [token |-> tok, ok |-> tok \in Open]]
  /\ UNCHANGED <<alive, clock, since>>

Forget(tok) ==
  /\ alive
  /\ tok \in Known \ Open
  /\ since' = [since EXCEPT ![tok] = None]
  /\ UNCHANGED <<alive, clock, verdict>>

(* Time passes, or somebody sets the clock. *)
SetClock ==
  /\ clock' \in Int
  /\ UNCHANGED <<alive, since, verdict>>

Stop ==
  /\ alive
  /\ alive' = FALSE
  /\ UNCHANGED <<clock, since, verdict>>

Restart ==
  /\ ~alive
  /\ alive' = TRUE
  /\ since' = NoSessions
  /\ verdict' = NoVerdicts
  /\ UNCHANGED clock

Next ==
  \/ \E tok \in Tokens : Login(tok) \/ Forget(tok) \/ (\E w \in Workers : Verify(w, tok))
  \/ SetClock \/ Stop \/ Restart

Spec == Init /\ [][Next]_vars
=============================================================================
