---------------------------- MODULE CookieStore ----------------------------
(***************************************************************************)
(* Cookie (cookie.{h,cpp}): the vector of login cookies, with the three    *)
(* parties that use it: the web server's workers in Site::auth and in the  *)
(* Authentificator, and the cleaning thread of Site::run.                  *)
(*                                                                         *)
(* What is done under cookiesMutex is one step, except that generateCookie *)
(* draws a token before it looks at the clock and stores the cookie, and   *)
(* that the cleaner's scan looks at the clock once per cookie.             *)
(* verifyCookie reads the clock at most once, because it reads it only for *)
(* the cookie that has the token.  The clock is high_resolution_clock,     *)
(* which in libstdc++ is the system clock: it can be set back and forth.   *)
(***************************************************************************)
EXTENDS Integers, Sequences, SequencesExt

CONSTANTS
  Tokens,            \* authentication tokens
  Workers,           \* the web server's threads
  Cleaner,           \* the cleaning thread
  None,
  Lifetime,          \* Cookie::lifetime, in ticks of the clock
  MaxUptime,         \* bound: ticks of the clock
  MaxCorrections     \* bound: corrections of the clock, by one tick each

ASSUME PartiesAssumption == Cleaner \notin Workers /\ None \notin Workers \cup {Cleaner}
ASSUME TimesAssumption ==
  /\ Lifetime \in Nat /\ None \notin Int
  /\ MaxUptime \in Nat /\ MaxCorrections \in Nat

VARIABLES
  alive,         \* is the process running?
  clock,         \* what high_resolution_clock::now() returns
  cookies,       \* Cookie::cookies
  cookiesMutex,  \* the worker or the cleaner inside it, or None
  pc,            \* "push" in generateCookie(), "lock" before lock(), or "idle"
  drawn,         \* the token each worker has drawn in generateToken()
  held,          \* the cookie each worker's weak_ptr refers to
  end,           \* of cookieCleaner()
  verdict,       \* the last verdict of verifyCookie for each worker
  uptime, back, forth,  \* history: ticks and corrections so far
  born,          \* history: the uptime at which each token was generated last
  scanStart      \* history: the clock when the scan began

clockVars == <<clock, uptime, back, forth>>
workerVars == <<pc, drawn, held, verdict>>
cleanerVars == <<cookiesMutex, end, scanStart>>
vars == <<alive, clockVars, cookies, workerVars, cleanerVars, born>>

Cookie == [token: Tokens, created: Int]
Verdict == [token: Tokens, ok: BOOLEAN, age: Nat \cup {None}]
NoVerdicts == [w \in Workers |-> None]

ASSUME NoneAssumption == None \notin Verdict

MutexFree_Ignored == TRUE
MutexFree == cookiesMutex = None

(* isExpired() *)
Expired_Early(c) == clock - c.created >= Lifetime
Expired(c) == clock - c.created > Lifetime

IsCopy_Never(tok) == FALSE
IsCopy(tok) == \E c \in ToSet(cookies) : c.token = tok

-----------------------------------------------------------------------------
Init ==
  /\ alive = TRUE
  /\ clock = 0
  /\ cookies = <<>>
  /\ cookiesMutex = None
  /\ pc = [w \in Workers |-> "idle"]
  /\ drawn = [w \in Workers |-> None]
  /\ held = [w \in Workers |-> None]
  /\ end = 0
  /\ verdict = NoVerdicts
  /\ uptime = 0 /\ back = 0 /\ forth = 0
  /\ born = [tok \in Tokens |-> None]
  /\ scanStart = 0

(* Site::auth with the right password: a token that no stored cookie has.  *)
BeginGenerateCookie(w, tok) ==
  /\ alive /\ MutexFree
  /\ pc[w] = "idle"
  /\ ~IsCopy(tok)
  /\ cookiesMutex' = w
  /\ drawn' = [drawn EXCEPT ![w] = tok]
  /\ pc' = [pc EXCEPT ![w] = "push"]
  /\ UNCHANGED <<alive, clockVars, cookies, held, verdict, end, scanStart, born>>

(* The time of creation, and the cookie at the end of the vector. *)
EndGenerateCookie(w) ==
  /\ alive
  /\ pc[w] = "push"
  /\ LET c == [token |-> drawn[w], created |-> clock]
     IN  /\ cookies' = Append(cookies, c)
         /\ held' = [held EXCEPT ![w] = c]
  /\ born' = [born EXCEPT ![drawn[w]] = uptime]
  /\ drawn' = [drawn EXCEPT ![w] = None]
  /\ cookiesMutex' = None
  /\ pc' = [pc EXCEPT ![w] = "lock"]
  /\ UNCHANGED <<alive, clockVars, verdict, end, scanStart>>

(* generateCookie().lock()->token(), after cookiesMutex was released. *)
AnswerLogin(w) ==
  /\ alive
  /\ pc[w] = "lock"
  /\ held[w] \in ToSet(cookies)
  /\ pc' = [pc EXCEPT ![w] = "idle"]
  /\ held' = [held EXCEPT ![w] = None]
  /\ UNCHANGED <<alive, clockVars, cookies, drawn, verdict, cleanerVars, born>>

(* The cookie is gone, and -> dereferences a null pointer.  Any other      *)
(* death of the process has the same effect on the sessions.               *)
Segfault(w) ==
  /\ alive
  /\ pc[w] = "lock"
  /\ held[w] \notin ToSet(cookies)
  /\ alive' = FALSE
  /\ UNCHANGED <<clockVars, cookies, workerVars, cleanerVars, born>>

(* Authentificator::before_handle. *)
VerifyCookie_Ageless(tok) == \E c \in ToSet(cookies) : c.token = tok
VerifyCookie(tok) == \E c \in ToSet(cookies) : c.token = tok /\ ~Expired(c)

Age(tok) == IF born[tok] = None THEN None ELSE uptime - born[tok]

BeforeHandle(w, tok) ==
  /\ alive /\ MutexFree
  /\ pc[w] = "idle"
  /\ verdict' = [verdict EXCEPT ![w] = [token |-> tok, ok |-> VerifyCookie(tok),
                                        age |-> Age(tok)]]
  /\ UNCHANGED <<alive, clockVars, cookies, pc, drawn, held, cleanerVars, born>>

(* cookieCleaner() *)
BeginClean ==
  /\ alive /\ MutexFree
  /\ cookiesMutex' = Cleaner
  /\ end' = 0
  /\ scanStart' = clock
  /\ UNCHANGED <<alive, clockVars, cookies, workerVars, born>>

AtExpired == end < Len(cookies) /\ Expired(cookies[end + 1])

NextEnd_Twice == end + 2
NextEnd == end + 1

Scan ==
  /\ alive
  /\ cookiesMutex = Cleaner
  /\ AtExpired
  /\ end' = NextEnd
  /\ UNCHANGED <<alive, clockVars, cookies, workerVars, cookiesMutex, scanStart, born>>

Remaining_Late == SubSeq(cookies, IF end = 0 THEN 1 ELSE end, Len(cookies))
Remaining == SubSeq(cookies, end + 1, Len(cookies))

Erase ==
  /\ alive
  /\ cookiesMutex = Cleaner
  /\ ~AtExpired
  /\ cookies' = Remaining
  /\ cookiesMutex' = None
  /\ UNCHANGED <<alive, clockVars, workerVars, end, scanStart, born>>

(* Time passes, and somebody corrects the clock. *)
Tick ==
  /\ uptime < MaxUptime
  /\ uptime' = uptime + 1
  /\ clock' = clock + 1
  /\ UNCHANGED <<alive, cookies, workerVars, cleanerVars, back, forth, born>>

StepBack ==
  /\ back + forth < MaxCorrections
  /\ back' = back + 1
  /\ clock' = clock - 1
  /\ UNCHANGED <<alive, cookies, workerVars, cleanerVars, uptime, forth, born>>

StepForth ==
  /\ back + forth < MaxCorrections
  /\ forth' = forth + 1
  /\ clock' = clock + 1
  /\ UNCHANGED <<alive, cookies, workerVars, cleanerVars, uptime, back, born>>

(* systemd starts a new process, which has no cookies. *)
Restart ==
  /\ ~alive
  /\ alive' = TRUE
  /\ cookies' = <<>>
  /\ cookiesMutex' = None
  /\ pc' = [w \in Workers |-> "idle"]
  /\ drawn' = [w \in Workers |-> None]
  /\ held' = [w \in Workers |-> None]
  /\ verdict' = NoVerdicts
  /\ born' = [tok \in Tokens |-> None]
  /\ UNCHANGED <<clockVars, end, scanStart>>

Clean == BeginClean \/ Scan \/ Erase

Next ==
  \/ \E w \in Workers :
       \/ \E tok \in Tokens : BeginGenerateCookie(w, tok) \/ BeforeHandle(w, tok)
       \/ EndGenerateCookie(w) \/ AnswerLogin(w) \/ Segfault(w)
  \/ Clean \/ Tick \/ StepBack \/ StepForth \/ Restart

Spec == Init /\ [][Next]_vars

(* The cleaner's naps end, a worker in generateCookie() goes on, and       *)
(* systemd restarts the service.  Waiting for cookiesMutex needs no more   *)
(* than weak fairness, because between two passes of the cleaner there are *)
(* at most as many logins as there are tokens.                             *)
Fairness ==
  /\ WF_vars(Clean)
  /\ \A w \in Workers : WF_vars(EndGenerateCookie(w))
  /\ WF_vars(Restart)
FairSpec == Spec /\ Fairness

-----------------------------------------------------------------------------
TypeOK ==
  /\ alive \in BOOLEAN
  /\ clock \in Int
  /\ cookies \in Seq(Cookie)
  /\ cookiesMutex \in Workers \cup {Cleaner, None}
  /\ pc \in [Workers -> {"idle", "push", "lock"}]
  /\ drawn \in [Workers -> Tokens \cup {None}]
  /\ held \in [Workers -> Cookie \cup {None}]
  /\ end \in Nat /\ (cookiesMutex = Cleaner => end <= Len(cookies))
  /\ verdict \in [Workers -> Verdict \cup {None}]
  /\ uptime \in 0..MaxUptime /\ back \in Nat /\ forth \in Nat /\ back + forth <= MaxCorrections
  /\ born \in [Tokens -> 0..uptime \cup {None}]
  /\ scanStart \in Int

(* No two logins share a token, though each draws its token some time      *)
(* before it stores it: of two logins at once, neither can draw the token  *)
(* that the other has drawn (cookie.cpp:25-51, 83-107), so that a token    *)
(* names one session, with one time at which it ends.                      *)
TokensUnique ==
  \A i, j \in 1..Len(cookies) : cookies[i].token = cookies[j].token => i = j

(* However the clock is corrected, a session is never longer than its      *)
(* lifetime by more than the clock was set back, and never shorter by more *)
(* than it was set forward: no login that should hold is lost to the       *)
(* cleaner, and none outlives its cookie (cookie.cpp:32-80).               *)
SessionsLastTheLifetime ==
  \A w \in Workers :
    verdict[w] # None =>
      IF verdict[w].ok
      THEN verdict[w].age # None /\ verdict[w].age <= Lifetime + back
      ELSE verdict[w].age # None => verdict[w].age + forth > Lifetime

(* What makes them so: the age of a cookie by the clock differs from its   *)
(* real age by the corrections made; a cookie was only erased, or passed   *)
(* by the scan that is going on, when it was old enough.                   *)
AgesInv ==
  \A i \in 1..Len(cookies) :
    LET c == cookies[i]
    IN  /\ born[c.token] # None
        /\ clock - c.created <= uptime - born[c.token] + forth
        /\ uptime - born[c.token] - back <= clock - c.created

OldEnough(tok) == uptime - born[tok] + forth > Lifetime

ErasedInv == \A tok \in Tokens : born[tok] # None => IsCopy(tok) \/ OldEnough(tok)

ScanInv == cookiesMutex = Cleaner => \A i \in 1..end : OldEnough(cookies[i].token)

(* And what makes tokens unique: a drawn token is new until it is stored,  *)
(* because no other login can be between its draw and its cookie.          *)
LockInv ==
  \A w \in Workers :
    /\ cookiesMutex = w <=> pc[w] = "push"
    /\ pc[w] = "push" => drawn[w] \in Tokens /\ ~IsCopy(drawn[w])

Inv == /\ TypeOK /\ LockInv /\ TokensUnique /\ SessionsLastTheLifetime
       /\ AgesInv /\ ErasedInv /\ ScanInv

(* A pass of the cleaner erases every cookie that was expired when it      *)
(* began (cookie.cpp:65-80): the scan of a prefix of the vector finds all  *)
(* of them, as long as nobody has set the clock back.                      *)
PassErasesExpired ==
  [][cookiesMutex = Cleaner /\ cookiesMutex' = None /\ alive /\ back = 0 =>
       \A c \in ToSet(cookies') : scanStart - c.created <= Lifetime]_vars

(* Memory does not fill up with old logins: as long as nobody sets the     *)
(* clock back, an expired cookie is erased.                                *)
ExpiredIn(tok) == \E c \in ToSet(cookies) : c.token = tok /\ Expired(c)
ExpiredAreErased ==
  \A tok \in Tokens : (ExpiredIn(tok) /\ back = 0) ~> (~ExpiredIn(tok) \/ back # 0)

(* Whoever sets the clock, the vector with its mutex and its cleaner       *)
(* implements Sessions.  A session is forgotten when the cleaner's scan    *)
(* has passed its cookie, which is erased whatever the clock says then.    *)
Passed == IF cookiesMutex = Cleaner THEN end ELSE 0
Kept(tok) == {i \in (Passed + 1)..Len(cookies) : cookies[i].token = tok}
Since == [tok \in Tokens |-> IF Kept(tok) = {} THEN None
                             ELSE cookies[CHOOSE i \in Kept(tok) : TRUE].created]
Answers == [w \in Workers |-> IF verdict[w] = None THEN None
                              ELSE [token |-> verdict[w].token, ok |-> verdict[w].ok]]
Promise == INSTANCE Sessions WITH since <- Since, verdict <- Answers
ImplementsSessions == Promise!Spec

-----------------------------------------------------------------------------
(* Statements of the documentation that the code does not keep.            *)

(* "if the hash is correct it returns a cookie with a lifetime specified   *)
(* in the config.json file" (README.md:108): the cookie is still there when *)
(* the answer to the login is made of it.                                  *)
LoginIsAnswered == \A w \in Workers : pc[w] = "lock" => held[w] \in ToSet(cookies)
=============================================================================
