------------------------- MODULE CookieStore_proofs -------------------------
(***************************************************************************)
(* The safety properties of CookieStore for any number of tokens, workers, *)
(* ticks and corrections of the clock, and that it implements Sessions.    *)
(***************************************************************************)
EXTENDS CookieStore, SequenceTheorems, TLAPS

LEMMA InVector ==
  ASSUME NEW s \in Seq(Cookie), NEW c
  PROVE  c \in ToSet(s) <=> \E i \in 1..Len(s) : c = s[i]
  BY DEF ToSet

LEMMA InitInv == Init => Inv
<1> SUFFICES ASSUME Init PROVE Inv
  OBVIOUS
<1> USE DEF Init
<1>1. TypeOK
  BY PartiesAssumption, TimesAssumption DEF TypeOK, NoVerdicts
<1>2. TokensUnique /\ AgesInv
  BY DEF TokensUnique, AgesInv
<1>3. SessionsLastTheLifetime
  BY DEF SessionsLastTheLifetime, NoVerdicts
<1>4. LockInv /\ ErasedInv /\ ScanInv
  BY PartiesAssumption DEF LockInv, ErasedInv, ScanInv
<1> QED
  BY <1>1, <1>2, <1>3, <1>4 DEF Inv

(* What no step but those of the clock, the login and the cleaner disturb. *)
LEMMA Frame ==
  ASSUME Inv, UNCHANGED <<clockVars, cookies, born>>
  PROVE  TokensUnique' /\ AgesInv' /\ ErasedInv'
<1>1. TokensUnique'
  BY DEF Inv, TokensUnique
<1>2. AgesInv'
  BY DEF Inv, AgesInv, clockVars
<1>3. ErasedInv'
  BY DEF Inv, ErasedInv, IsCopy, OldEnough, clockVars
<1> QED
  BY <1>1, <1>2, <1>3

(* Nor does any step that leaves the mutex, and who waits to store what,   *)
(* alone, as long as it adds no cookie.                                    *)
LEMMA LockFrame ==
  ASSUME Inv, ToSet(cookies') \subseteq ToSet(cookies), drawn' = drawn,
         \A v \in Workers : pc'[v] = "push" <=> pc[v] = "push",
         cookiesMutex' = cookiesMutex \/ {cookiesMutex, cookiesMutex'} \cap Workers = {}
  PROVE  LockInv'
<1>1. \A tok : IsCopy(tok)' => IsCopy(tok)
  BY DEF IsCopy
<1> QED
  BY <1>1 DEF Inv, LockInv

LEMMA BeginGenerateCookiePreserves ==
  ASSUME Inv, NEW w \in Workers, NEW tok \in Tokens, BeginGenerateCookie(w, tok)
  PROVE  Inv'
<1> USE DEF BeginGenerateCookie
<1>1. TypeOK'
  BY PartiesAssumption DEF Inv, TypeOK, clockVars
<1>2. LockInv'
  <2>1. pc \in [Workers -> {"idle", "push", "lock"}] /\ drawn \in [Workers -> Tokens \cup {None}]
    BY DEF Inv, TypeOK
  <2>2. \A v \in Workers : pc[v] # "push"
    BY PartiesAssumption DEF MutexFree, Inv, LockInv
  <2>3. IsCopy(tok)' = IsCopy(tok)
    BY DEF IsCopy
  <2> QED
    BY <2>1, <2>2, <2>3 DEF LockInv
<1>3. SessionsLastTheLifetime'
  BY DEF Inv, SessionsLastTheLifetime, clockVars
<1>4. ScanInv'
  BY PartiesAssumption DEF ScanInv
<1>5. UNCHANGED <<clockVars, cookies, born>>
  OBVIOUS
<1> QED
  BY <1>1, <1>2, <1>3, <1>4, <1>5, Frame DEF Inv

(* The worker that has drawn a token is alone to store one. *)
LEMMA DrawnIsNew ==
  ASSUME Inv, NEW w \in Workers, pc[w] = "push"
  PROVE  /\ cookiesMutex = w /\ drawn[w] \in Tokens /\ ~IsCopy(drawn[w])
         /\ \A v \in Workers : pc[v] = "push" => v = w
  BY DEF Inv, LockInv

LEMMA EndGenerateCookiePreserves ==
  ASSUME Inv, NEW w \in Workers, EndGenerateCookie(w)
  PROVE  Inv'
<1> USE DEF EndGenerateCookie
<1>0. PICK tok \in Tokens : tok = drawn[w] /\ ~IsCopy(tok)
  BY DrawnIsNew
<1> DEFINE c == [token |-> tok, created |-> clock]
<1>1. c \in Cookie /\ cookies \in Seq(Cookie)
  BY DEF Inv, TypeOK, Cookie
<1>2. /\ cookies' \in Seq(Cookie)
      /\ Len(cookies') = Len(cookies) + 1
      /\ cookies'[Len(cookies) + 1] = c
      /\ \A i \in 1..Len(cookies) : cookies'[i] = cookies[i]
  BY <1>0, <1>1
<1>3. Len(cookies) \in Nat
  BY <1>1
<1>4. \A i \in 1..Len(cookies) : cookies[i] \in Cookie /\ cookies[i].token # tok
  BY <1>0, <1>1, InVector DEF IsCopy
<1>5. TypeOK'
  BY <1>0, <1>1, <1>2, PartiesAssumption DEF Inv, TypeOK, clockVars
<1>6. TokensUnique'
  BY <1>2, <1>3, <1>4 DEF Inv, TokensUnique
<1>7. SessionsLastTheLifetime'
  BY DEF Inv, SessionsLastTheLifetime, clockVars
<1>8. born \in [Tokens -> 0..uptime \cup {None}] /\ uptime \in Nat /\ back \in Nat /\ forth \in Nat
      /\ clock \in Int
  BY TimesAssumption DEF Inv, TypeOK
<1>9. AgesInv'
  BY <1>0, <1>2, <1>3, <1>4, <1>8, TimesAssumption DEF Inv, AgesInv, clockVars, Cookie
<1>10. c \in ToSet(cookies') /\ \A d \in ToSet(cookies) : d \in ToSet(cookies')
  <2>1. c \in ToSet(cookies')
    BY <1>2, <1>3 DEF ToSet
  <2>2. \A i \in 1..Len(cookies) : cookies[i] \in ToSet(cookies')
    BY <1>2, <1>3 DEF ToSet
  <2> QED
    BY <1>1, <2>1, <2>2, InVector
<1>11. ErasedInv'
  <2> SUFFICES ASSUME NEW t \in Tokens, born'[t] # None
               PROVE  IsCopy(t)' \/ OldEnough(t)'
    BY DEF ErasedInv
  <2>1. CASE t = tok
    BY <2>1, <1>10 DEF IsCopy
  <2>2. CASE t # tok
    <3>1. born'[t] = born[t] /\ (OldEnough(t)' <=> OldEnough(t))
      BY <1>0, <2>2, <1>8 DEF OldEnough, clockVars
    <3>2. IsCopy(t) => IsCopy(t)'
      BY <1>10 DEF IsCopy
    <3> QED
      BY <3>1, <3>2 DEF Inv, ErasedInv
  <2> QED
    BY <2>1, <2>2
<1>12. ScanInv'
  BY PartiesAssumption DEF ScanInv
<1>13. LockInv'
  <2>1. \A v \in Workers : pc'[v] # "push"
    BY DrawnIsNew DEF Inv, TypeOK
  <2> QED
    BY <2>1, PartiesAssumption DEF LockInv
<1> QED
  BY <1>13, <1>5, <1>6, <1>7, <1>9, <1>11, <1>12 DEF Inv

LEMMA AnswerLoginPreserves ==
  ASSUME Inv, NEW w \in Workers, AnswerLogin(w) \/ Segfault(w)
  PROVE  Inv'
<1> USE DEF AnswerLogin, Segfault
<1>1. TypeOK'
  BY DEF Inv, TypeOK, clockVars, cleanerVars, workerVars
<1>2. SessionsLastTheLifetime' /\ ScanInv'
  BY DEF Inv, SessionsLastTheLifetime, ScanInv, OldEnough, clockVars, cleanerVars, workerVars
<1>3. UNCHANGED <<clockVars, cookies, born>>
  OBVIOUS
<1>4. LockInv'
  BY LockFrame DEF Inv, TypeOK, cleanerVars, workerVars
<1> QED
  BY <1>1, <1>2, <1>3, <1>4, Frame DEF Inv

(* The verdict about a token, against the age of its last login. *)
LEMMA VerdictIsRight ==
  ASSUME Inv, NEW tok \in Tokens
  PROVE  /\ Age(tok) \in Nat \cup {None}
         /\ IF VerifyCookie(tok) THEN Age(tok) # None /\ Age(tok) <= Lifetime + back
                                 ELSE Age(tok) # None => Age(tok) + forth > Lifetime
<1>1. /\ uptime \in Nat /\ back \in Nat /\ forth \in Nat /\ clock \in Int /\ Lifetime \in Nat
      /\ born[tok] \in 0..uptime \cup {None} /\ cookies \in Seq(Cookie) /\ None \notin Nat
  BY TimesAssumption DEF Inv, TypeOK
<1>2. Age(tok) \in Nat \cup {None} /\ (Age(tok) = None <=> born[tok] = None)
  BY <1>1 DEF Age
<1>3. \A c \in ToSet(cookies) :
        c.token = tok => /\ c.created \in Int /\ born[tok] # None
                         /\ clock - c.created <= uptime - born[tok] + forth
                         /\ uptime - born[tok] - back <= clock - c.created
  <2> TAKE c \in ToSet(cookies)
  <2>1. PICK i \in 1..Len(cookies) : c = cookies[i]
    BY <1>1, InVector
  <2>2. c \in Cookie
    BY <1>1, <2>1
  <2> QED
    BY <2>1, <2>2 DEF Inv, AgesInv, Cookie
<1>4. CASE VerifyCookie(tok)
  <2>1. PICK c \in ToSet(cookies) : c.token = tok /\ ~Expired(c)
    BY <1>4 DEF VerifyCookie
  <2>2. Age(tok) = uptime - born[tok] /\ Age(tok) # None
    BY <2>1, <1>2, <1>3 DEF Age
  <2>3. Age(tok) <= Lifetime + back
    BY <2>1, <2>2, <1>1, <1>3 DEF Expired
  <2> QED
    BY <1>2, <1>4, <2>2, <2>3
<1>5. CASE ~VerifyCookie(tok)
  <2> SUFFICES ASSUME Age(tok) # None PROVE Age(tok) + forth > Lifetime
    BY <1>2, <1>5
  <2>1. Age(tok) = uptime - born[tok] /\ born[tok] # None /\ born[tok] \in 0..uptime
    BY <1>1, <1>2 DEF Age
  <2>2. CASE IsCopy(tok)
    <3>1. PICK c \in ToSet(cookies) : c.token = tok
      BY <2>2 DEF IsCopy
    <3>2. clock - c.created > Lifetime
      BY <3>1, <1>1, <1>3, <1>5 DEF VerifyCookie, Expired
    <3> QED
      BY <3>1, <3>2, <2>1, <1>1, <1>3
  <2>3. CASE OldEnough(tok)
    BY <2>1, <2>3, <1>1 DEF OldEnough
  <2> QED
    BY <2>1, <2>2, <2>3 DEF Inv, ErasedInv
<1> QED
  BY <1>4, <1>5

LEMMA BeforeHandlePreserves ==
  ASSUME Inv, NEW w \in Workers, NEW tok \in Tokens, BeforeHandle(w, tok)
  PROVE  Inv'
<1> DEFINE v == [token |-> tok, ok |-> VerifyCookie(tok), age |-> Age(tok)]
<1> USE DEF BeforeHandle
<1>1. verdict' = [verdict EXCEPT ![w] = v] /\ VerifyCookie(tok) \in BOOLEAN
  BY DEF VerifyCookie
<1>2. TypeOK'
  <2>1. v \in Verdict
    BY <1>1, VerdictIsRight DEF Verdict
  <2>2. verdict' \in [Workers -> Verdict \cup {None}]
    BY <1>1, <2>1 DEF Inv, TypeOK
  <2> QED
    BY <2>2 DEF Inv, TypeOK, clockVars, cleanerVars
<1>3. SessionsLastTheLifetime'
  <2> SUFFICES ASSUME NEW x \in Workers, verdict'[x] # None
               PROVE  IF verdict'[x].ok
                      THEN verdict'[x].age # None /\ verdict'[x].age <= Lifetime + back'
                      ELSE verdict'[x].age # None => verdict'[x].age + forth' > Lifetime
    BY DEF SessionsLastTheLifetime
  <2>1. verdict \in [Workers -> Verdict \cup {None}] /\ back' = back /\ forth' = forth
    BY DEF Inv, TypeOK, clockVars
  <2>2. CASE x = w
    <3>1. verdict'[x].ok = VerifyCookie(tok) /\ verdict'[x].age = Age(tok)
      BY <2>1, <2>2, <1>1
    <3> QED
      BY <3>1, <2>1, VerdictIsRight
  <2>3. CASE x # w
    <3>1. verdict'[x] = verdict[x]
      BY <2>1, <2>3, <1>1
    <3> QED
      BY <3>1, <2>1 DEF Inv, SessionsLastTheLifetime
  <2> QED
    BY <2>2, <2>3
<1>4. ScanInv'
  BY DEF Inv, ScanInv, OldEnough, clockVars, cleanerVars
<1>5. UNCHANGED <<clockVars, cookies, born>>
  OBVIOUS
<1>6. LockInv'
  BY LockFrame DEF cleanerVars
<1> QED
  BY <1>2, <1>3, <1>4, <1>5, <1>6, Frame DEF Inv

LEMMA BeginCleanPreserves ==
  ASSUME Inv, BeginClean
  PROVE  Inv'
<1> USE DEF BeginClean
<1>1. TypeOK'
  BY DEF Inv, TypeOK, clockVars, workerVars
<1>2. SessionsLastTheLifetime' /\ ScanInv'
  BY DEF Inv, SessionsLastTheLifetime, ScanInv, clockVars, workerVars
<1>3. UNCHANGED <<clockVars, cookies, born>>
  OBVIOUS
<1>4. LockInv'
  BY LockFrame, PartiesAssumption DEF MutexFree, workerVars
<1> QED
  BY <1>1, <1>2, <1>3, <1>4, Frame DEF Inv

LEMMA ScanPreserves ==
  ASSUME Inv, Scan
  PROVE  Inv'
<1> USE DEF Scan
<1>1. /\ uptime \in Nat /\ forth \in Nat /\ clock \in Int /\ Lifetime \in Nat
      /\ end \in Nat /\ end < Len(cookies) /\ Len(cookies) \in Nat
      /\ born \in [Tokens -> 0..uptime \cup {None}] /\ cookies \in Seq(Cookie)
  BY TimesAssumption DEF Inv, TypeOK, AtExpired
<1>2. TypeOK'
  BY <1>1 DEF Inv, TypeOK, NextEnd, clockVars, workerVars
<1>3. SessionsLastTheLifetime'
  BY DEF Inv, SessionsLastTheLifetime, clockVars, workerVars
<1>4. ScanInv'
  <2>1. OldEnough(cookies[end + 1].token)
    <3> DEFINE c == cookies[end + 1]
    <3>1. c \in Cookie /\ clock - c.created > Lifetime
      BY <1>1 DEF AtExpired, Expired
    <3>2. /\ born[c.token] \in 0..uptime
          /\ clock - c.created <= uptime - born[c.token] + forth
      BY <1>1, <3>1 DEF Inv, AgesInv, Cookie
    <3> QED
      BY <1>1, <3>1, <3>2 DEF OldEnough, Cookie
  <2>2. \A i \in 1..(end + 1) : OldEnough(cookies[i].token)
    BY <1>1, <2>1 DEF Inv, ScanInv
  <2> QED
    BY <2>2 DEF ScanInv, NextEnd, OldEnough, clockVars
<1>5. UNCHANGED <<clockVars, cookies, born>>
  OBVIOUS
<1>6. LockInv'
  BY LockFrame DEF workerVars
<1> QED
  BY <1>2, <1>3, <1>4, <1>5, <1>6, Frame DEF Inv

LEMMA ErasePreserves ==
  ASSUME Inv, Erase
  PROVE  Inv'
<1> USE DEF Erase
<1>1. end \in Nat /\ end <= Len(cookies) /\ Len(cookies) \in Nat /\ cookies \in Seq(Cookie)
  BY DEF Inv, TypeOK
<1>2. /\ cookies' \in Seq(Cookie)
      /\ Len(cookies') = Len(cookies) - end
      /\ \A i \in 1..Len(cookies') : i + end \in 1..Len(cookies) /\ cookies'[i] = cookies[i + end]
  <2> DEFINE s == SubSeq(cookies, end + 1, Len(cookies))
  <2>1. \A i \in (end + 1)..Len(cookies) : cookies[i] \in Cookie
    BY <1>1
  <2>2. s \in Seq(Cookie) /\ Len(s) = Len(cookies) - end
    BY <1>1, <2>1, SubSeqProperties
  <2>3. \A i \in 1..(Len(cookies) - end) : s[i] = cookies[i + end]
    BY <1>1
  <2>4. cookies' = s
    BY DEF Remaining
  <2> HIDE DEF s
  <2> QED
    BY <1>1, <2>2, <2>3, <2>4
<1>3. TypeOK'
  BY <1>2, PartiesAssumption DEF Inv, TypeOK, clockVars, workerVars
<1>4. TokensUnique'
  <2> SUFFICES ASSUME NEW i \in 1..Len(cookies'), NEW j \in 1..Len(cookies'),
                      cookies'[i].token = cookies'[j].token
               PROVE  i = j
    BY DEF TokensUnique
  <2>1. i + end = j + end
    BY <1>2 DEF Inv, TokensUnique
  <2> QED
    BY <2>1, <1>1
<1>5. SessionsLastTheLifetime'
  BY DEF Inv, SessionsLastTheLifetime, clockVars, workerVars
<1>6. AgesInv'
  BY <1>2 DEF Inv, AgesInv, clockVars
<1>7. ErasedInv'
  <2> SUFFICES ASSUME NEW tok \in Tokens, born[tok] # None
               PROVE  IsCopy(tok)' \/ OldEnough(tok)
    BY DEF ErasedInv, OldEnough, clockVars
  <2>1. CASE OldEnough(tok)
    BY <2>1
  <2>2. CASE IsCopy(tok)
    <3>1. PICK i \in 1..Len(cookies) : cookies[i].token = tok
      BY <2>2, <1>1, InVector DEF IsCopy
    <3>2. CASE i <= end
      BY <3>1, <3>2, <1>1 DEF Inv, ScanInv
    <3>3. CASE i > end
      <4>1. i - end \in 1..Len(cookies') /\ cookies'[i - end] = cookies[i]
        BY <3>3, <1>1, <1>2
      <4>2. cookies[i] \in ToSet(cookies')
        BY <4>1, <1>2 DEF ToSet
      <4> QED
        BY <3>1, <4>2 DEF IsCopy
    <3> QED
      BY <3>2, <3>3, <1>1
  <2> QED
    BY <2>1, <2>2 DEF Inv, ErasedInv
<1>8. ScanInv'
  BY PartiesAssumption DEF ScanInv
<1>9. LockInv'
  <2>1. ToSet(cookies') \subseteq ToSet(cookies)
    BY <1>1, <1>2, InVector
  <2> QED
    BY <2>1, LockFrame, PartiesAssumption DEF workerVars
<1> QED
  BY <1>3, <1>4, <1>5, <1>6, <1>7, <1>8, <1>9 DEF Inv

LEMMA ClockPreserves ==
  ASSUME Inv, Tick \/ StepBack \/ StepForth
  PROVE  Inv'
<1> USE DEF Tick, StepBack, StepForth
<1>1. /\ uptime \in Nat /\ back \in Nat /\ forth \in Nat /\ clock \in Int /\ Lifetime \in Nat
      /\ uptime' \in Nat /\ back' \in Nat /\ forth' \in Nat /\ clock' \in Int
  BY TimesAssumption DEF Inv, TypeOK
<1>2. uptime' >= uptime /\ back' >= back /\ forth' >= forth
  BY <1>1
<1>3. \/ clock' = clock + 1 /\ uptime' = uptime + 1 /\ back' = back /\ forth' = forth
      \/ clock' = clock - 1 /\ uptime' = uptime /\ back' = back + 1 /\ forth' = forth
      \/ clock' = clock + 1 /\ uptime' = uptime /\ back' = back /\ forth' = forth + 1
  OBVIOUS
<1>4. uptime' \in 0..MaxUptime /\ back' + forth' <= MaxCorrections
  <2>1. uptime \in 0..MaxUptime /\ back + forth <= MaxCorrections
        /\ MaxUptime \in Nat /\ MaxCorrections \in Nat
    BY TimesAssumption DEF Inv, TypeOK
  <2>2. CASE Tick
    BY <1>1, <2>1, <2>2
  <2>3. CASE StepBack
    BY <1>1, <2>1, <2>3
  <2>4. CASE StepForth
    BY <1>1, <2>1, <2>4
  <2> QED
    BY <2>2, <2>3, <2>4
<1>5. UNCHANGED <<alive, cookies, workerVars, cleanerVars, born>>
  OBVIOUS
<1> HIDE DEF Tick, StepBack, StepForth
<1>6. born \in [Tokens -> 0..uptime \cup {None}] /\ cookies \in Seq(Cookie)
  BY DEF Inv, TypeOK
<1>7. TypeOK'
  <2>1. born' \in [Tokens -> 0..uptime' \cup {None}]
    BY <1>1, <1>2, <1>5, <1>6
  <2> QED
    BY <1>1, <1>4, <1>5, <2>1 DEF Inv, TypeOK, workerVars, cleanerVars
<1>8. TokensUnique'
  BY <1>5 DEF Inv, TokensUnique
<1>9. SessionsLastTheLifetime'
  <2> SUFFICES ASSUME NEW w \in Workers, verdict[w] # None
               PROVE  IF verdict[w].ok
                      THEN verdict[w].age # None /\ verdict[w].age <= Lifetime + back'
                      ELSE verdict[w].age # None => verdict[w].age + forth' > Lifetime
    BY <1>5 DEF SessionsLastTheLifetime, workerVars
  <2>1. verdict[w].age \in Nat \cup {None}
    BY DEF Inv, TypeOK, Verdict
  <2>2. IF verdict[w].ok
        THEN verdict[w].age # None /\ verdict[w].age <= Lifetime + back
        ELSE verdict[w].age # None => verdict[w].age + forth > Lifetime
    BY DEF Inv, SessionsLastTheLifetime
  <2> QED
    BY <2>1, <2>2, <1>1, <1>2
<1>10. AgesInv'
  <2>1. ASSUME NEW x \in Int, NEW b \in Int,
               clock - x <= uptime - b + forth, uptime - b - back <= clock - x
        PROVE  clock' - x <= uptime' - b + forth' /\ uptime' - b - back' <= clock' - x
    <3>1. CASE clock' = clock + 1 /\ uptime' = uptime + 1 /\ back' = back /\ forth' = forth
      BY <2>1, <3>1, <1>1
    <3>2. CASE clock' = clock - 1 /\ uptime' = uptime /\ back' = back + 1 /\ forth' = forth
      BY <2>1, <3>2, <1>1
    <3>3. CASE clock' = clock + 1 /\ uptime' = uptime /\ back' = back /\ forth' = forth + 1
      BY <2>1, <3>3, <1>1
    <3> QED
      BY <3>1, <3>2, <3>3, <1>3
  <2>2. ASSUME NEW i \in 1..Len(cookies)
        PROVE  /\ born[cookies[i].token] # None
               /\ clock' - cookies[i].created <= uptime' - born[cookies[i].token] + forth'
               /\ uptime' - born[cookies[i].token] - back' <= clock' - cookies[i].created
    <3>1. cookies[i] \in Cookie
      BY <1>6
    <3>2. /\ born[cookies[i].token] # None
          /\ clock - cookies[i].created <= uptime - born[cookies[i].token] + forth
          /\ uptime - born[cookies[i].token] - back <= clock - cookies[i].created
      BY DEF Inv, AgesInv
    <3>3. cookies[i].created \in Int /\ born[cookies[i].token] \in Int
      BY <3>1, <3>2, <1>1, <1>6 DEF Cookie
    <3> QED
      BY <2>1, <3>2, <3>3
  <2> QED
    BY <1>5, <2>2 DEF AgesInv
<1>11. \A tok \in Tokens : born[tok] # None /\ OldEnough(tok) => OldEnough(tok)'
  <2> SUFFICES ASSUME NEW tok \in Tokens, born[tok] # None, uptime - born[tok] + forth > Lifetime
               PROVE  uptime' - born[tok] + forth' > Lifetime
    BY <1>5 DEF OldEnough
  <2>1. born[tok] \in Int
    BY <1>1, <1>6
  <2> QED
    BY <2>1, <1>1, <1>2
<1>12. ErasedInv'
  BY <1>5, <1>11 DEF Inv, ErasedInv, IsCopy
<1>13. ScanInv'
  <2>1. \A i \in 1..Len(cookies) : cookies[i].token \in Tokens /\ born[cookies[i].token] # None
    <3> TAKE i \in 1..Len(cookies)
    <3>1. cookies[i] \in Cookie
      BY <1>6
    <3> QED
      BY <3>1 DEF Inv, AgesInv, Cookie
  <2>2. cookiesMutex = Cleaner => end <= Len(cookies) /\ end \in Nat /\ Len(cookies) \in Nat
    BY <1>6 DEF Inv, TypeOK
  <2> QED
    BY <1>5, <1>11, <2>1, <2>2 DEF Inv, ScanInv, cleanerVars
<1>14. LockInv'
  BY <1>5, LockFrame DEF workerVars, cleanerVars
<1> QED
  BY <1>7, <1>8, <1>9, <1>10, <1>12, <1>13, <1>14 DEF Inv

LEMMA RestartPreserves ==
  ASSUME Inv, Restart
  PROVE  Inv'
<1> USE DEF Restart
<1>1. TypeOK'
  BY PartiesAssumption DEF Inv, TypeOK, NoVerdicts, clockVars
<1>2. TokensUnique' /\ AgesInv'
  BY DEF TokensUnique, AgesInv
<1>3. SessionsLastTheLifetime'
  BY DEF SessionsLastTheLifetime, NoVerdicts
<1>4. LockInv' /\ ErasedInv' /\ ScanInv'
  BY PartiesAssumption DEF LockInv, ErasedInv, ScanInv
<1> QED
  BY <1>1, <1>2, <1>3, <1>4 DEF Inv

LEMMA StutterInv ==
  ASSUME Inv, UNCHANGED vars
  PROVE  Inv'
<1> USE DEF vars
<1>1. TypeOK' /\ SessionsLastTheLifetime' /\ ScanInv'
  BY DEF Inv, TypeOK, SessionsLastTheLifetime, ScanInv, OldEnough, clockVars, workerVars,
     cleanerVars
<1>2. UNCHANGED <<clockVars, cookies, born>>
  OBVIOUS
<1>3. LockInv'
  BY LockFrame DEF workerVars, cleanerVars
<1> QED
  BY <1>1, <1>2, <1>3, Frame DEF Inv

LEMMA NextInv == Inv /\ [Next]_vars => Inv'
<1> SUFFICES ASSUME Inv, [Next]_vars PROVE Inv'
  OBVIOUS
<1>1. ASSUME NEW w \in Workers,
             EndGenerateCookie(w) \/ \E tok \in Tokens : BeginGenerateCookie(w, tok)
      PROVE  Inv'
  BY <1>1, BeginGenerateCookiePreserves, EndGenerateCookiePreserves
<1>2. ASSUME NEW w \in Workers, NEW tok \in Tokens, BeforeHandle(w, tok)
      PROVE  Inv'
  BY <1>2, BeforeHandlePreserves
<1>3. ASSUME NEW w \in Workers, AnswerLogin(w) \/ Segfault(w)
      PROVE  Inv'
  BY <1>3, AnswerLoginPreserves
<1>4. CASE Clean
  BY <1>4, BeginCleanPreserves, ScanPreserves, ErasePreserves DEF Clean
<1>5. CASE Tick \/ StepBack \/ StepForth
  BY <1>5, ClockPreserves
<1>6. CASE Restart
  BY <1>6, RestartPreserves
<1>7. CASE UNCHANGED vars
  BY <1>7, StutterInv
<1> QED
  BY <1>1, <1>2, <1>3, <1>4, <1>5, <1>6, <1>7 DEF Next

-----------------------------------------------------------------------------
(* The cookies, their ages and the scan are what the properties need in    *)
(* every state of every behaviour.                                         *)
THEOREM InvHolds == Spec => []Inv
  BY InitInv, NextInv, PTL DEF Spec

(* The state of the cookie store keeps its type.                           *)
THEOREM TypeCorrect == Spec => []TypeOK
<1>1. Inv => TypeOK
  BY DEF Inv
<1> QED
  BY <1>1, InvHolds, PTL

(* No two cookies ever have the same token, however many workers draw one. *)
THEOREM UniqueTokens == Spec => []TokensUnique
<1>1. Inv => TokensUnique
  BY DEF Inv
<1> QED
  BY <1>1, InvHolds, PTL

(* Whatever the clock does, a session lasts for its lifetime, give or take *)
(* the corrections of the clock.                                           *)
THEOREM SessionsLast == Spec => []SessionsLastTheLifetime
<1>1. Inv => SessionsLastTheLifetime
  BY DEF Inv
<1> QED
  BY <1>1, InvHolds, PTL

-----------------------------------------------------------------------------
(* The refinement of Sessions.  KeptAt is what the mapping of the cookies  *)
(* to the times since which sessions are open comes down to: no token      *)
(* occurs twice, so that the CHOOSE in Since has no choice.                *)

KeptAt(tok, x) ==
  \E i \in (Passed + 1)..Len(cookies) : cookies[i].token = tok /\ cookies[i].created = x

Mapped ==
  /\ \A tok \in Tokens : /\ Since[tok] \in Int \cup {None}
                          /\ \A x \in Int : Since[tok] = x <=> KeptAt(tok, x)
  /\ Passed \in Nat /\ Passed <= Len(cookies)

LEMMA InvMapped == Inv => Mapped
<1> SUFFICES ASSUME Inv PROVE Mapped
  OBVIOUS
<1>1. /\ cookies \in Seq(Cookie) /\ Len(cookies) \in Nat
      /\ Passed \in Nat /\ Passed <= Len(cookies)
  BY DEF Inv, TypeOK, Passed
<1>2. \A i \in (Passed + 1)..Len(cookies) : cookies[i].created \in Int
  <2> TAKE i \in (Passed + 1)..Len(cookies)
  <2>1. cookies[i] \in Cookie
    BY <1>1
  <2> QED
    BY <2>1 DEF Cookie
<1>3. ASSUME NEW tok \in Tokens
      PROVE  Since[tok] \in Int \cup {None} /\ \A x \in Int : Since[tok] = x <=> KeptAt(tok, x)
  <2>1. CASE Kept(tok) = {}
    <3>1. Since[tok] = None /\ None \notin Int
      BY <2>1, TimesAssumption DEF Since
    <3>2. \A x \in Int : ~KeptAt(tok, x)
      BY <2>1 DEF Kept, KeptAt
    <3> QED
      BY <3>1, <3>2
  <2>2. CASE Kept(tok) # {}
    <3> DEFINE k == CHOOSE i \in Kept(tok) : TRUE
    <3>1. Since[tok] = cookies[k].created /\ k \in Kept(tok)
      BY <2>2 DEF Since
    <3> HIDE DEF k
    <3>2. k \in (Passed + 1)..Len(cookies) /\ cookies[k].token = tok
      BY <3>1 DEF Kept
    <3>3. \A i \in (Passed + 1)..Len(cookies) : cookies[i].token = tok => i = k
      BY <3>2, <1>1 DEF Inv, TokensUnique
    <3> QED
      BY <3>1, <3>2, <3>3, <1>2 DEF KeptAt
  <2> QED
    BY <2>1, <2>2
<1> QED
  BY <1>1, <1>3 DEF Mapped

LEMMA MappedNext == Inv' => Mapped'
  BY InvMapped, PTL

(* A step that keeps the same cookies at the same times is none of Since.  *)
LEMMA SameSince ==
  ASSUME Inv, Inv', NEW tok \in Tokens, \A x \in Int : KeptAt(tok, x)' <=> KeptAt(tok, x)
  PROVE  Since'[tok] = Since[tok]
<1>1. /\ Since[tok] \in Int \cup {None} /\ Since'[tok] \in Int \cup {None}
      /\ \A x \in Int : Since[tok] = x <=> KeptAt(tok, x)
      /\ \A x \in Int : Since'[tok] = x <=> KeptAt(tok, x)'
  BY InvMapped, MappedNext DEF Mapped
<1>2. \A x \in Int : Since[tok] = x <=> Since'[tok] = x
  BY <1>1
<1> QED
  BY <1>1, <1>2

LEMMA SinceIsFunction == Since = [tok \in Tokens |-> Since[tok]]
  BY DEF Since

LEMMA SinceNextIsFunction == Since' = [tok \in Tokens |-> Since'[tok]]
  BY DEF Since

LEMMA AnswersKept == UNCHANGED verdict => Answers' = Answers
  BY DEF Answers

LEMMA EndGenerateCookieRefines ==
  ASSUME Inv, Inv', NEW w \in Workers, EndGenerateCookie(w)
  PROVE  \E tok \in Tokens : Promise!Login(tok)
<1> USE DEF EndGenerateCookie
<1>0. PICK tok \in Tokens : tok = drawn[w] /\ ~IsCopy(tok) /\ cookiesMutex \in Workers
  BY DrawnIsNew
<1> DEFINE c == [token |-> tok, created |-> clock]
<1>1. c \in Cookie /\ cookies \in Seq(Cookie) /\ clock \in Int /\ Len(cookies) \in Nat
  BY DEF Inv, TypeOK, Cookie
<1>2. /\ Len(cookies') = Len(cookies) + 1
      /\ cookies'[Len(cookies) + 1] = c
      /\ \A i \in 1..Len(cookies) : cookies'[i] = cookies[i]
  BY <1>0, <1>1
<1>3. Passed = 0 /\ Passed' = 0 /\ clock' = clock
  BY <1>0, PartiesAssumption DEF Passed, clockVars
<1>4. \A i \in 1..Len(cookies) : cookies[i].token # tok
  BY <1>0, <1>1, InVector DEF IsCopy
<1>5. Since[tok] = None
  <2>1. Since[tok] \in Int \cup {None} /\ \A x \in Int : Since[tok] = x <=> KeptAt(tok, x)
    BY InvMapped DEF Mapped
  <2>2. \A x \in Int : ~KeptAt(tok, x)
    BY <1>1, <1>3, <1>4 DEF KeptAt
  <2> QED
    BY <2>1, <2>2
<1>6. Since'[tok] = clock
  <2>1. KeptAt(tok, clock)'
    <3>1. Len(cookies) + 1 \in (Passed' + 1)..Len(cookies')
      BY <1>1, <1>2, <1>3
    <3>2. c.token = tok /\ c.created = clock
      OBVIOUS
    <3> QED
      BY <1>2, <1>3, <3>1, <3>2 DEF KeptAt
  <2> QED
    BY <1>1, <1>3, <2>1, MappedNext DEF Mapped
<1>7. ASSUME NEW t \in Tokens, t # tok
      PROVE  Since'[t] = Since[t]
  <2>1. \A x \in Int : KeptAt(t, x)' <=> KeptAt(t, x)
    <3>1. \A i \in 1..(Len(cookies) + 1) : i \in 1..Len(cookies) \/ i = Len(cookies) + 1
      BY <1>1
    <3>2. c.token # t
      BY <1>7
    <3> QED
      BY <1>1, <1>2, <1>3, <3>1, <3>2 DEF KeptAt
  <2> QED
    BY <2>1, <1>7, SameSince
<1>8. Since' = [Since EXCEPT ![tok] = clock]
  BY <1>6, <1>7, SinceIsFunction, SinceNextIsFunction
<1> QED
  BY <1>5, <1>8, AnswersKept DEF Promise!Login, Promise!Known, clockVars

(* The verdict of a request is that of the promise.                        *)
LEMMA BeforeHandleRefines ==
  ASSUME Inv, Inv', NEW w \in Workers, NEW tok \in Tokens, BeforeHandle(w, tok)
  PROVE  Promise!Verify(w, tok)
<1> USE DEF BeforeHandle
<1>1. cookies \in Seq(Cookie) /\ clock \in Int /\ Len(cookies) \in Nat /\ Lifetime \in Nat
  BY TimesAssumption DEF Inv, TypeOK
<1>2. Passed = 0 /\ UNCHANGED <<alive, clock, cookies, cookiesMutex, end>>
  BY PartiesAssumption DEF Passed, MutexFree, cleanerVars, clockVars
<1>3. \A i \in 1..Len(cookies) : cookies[i].created \in Int
  <2> TAKE i \in 1..Len(cookies)
  <2>1. cookies[i] \in Cookie
    BY <1>1
  <2> QED
    BY <2>1 DEF Cookie
<1>4. VerifyCookie(tok) <=> tok \in Promise!Open
  <2>1. VerifyCookie(tok) <=>
          \E i \in 1..Len(cookies) : cookies[i].token = tok /\ clock - cookies[i].created <= Lifetime
    BY <1>1, <1>3, InVector DEF VerifyCookie, Expired
  <2>2. VerifyCookie(tok) <=> \E x \in Int : KeptAt(tok, x) /\ clock - x <= Lifetime
    BY <1>2, <1>3, <2>1 DEF KeptAt
  <2>3. VerifyCookie(tok) <=> Since[tok] \in Int /\ clock - Since[tok] <= Lifetime
    BY <2>2, InvMapped DEF Mapped
  <2>4. Since[tok] \in Int <=> Since[tok] # None
    BY InvMapped, TimesAssumption DEF Mapped
  <2> QED
    BY <2>3, <2>4 DEF Promise!Open, Promise!Known
<1>5. Since' = Since
  BY <1>2 DEF Since, Kept, Passed
<1>6. Answers' = [Answers EXCEPT ![w] = [token |-> tok, ok |-> VerifyCookie(tok)]]
  <2> DEFINE v == [token |-> tok, ok |-> VerifyCookie(tok), age |-> Age(tok)]
  <2>1. verdict \in [Workers -> Verdict \cup {None}] /\ verdict' = [verdict EXCEPT ![w] = v]
    BY DEF Inv, TypeOK
  <2>2. v # None
    <3>1. VerifyCookie(tok) \in BOOLEAN
      BY DEF VerifyCookie
    <3>2. v \in Verdict
      BY <3>1, VerdictIsRight DEF Verdict
    <3> QED
      BY <3>2, NoneAssumption
  <2>3. /\ v.token = tok /\ v.ok = VerifyCookie(tok)
        /\ verdict'[w] = v
        /\ \A y \in Workers : y # w => verdict'[y] = verdict[y]
    BY <2>1
  <2> HIDE DEF v
  <2>4. \A y \in Workers : Answers'[y] = IF y = w THEN [token |-> tok, ok |-> VerifyCookie(tok)]
                                                  ELSE Answers[y]
    BY <2>2, <2>3 DEF Answers
  <2> QED
    BY <2>4 DEF Answers
<1>7. (tok \in Promise!Open) \in BOOLEAN /\ VerifyCookie(tok) \in BOOLEAN
  BY DEF VerifyCookie
<1> QED
  BY <1>2, <1>4, <1>5, <1>6, <1>7 DEF Promise!Verify

LEMMA ScanRefines ==
  ASSUME Inv, Inv', Scan
  PROVE  Promise!Forget(cookies[end + 1].token) /\ cookies[end + 1].token \in Tokens
<1> DEFINE c == cookies[end + 1]
<1> USE DEF Scan
<1>1. /\ cookies \in Seq(Cookie) /\ clock \in Int /\ Len(cookies) \in Nat /\ Lifetime \in Nat
      /\ end \in Nat /\ end + 1 \in 1..Len(cookies)
  BY TimesAssumption DEF Inv, TypeOK, AtExpired
<1>2. Passed = end /\ Passed' = end + 1 /\ UNCHANGED <<cookies, clock, alive>>
  BY DEF Passed, NextEnd, clockVars
<1>3. c \in Cookie /\ c.token \in Tokens /\ c.created \in Int /\ clock - c.created > Lifetime
  <2>1. c \in Cookie
    BY <1>1
  <2> QED
    BY <2>1 DEF AtExpired, Expired, Cookie
<1>4. PICK tok \in Tokens : tok = c.token
  BY <1>3
<1>5. Since[tok] = c.created
  <2>1. KeptAt(tok, c.created)
    BY <1>1, <1>2, <1>4 DEF KeptAt
  <2> QED
    BY <1>3, <1>4, <2>1, InvMapped DEF Mapped
<1>6. Since'[tok] = None
  <2>1. \A i \in (end + 2)..Len(cookies) : cookies[i].token # tok
    BY <1>1, <1>4 DEF Inv, TokensUnique
  <2>2. \A x \in Int : ~KeptAt(tok, x)'
    BY <1>1, <1>2, <2>1 DEF KeptAt
  <2>3. /\ Since'[tok] \in Int \cup {None}
        /\ \A x \in Int : Since'[tok] = x <=> KeptAt(tok, x)'
    BY <1>2, <1>3, <1>4, MappedNext DEF Mapped
  <2> QED
    BY <2>2, <2>3
<1>7. ASSUME NEW t \in Tokens, t # tok
      PROVE  Since'[t] = Since[t]
  <2>1. \A i \in (end + 1)..Len(cookies) : i = end + 1 \/ i \in (end + 2)..Len(cookies)
    BY <1>1
  <2>2. \A i \in (end + 2)..Len(cookies) : i \in (end + 1)..Len(cookies)
    BY <1>1
  <2>3. \A x \in Int : KeptAt(t, x)' <=> KeptAt(t, x)
    BY <1>1, <1>2, <1>4, <1>7, <2>1, <2>2 DEF KeptAt
  <2> QED
    BY <2>3, <1>7, SameSince
<1>8. Since' = [Since EXCEPT ![tok] = None]
  BY <1>3, <1>4, <1>6, <1>7, SinceIsFunction, SinceNextIsFunction
<1>9. tok \in Promise!Known \ Promise!Open
  <2>1. c.created # None /\ ~(clock - c.created <= Lifetime)
    BY <1>1, <1>3, <1>4, TimesAssumption
  <2> QED
    BY <1>3, <1>4, <1>5, <2>1 DEF Promise!Known, Promise!Open
<1>10. Answers' = Answers
  BY AnswersKept DEF workerVars
<1> QED
  BY <1>2, <1>4, <1>8, <1>9, <1>10 DEF Promise!Forget

(* What the scan has passed is forgotten already when it is erased.        *)
LEMMA EraseRefines ==
  ASSUME Inv, Inv', Erase
  PROVE  UNCHANGED Promise!vars
<1> USE DEF Erase
<1>1. end \in Nat /\ end <= Len(cookies) /\ Len(cookies) \in Nat /\ cookies \in Seq(Cookie)
  BY DEF Inv, TypeOK
<1>2. /\ Len(cookies') = Len(cookies) - end
      /\ \A i \in 1..Len(cookies') : i + end \in 1..Len(cookies) /\ cookies'[i] = cookies[i + end]
  BY <1>1, SubSeqProperties DEF Remaining
<1>3. Passed = end /\ Passed' = 0
  BY PartiesAssumption DEF Passed
<1>4. ASSUME NEW t \in Tokens
      PROVE  Since'[t] = Since[t]
  <2>1. \A i \in (end + 1)..Len(cookies) :
          i - end \in 1..Len(cookies') /\ cookies'[i - end] = cookies[i]
    BY <1>1, <1>2
  <2>2. \A i \in 1..Len(cookies') : i + end \in (end + 1)..Len(cookies)
    BY <1>1, <1>2
  <2>3. ASSUME NEW x \in Int, KeptAt(t, x)
        PROVE  KeptAt(t, x)'
    <3>1. PICK i \in (end + 1)..Len(cookies) : cookies[i].token = t /\ cookies[i].created = x
      BY <2>3, <1>3 DEF KeptAt
    <3>2. i - end \in 1..Len(cookies') /\ cookies'[i - end] = cookies[i]
      BY <2>1
    <3> QED
      BY <3>1, <3>2, <1>3 DEF KeptAt
  <2>4. ASSUME NEW x \in Int, KeptAt(t, x)'
        PROVE  KeptAt(t, x)
    <3>1. PICK i \in 1..Len(cookies') : cookies'[i].token = t /\ cookies'[i].created = x
      BY <2>4, <1>3 DEF KeptAt
    <3>2. i + end \in (end + 1)..Len(cookies) /\ cookies'[i] = cookies[i + end]
      BY <1>2, <2>2
    <3> QED
      BY <3>1, <3>2, <1>3 DEF KeptAt
  <2> QED
    BY <2>3, <2>4, SameSince
<1>5. Since' = Since
  BY <1>4, SinceIsFunction, SinceNextIsFunction
<1> QED
  BY <1>5, AnswersKept DEF Promise!vars, clockVars, workerVars

(* Beginning a pass, answering a login and doing nothing keep the cookies. *)
LEMMA StutterRefines ==
  ASSUME UNCHANGED <<alive, clock, cookies, verdict>>, Passed' = Passed
  PROVE  UNCHANGED Promise!vars
<1>1. Since' = Since
  BY DEF Since, Kept
<1> QED
  BY <1>1, AnswersKept DEF Promise!vars

LEMMA ClockRefines ==
  ASSUME Inv, Inv', Tick \/ StepBack \/ StepForth
  PROVE  Promise!SetClock
<1>1. UNCHANGED <<alive, cookies, verdict, cookiesMutex, end>> /\ clock' \in Int
  BY DEF Tick, StepBack, StepForth, workerVars, cleanerVars, Inv, TypeOK
<1>2. Since' = Since
  BY <1>1 DEF Since, Kept, Passed
<1> QED
  BY <1>1, <1>2, AnswersKept DEF Promise!SetClock

LEMMA RestartRefines ==
  ASSUME Restart
  PROVE  Promise!Restart
<1> USE DEF Restart
<1>1. \A tok : Kept(tok)' = {}
  <2>1. Passed' = 0
    BY PartiesAssumption DEF Passed
  <2> QED
    BY <2>1 DEF Kept
<1>2. Since' = Promise!NoSessions
  BY <1>1 DEF Since, Kept, Promise!NoSessions
<1>3. Answers' = Promise!NoVerdicts
  BY DEF Answers, NoVerdicts, Promise!NoVerdicts
<1> QED
  BY <1>2, <1>3 DEF Promise!Restart, clockVars

LEMMA InitRefines == Init => Promise!Init
<1> SUFFICES ASSUME Init PROVE Promise!Init
  OBVIOUS
<1> USE DEF Init
<1>1. \A tok \in Tokens : Kept(tok) = {}
  BY PartiesAssumption DEF Kept, Passed
<1>2. Since = Promise!NoSessions
  BY <1>1 DEF Since, Promise!NoSessions
<1>3. Answers = Promise!NoVerdicts
  BY DEF Answers, NoVerdicts, Promise!NoVerdicts
<1> QED
  BY <1>2, <1>3 DEF Promise!Init

LEMMA NextRefines == Inv /\ Inv' /\ [Next]_vars => [Promise!Next]_Promise!vars
<1> SUFFICES ASSUME Inv, Inv', [Next]_vars
             PROVE  Promise!Next \/ UNCHANGED Promise!vars
  OBVIOUS
<1>1. ASSUME NEW w \in Workers,
             EndGenerateCookie(w) \/ \E tok \in Tokens : BeforeHandle(w, tok)
      PROVE  Promise!Next
  BY <1>1, EndGenerateCookieRefines, BeforeHandleRefines DEF Promise!Next
<1>10. ASSUME NEW w \in Workers, NEW tok \in Tokens, BeginGenerateCookie(w, tok)
       PROVE  UNCHANGED Promise!vars
  <2>1. Passed = 0 /\ Passed' = 0
    BY <1>10, PartiesAssumption DEF BeginGenerateCookie, MutexFree, Passed
  <2> QED
    BY <1>10, <2>1, StutterRefines DEF BeginGenerateCookie, clockVars
<1>2. ASSUME NEW w \in Workers, AnswerLogin(w)
      PROVE  UNCHANGED Promise!vars
  BY <1>2, StutterRefines DEF AnswerLogin, clockVars, cleanerVars, Passed
<1>3. ASSUME NEW w \in Workers, Segfault(w)
      PROVE  Promise!Next
  <2>1. Since' = Since /\ Answers' = Answers
    BY <1>3, AnswersKept DEF Segfault, Since, Kept, Passed, workerVars, cleanerVars
  <2> QED
    BY <1>3, <2>1 DEF Segfault, clockVars, Promise!Stop, Promise!Next
<1>4. CASE BeginClean
  <2>1. MutexFree /\ Passed = 0 /\ Passed' = 0
    BY <1>4, PartiesAssumption DEF BeginClean, MutexFree, Passed
  <2> QED
    BY <1>4, <2>1, StutterRefines DEF BeginClean, clockVars, workerVars
<1>5. CASE Scan
  BY <1>5, ScanRefines DEF Promise!Next
<1>6. CASE Erase
  BY <1>6, EraseRefines
<1>7. CASE Tick \/ StepBack \/ StepForth
  BY <1>7, ClockRefines DEF Promise!Next
<1>8. CASE Restart
  BY <1>8, RestartRefines DEF Promise!Next
<1>9. CASE UNCHANGED vars
  BY <1>9, StutterRefines DEF vars, clockVars, workerVars, cleanerVars, Passed
<1> QED
  BY <1>1, <1>2, <1>3, <1>4, <1>5, <1>6, <1>7, <1>8, <1>9, <1>10 DEF Next, Clean

(* The vector, its mutex and its cleaner keep the promise of Sessions,     *)
(* whoever sets the clock and whenever the cleaner runs.                   *)
THEOREM Refinement == Spec => ImplementsSessions
  BY InvHolds, InitRefines, NextRefines, PTL DEF Spec, ImplementsSessions, Promise!Spec

-----------------------------------------------------------------------------
(* The cleaner relies on the order of the vector: as long as nobody sets   *)
(* the clock back, the oldest cookies come first.                          *)
OrderInv ==
  back = 0 =>
    /\ \A i, j \in 1..Len(cookies) : i <= j => cookies[i].created <= cookies[j].created
    /\ \A i \in 1..Len(cookies) : cookies[i].created <= clock
    /\ cookiesMutex = Cleaner => scanStart <= clock

LEMMA CookieTypes ==
  ASSUME TypeOK
  PROVE  /\ cookies \in Seq(Cookie) /\ Len(cookies) \in Nat
         /\ \A i \in 1..Len(cookies) : cookies[i] \in Cookie /\ cookies[i].created \in Int
         /\ clock \in Int /\ scanStart \in Int /\ back \in Nat
         /\ cookiesMutex = Cleaner => end \in 0..Len(cookies)
<1>1. cookies \in Seq(Cookie) /\ \A i \in 1..Len(cookies) : cookies[i] \in Cookie
  BY DEF TypeOK
<1> QED
  BY <1>1, TimesAssumption DEF TypeOK, Cookie

LEMMA GenerateKeepsOrder ==
  ASSUME Inv, OrderInv, NEW w \in Workers, EndGenerateCookie(w)
  PROVE  OrderInv'
<1> USE DEF Inv
<1> DEFINE c == [token |-> drawn[w], created |-> clock]
           n == Len(cookies)
<1>1. c \in Cookie /\ c.created = clock
  BY DrawnIsNew DEF EndGenerateCookie, TypeOK, Cookie
<1>2. /\ Len(cookies') = n + 1 /\ cookies'[n + 1] = c
      /\ \A i \in 1..n : cookies'[i] = cookies[i]
  BY <1>1, CookieTypes DEF EndGenerateCookie
<1>3. UNCHANGED <<back, clock, scanStart>> /\ cookiesMutex' # Cleaner
  BY PartiesAssumption DEF EndGenerateCookie, clockVars
<1>4. n \in Nat /\ \A i \in 1..(n + 1) : i \in 1..n \/ i = n + 1
  BY CookieTypes
<1>5. ASSUME back = 0
      PROVE  /\ \A i \in 1..(n + 1) : cookies'[i].created <= clock
             /\ \A i, j \in 1..(n + 1) : i <= j => cookies'[i].created <= cookies'[j].created
  <2> HIDE DEF c
  <2>1. \A i \in 1..(n + 1) : cookies'[i].created <= clock
    BY <1>1, <1>2, <1>4, <1>5, CookieTypes DEF OrderInv
  <2>2. ASSUME NEW i \in 1..(n + 1), NEW j \in 1..(n + 1), i <= j
        PROVE  cookies'[i].created <= cookies'[j].created
    <3>1. CASE j = n + 1
      BY <1>1, <1>2, <2>1, <3>1
    <3>2. CASE j \in 1..n
      <4>1. i \in 1..n
        BY <1>4, <2>2, <3>2
      <4> QED
        BY <1>2, <1>5, <2>2, <3>2, <4>1 DEF OrderInv
    <3> QED
      BY <1>4, <3>1, <3>2
  <2> QED
    BY <2>1, <2>2
<1> QED
  BY <1>2, <1>3, <1>5 DEF OrderInv

(* What is left of the vector, and how old it is. *)
LEMMA EraseKeepsOrder ==
  ASSUME TypeOK, OrderInv, Erase
  PROVE  /\ OrderInv'
         /\ back = 0 => \A c \in ToSet(cookies') : scanStart - c.created <= Lifetime
<1> DEFINE n == Len(cookies)
           m == end
<1>1. n \in Nat /\ m \in 0..n /\ cookies' = SubSeq(cookies, m + 1, n)
  BY CookieTypes DEF Erase, Remaining
<1>2. /\ Len(cookies') = n - m
      /\ \A i \in 1..(n - m) : cookies'[i] = cookies[m + i]
  BY <1>1, CookieTypes
<1>3. UNCHANGED <<back, clock, scanStart>> /\ cookiesMutex' # Cleaner
  BY PartiesAssumption DEF Erase, clockVars
<1>4. m < n => clock - cookies[m + 1].created <= Lifetime
  <2>1. m < n => ~Expired(cookies[m + 1])
    BY DEF Erase, AtExpired
  <2>2. m < n => m + 1 \in 1..n
    BY <1>1
  <2> QED
    BY <2>1, <2>2, CookieTypes, TimesAssumption DEF Expired
<1>5. cookiesMutex = Cleaner
  BY DEF Erase
<1> HIDE DEF n, m
<1>6. \A i \in 1..(n - m) : m + i \in 1..n /\ m < n
  BY <1>1
<1>7. \A i, j \in 1..(n - m) : i <= j => m + i <= m + j
  BY <1>1
<1>8. OrderInv'
  <2>1. ASSUME back = 0, NEW i \in 1..(n - m), NEW j \in 1..(n - m), i <= j
        PROVE  cookies'[i].created <= cookies'[j].created
    BY <1>2, <1>6, <1>7, <2>1 DEF OrderInv, n
  <2>2. ASSUME back = 0, NEW i \in 1..(n - m)
        PROVE  cookies'[i].created <= clock
    BY <1>2, <1>6, <2>2 DEF OrderInv, n
  <2> QED
    BY <1>2, <1>3, <2>1, <2>2 DEF OrderInv
<1>9. ASSUME back = 0, NEW c \in ToSet(cookies')
      PROVE  scanStart - c.created <= Lifetime
  <2>1. PICK i \in 1..(n - m) : c = cookies[m + i]
    BY <1>2, <1>9 DEF ToSet
  <2>2. m + 1 \in 1..n /\ m + i \in 1..n /\ m + 1 <= m + i
    BY <1>1, <1>6
  <2>3. cookies[m + 1].created <= c.created
    BY <1>9, <2>1, <2>2 DEF OrderInv, n
  <2>4. clock - cookies[m + 1].created <= Lifetime
    BY <1>4, <1>6
  <2>5. scanStart <= clock
    BY <1>5, <1>9 DEF OrderInv
  <2>6. c.created \in Int /\ cookies[m + 1].created \in Int
    BY <2>1, <2>2, CookieTypes DEF n
  <2> QED
    BY <2>3, <2>4, <2>5, <2>6, CookieTypes, TimesAssumption
<1> QED
  BY <1>8, <1>9

LEMMA OrderStep ==
  ASSUME Inv, OrderInv, [Next]_vars
  PROVE  OrderInv'
<1> USE DEF Inv
<1>1. ASSUME NEW w \in Workers, NEW tok \in Tokens, BeforeHandle(w, tok)
      PROVE  OrderInv'
  BY <1>1 DEF BeforeHandle, OrderInv, clockVars, cleanerVars
<1>8. ASSUME NEW w \in Workers, NEW tok \in Tokens, BeginGenerateCookie(w, tok)
      PROVE  OrderInv'
  BY <1>8, PartiesAssumption DEF BeginGenerateCookie, OrderInv, clockVars
<1>2. ASSUME NEW w \in Workers, AnswerLogin(w) \/ Segfault(w)
      PROVE  OrderInv'
  BY <1>2 DEF AnswerLogin, Segfault, OrderInv, clockVars, cleanerVars
<1>3. CASE BeginClean
  BY <1>3, CookieTypes DEF BeginClean, OrderInv, clockVars
<1>4. CASE Scan \/ UNCHANGED vars
  BY <1>4 DEF Scan, OrderInv, vars, clockVars, cleanerVars
<1>5. CASE Tick \/ StepForth
  <2>1. clock' = clock + 1 /\ UNCHANGED <<back, cookies, cookiesMutex, scanStart>>
    BY <1>5 DEF Tick, StepForth, cleanerVars
  <2> QED
    BY <2>1, CookieTypes DEF OrderInv
<1>6. CASE StepBack
  <2>1. back' # 0
    BY <1>6, CookieTypes DEF StepBack
  <2> QED
    BY <2>1 DEF OrderInv
<1>7. CASE Restart
  <2>1. Len(cookies') = 0 /\ cookiesMutex' # Cleaner
    BY <1>7, PartiesAssumption DEF Restart
  <2> QED
    BY <2>1 DEF OrderInv
<1> QED
  BY <1>1, <1>2, <1>3, <1>4, <1>5, <1>6, <1>7, <1>8, GenerateKeepsOrder, EraseKeepsOrder DEF Next, Clean

(* A pass leaves no cookie behind that was expired when the pass began, as *)
(* long as nobody has set the clock back (cookie.cpp:65-80).               *)
THEOREM PassesErase == Spec => PassErasesExpired
<1> DEFINE erases ==
             cookiesMutex = Cleaner /\ cookiesMutex' = None /\ alive /\ back = 0 =>
               \A c \in ToSet(cookies') : scanStart - c.created <= Lifetime
<1>1. Init => OrderInv
  BY PartiesAssumption DEF Init, OrderInv
<1>2. Inv /\ OrderInv /\ [Next]_vars => OrderInv'
  BY OrderStep
<1>3. Inv /\ OrderInv /\ [Next]_vars => [erases]_vars
  <2>1. SUFFICES ASSUME Inv, OrderInv, [Next]_vars,
                        cookiesMutex = Cleaner, cookiesMutex' = None, alive, back = 0
                 PROVE  \A c \in ToSet(cookies') : scanStart - c.created <= Lifetime
    OBVIOUS
  <2>2. Cleaner # None
    BY PartiesAssumption
  <2>3. Erase
    BY <2>1, <2>2, DrawnIsNew, PartiesAssumption DEF Next, Clean, BeginGenerateCookie, EndGenerateCookie, BeforeHandle, AnswerLogin, Segfault,
       BeginClean, Scan, Tick, StepBack, StepForth, Restart, vars, cleanerVars
  <2> QED
    BY <2>1, <2>3, EraseKeepsOrder DEF Inv
<1> QED
  BY <1>1, <1>2, <1>3, InvHolds, PTL DEF Spec, PassErasesExpired
=============================================================================
