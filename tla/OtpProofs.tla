----------------------------- MODULE OtpProofs -----------------------------
(***************************************************************************)
(* What TLAPS proves of Otp, for every set of customers and requests,      *)
(* every lifetime and every delay of the goroutines.                       *)
(***************************************************************************)
EXTENDS Otp, TLAPS

(* The bounds of the model are numbers.                                    *)
LEMMA BoundsType ==
    TTL \in Nat /\ Slack \in Nat /\ MaxTime \in Nat /\ MaxRestarts \in Nat /\ NoCode \notin Sends
  BY OtpAssumption DEF OtpAssumption

(* Every step keeps the types.                                             *)
LEMMA NextTypeOK == TypeOK /\ [Next]_vars => TypeOK'
<1> SUFFICES ASSUME TypeOK, [Next]_vars PROVE TypeOK'
  OBVIOUS
<1> USE BoundsType DEF TypeOK, Stages, Goto
<1>1. ASSUME NEW s \in Sends, Store(s) PROVE TypeOK'
  BY <1>1 DEF Store
<1>2. ASSUME NEW s \in Sends, StartTimer(s) PROVE TypeOK'
  BY <1>2 DEF StartTimer, WakeTime
<1>3. ASSUME NEW s \in Sends, Expire(s) PROVE TypeOK'
  BY <1>3 DEF Expire
<1>4. CASE Tick
  BY <1>4 DEF Tick
<1>5. CASE Restart
  BY <1>5 DEF Restart
<1>6. CASE UNCHANGED vars
  BY <1>6 DEF vars
<1> QED
  BY <1>1, <1>2, <1>3, <1>4, <1>5, <1>6 DEF Next

(* The map, the goroutines and the clock stay what Send declares them.     *)
THEOREM TypeCorrect == Spec => []TypeOK
<1>1. Init => TypeOK
  BY DEF Init, TypeOK, Stages
<1>2. TypeOK /\ [Next]_vars => TypeOK'
  BY NextTypeOK
<1> QED
  BY <1>1, <1>2, PTL DEF Spec

(* An entry is the code of a Send of that customer whose goroutine is      *)
(* about to start or asleep.                                               *)
EntryHasTimer ==
    \A u \in Customers, s \in Sends : cache[u] = s =>
        /\ owner[s] = u /\ InUse(s)
        /\ stage[s] = "stored" \/ timer[s] = "asleep"

(* Codes were stored in the past; an entry is the last of its customer.    *)
EntryIsLast ==
    /\ \A s \in Sends : storedAt[s] <= now
    /\ \A u \in Customers, s \in Sends : cache[u] = s =>
          \A d \in Sends : owner[d] = u /\ InUse(d) => storedAt[d] <= storedAt[s]

(* No goroutine is late by more than Slack, neither in starting to sleep   *)
(* nor in waking up.                                                       *)
TimersAreInTime ==
    \A s \in Sends :
        /\ stage[s] = "stored" => now <= storedAt[s] + Slack
        /\ timer[s] # "none" => stage[s] = "done"
        /\ timer[s] = "asleep" =>
              /\ due[s] <= storedAt[s] + Slack + TTL
              /\ now <= due[s] + Slack

(* A customer without an entry has no code left.                           *)
MissingIsOver == \A u \in Customers : cache[u] = NoCode => CodesAreOver(u)

FreshInv == TypeOK /\ EntryHasTimer /\ EntryIsLast /\ TimersAreInTime /\ MissingIsOver

(* No step leaves an entry without its goroutine: the goroutine that wakes *)
(* deletes the entry of its own customer, and its own entry is that one.   *)
LEMMA NextEntryHasTimer == FreshInv /\ [Next]_vars => EntryHasTimer'
<1> SUFFICES ASSUME FreshInv, [Next]_vars PROVE EntryHasTimer'
  OBVIOUS
<1> USE BoundsType DEF FreshInv, TypeOK, EntryHasTimer, InUse, Goto
<1>1. ASSUME NEW s \in Sends, Store(s) PROVE EntryHasTimer'
  BY <1>1 DEF Store
<1>2. ASSUME NEW s \in Sends, StartTimer(s) PROVE EntryHasTimer'
  BY <1>2 DEF StartTimer
<1>3. ASSUME NEW s \in Sends, Expire(s) PROVE EntryHasTimer'
  BY <1>3 DEF Expire
<1>4. CASE Tick
  BY <1>4 DEF Tick
<1>5. CASE Restart
  BY <1>5 DEF Restart
<1>6. CASE UNCHANGED vars
  BY <1>6 DEF vars
<1> QED
  BY <1>1, <1>2, <1>3, <1>4, <1>5, <1>6 DEF Next

(* A new entry is stored now, which is no earlier than any other.          *)
LEMMA NextEntryIsLast == FreshInv /\ [Next]_vars => EntryIsLast'
<1> SUFFICES ASSUME FreshInv, [Next]_vars PROVE EntryIsLast'
  OBVIOUS
<1> USE BoundsType DEF FreshInv, TypeOK, EntryIsLast, InUse, Goto
<1>1. ASSUME NEW s \in Sends, Store(s) PROVE EntryIsLast'
  <2>1. /\ cache' = [cache EXCEPT ![owner[s]] = s] /\ storedAt' = [storedAt EXCEPT ![s] = now]
        /\ stage' = [stage EXCEPT ![s] = "stored"] /\ stage[s] = "idle"
        /\ UNCHANGED <<owner, now>>
    BY <1>1 DEF Store
  <2>2. \A d \in Sends : storedAt'[d] <= now
    BY <2>1
  <2>3. ASSUME NEW u \in Customers, NEW e \in Sends, cache'[u] = e,
               NEW d \in Sends, owner[d] = u, InUse(d)'
        PROVE  storedAt'[d] <= storedAt'[e]
    <3>1. CASE u = owner[s]
      <4>1. storedAt'[e] = now
        BY <2>1, <2>3, <3>1
      <4> QED  BY <2>2, <4>1
    <3>2. CASE u # owner[s]
      <4>1. cache[u] = e /\ owner[e] = u
        BY <2>1, <2>3, <3>2 DEF EntryHasTimer
      <4>2. e # s /\ d # s
        BY <2>3, <3>2, <4>1
      <4> QED  BY <2>1, <2>3, <4>1, <4>2
    <3> QED  BY <3>1, <3>2
  <2> QED
    BY <2>1, <2>2, <2>3
<1>2. ASSUME NEW s \in Sends, StartTimer(s) PROVE EntryIsLast'
  BY <1>2 DEF StartTimer
<1>3. ASSUME NEW s \in Sends, Expire(s) PROVE EntryIsLast'
  BY <1>3 DEF Expire
<1>4. CASE Tick
  BY <1>4 DEF Tick
<1>5. CASE Restart
  BY <1>5 DEF Restart
<1>6. CASE UNCHANGED vars
  BY <1>6 DEF vars
<1> QED
  BY <1>1, <1>2, <1>3, <1>4, <1>5, <1>6 DEF Next

(* The clock waits for the goroutines.                                     *)
LEMMA NextTimersAreInTime == FreshInv /\ [Next]_vars => TimersAreInTime'
<1> SUFFICES ASSUME FreshInv, [Next]_vars PROVE TimersAreInTime'
  OBVIOUS
<1> USE BoundsType DEF FreshInv, TypeOK, TimersAreInTime, Goto
<1>1. ASSUME NEW s \in Sends, Store(s) PROVE TimersAreInTime'
  BY <1>1 DEF Store
<1>2. ASSUME NEW s \in Sends, StartTimer(s) PROVE TimersAreInTime'
  BY <1>2 DEF StartTimer, WakeTime
<1>3. ASSUME NEW s \in Sends, Expire(s) PROVE TimersAreInTime'
  BY <1>3 DEF Expire
<1>4. CASE Tick
  BY <1>4 DEF Tick
<1>5. CASE Restart
  BY <1>5 DEF Restart
<1>6. CASE UNCHANGED vars
  BY <1>6 DEF vars
<1> QED
  BY <1>1, <1>2, <1>3, <1>4, <1>5, <1>6 DEF Next

(* An entry goes missing when a goroutine of the customer wakes, which is  *)
(* no earlier than any code was stored and at most Slack after its sleep,  *)
(* or when the process restarts, which forgets every code.                 *)
LEMMA NextMissingIsOver == FreshInv /\ [Next]_vars => MissingIsOver'
<1> SUFFICES ASSUME FreshInv, [Next]_vars, NEW u \in Customers, cache'[u] = NoCode
             PROVE  CodesAreOver(u)'
  BY DEF MissingIsOver
<1> USE BoundsType DEF FreshInv, TypeOK, Goto
<1>1. ASSUME cache[u] = NoCode, UNCHANGED <<owner, due, storedAt>>,
             \A s \in Sends : timer[s] = "over" => timer'[s] = "over",
             \A s \in Sends : owner[s] = u /\ InUse(s)' => InUse(s)
      PROVE  CodesAreOver(u)'
  BY <1>1 DEF MissingIsOver, CodesAreOver
<1>2. ASSUME NEW s \in Sends, Store(s) PROVE CodesAreOver(u)'
  <2>1. /\ cache' = [cache EXCEPT ![owner[s]] = s] /\ storedAt' = [storedAt EXCEPT ![s] = now]
        /\ stage' = [stage EXCEPT ![s] = "stored"] /\ UNCHANGED <<owner, timer, due>>
    BY <1>2 DEF Store
  <2>2. owner[s] # u /\ cache[u] = NoCode
    BY <2>1
  <2>3. \A d \in Sends : owner[d] = u =>
           storedAt'[d] = storedAt[d] /\ (InUse(d)' <=> InUse(d))
    BY <2>1, <2>2 DEF InUse
  <2> QED  BY <2>1, <2>2, <2>3 DEF MissingIsOver, CodesAreOver
<1>3. ASSUME NEW s \in Sends, StartTimer(s) PROVE CodesAreOver(u)'
  <2>1. /\ stage' = [stage EXCEPT ![s] = "done"] /\ stage[s] = "stored"
        /\ timer' = [timer EXCEPT ![s] = "asleep"] /\ due' = [due EXCEPT ![s] = WakeTime]
        /\ UNCHANGED <<cache, owner, storedAt>>
    BY <1>3 DEF StartTimer
  <2>2. timer[s] # "over"
    BY <2>1 DEF TimersAreInTime
  <2>3. \A d \in Sends : timer[d] = "over" => timer'[d] = "over" /\ due'[d] = due[d]
    BY <2>1, <2>2
  <2>4. \A d \in Sends : InUse(d)' <=> InUse(d)
    BY <2>1 DEF InUse
  <2>5. CodesAreOver(u) /\ UNCHANGED <<owner, storedAt>>
    BY <2>1 DEF MissingIsOver
  <2> QED  BY <2>3, <2>4, <2>5 DEF CodesAreOver
<1>4. ASSUME NEW s \in Sends, Expire(s) PROVE CodesAreOver(u)'
  <2>1. /\ timer[s] = "asleep" /\ timer' = [timer EXCEPT ![s] = "over"]
        /\ cache' = [cache EXCEPT ![owner[s]] = NoCode]
        /\ UNCHANGED <<stage, owner, due, now, storedAt>>
    BY <1>4 DEF Expire
  <2>2. CASE owner[s] = u
    <3>1. timer'[s] = "over" /\ now <= due[s] + Slack
      BY <2>1 DEF TimersAreInTime
    <3>2. \A d \in Sends : storedAt'[d] <= due'[s] + Slack
      BY <2>1, <3>1 DEF EntryIsLast
    <3> QED  BY <2>1, <2>2, <3>1, <3>2 DEF CodesAreOver
  <2>3. CASE owner[s] # u
    BY <1>1, <2>1, <2>3 DEF InUse
  <2> QED  BY <2>2, <2>3
<1>5. CASE Tick
  BY <1>1, <1>5 DEF Tick, InUse
<1>6. CASE Restart
  BY <1>6 DEF Restart, CodesAreOver, InUse
<1>7. CASE UNCHANGED vars
  BY <1>1, <1>7 DEF vars, InUse
<1> QED
  BY <1>2, <1>3, <1>4, <1>5, <1>6, <1>7 DEF Next

(* No code is stored at first.                                             *)
LEMMA InitFreshInv == Init => FreshInv
<1>1. Init => TypeOK
  BY DEF Init, TypeOK, Stages
<1>2. Init => EntryHasTimer /\ EntryIsLast /\ TimersAreInTime /\ MissingIsOver
  BY BoundsType DEF Init, EntryHasTimer, EntryIsLast, TimersAreInTime, MissingIsOver,
     CodesAreOver, InUse
<1> QED  BY <1>1, <1>2 DEF FreshInv

(* Every step keeps the invariant of the codes.                            *)
LEMMA NextFreshInv == FreshInv /\ [Next]_vars => FreshInv'
  BY NextTypeOK, NextEntryHasTimer, NextEntryIsLast, NextTimersAreInTime, NextMissingIsOver
  DEF FreshInv

(* No code outlives its lifetime or the next code, however many codes a    *)
(* customer asks for and whichever goroutine wakes, and the empty code is  *)
(* accepted only of a customer whose codes are all over.                   *)
THEOREM CodesAreFresh == Spec => []CodeIsFresh
<1>1. FreshInv => CodeIsFresh
  <2> SUFFICES ASSUME FreshInv, NEW u \in Customers, NEW code \in Presented, cache[u] = code
               PROVE  \/ code \in Sends /\ SentCodeIsFresh(u, code)
                      \/ code = NoCode /\ CodesAreOver(u)
    BY DEF CodeIsFresh, Verify
  <2>1. CASE code \in Sends
    BY <2>1, BoundsType DEF FreshInv, TypeOK, EntryHasTimer, EntryIsLast, TimersAreInTime,
       SentCodeIsFresh, Lifetime
  <2>2. CASE code = NoCode
    BY <2>2 DEF FreshInv, MissingIsOver
  <2> QED  BY <2>1, <2>2 DEF Presented
<1> QED
  BY <1>1, InitFreshInv, NextFreshInv, PTL DEF Spec
-----------------------------------------------------------------------------
(* A goroutine sleeps for the whole time.                                  *)
SleepIsWhole == \A s \in Sends : timer[s] = "asleep" => due[s] >= storedAt[s] + TTL

LoneInv == FreshInv /\ SleepIsWhole /\ LoneCodeLives

(* The sleep is counted from a moment after the code was stored.           *)
LEMMA NextSleepIsWhole == LoneInv /\ [Next]_vars => SleepIsWhole'
<1> SUFFICES ASSUME LoneInv, [Next]_vars PROVE SleepIsWhole'
  OBVIOUS
<1> USE BoundsType DEF LoneInv, FreshInv, TypeOK, SleepIsWhole, EntryIsLast, TimersAreInTime, Goto
<1>1. ASSUME NEW s \in Sends, Store(s) PROVE SleepIsWhole'
  BY <1>1 DEF Store
<1>2. ASSUME NEW s \in Sends, StartTimer(s) PROVE SleepIsWhole'
  BY <1>2 DEF StartTimer, WakeTime
<1>3. ASSUME NEW s \in Sends, Expire(s) PROVE SleepIsWhole'
  BY <1>3 DEF Expire
<1>4. CASE Tick
  BY <1>4 DEF Tick
<1>5. CASE Restart
  BY <1>5 DEF Restart
<1>6. CASE UNCHANGED vars
  BY <1>6 DEF vars
<1> QED
  BY <1>1, <1>2, <1>3, <1>4, <1>5, <1>6 DEF Next

(* The code s has no rival: each other code of its customer is older than  *)
(* a code lives.                                                           *)
IsLone(s) ==
    /\ InUse(s) /\ now < storedAt[s] + TTL
    /\ \A d \in Sends \ {s} : owner[d] = owner[s] /\ InUse(d) =>
            storedAt[d] + Lifetime < storedAt[s]

(* Only a later code of the customer or a goroutine of the customer that   *)
(* wakes takes a code from the map; a code with a later one is not lone,   *)
(* its own goroutine wakes after its time, and any other one has woken     *)
(* before a lone code was stored.                                          *)
LEMMA NextLoneCodeLives == LoneInv /\ [Next]_vars => LoneCodeLives'
<1> SUFFICES ASSUME LoneInv, [Next]_vars, NEW s \in Sends, IsLone(s)'
             PROVE  cache'[owner'[s]] = s
  BY DEF LoneCodeLives, IsLone, Verify
<1>1. /\ TypeOK /\ SleepIsWhole /\ TimersAreInTime
      /\ \A d \in Sends : storedAt[d] <= now
      /\ IsLone(s) => cache[owner[s]] = s
      /\ Lifetime \in Nat
  BY BoundsType DEF LoneInv, FreshInv, EntryIsLast, LoneCodeLives, IsLone, Verify, Lifetime
<1> USE BoundsType DEF TypeOK, IsLone, InUse, Goto
<1>2. ASSUME NEW e \in Sends, Store(e) PROVE cache'[owner'[s]] = s
  <2>1. /\ cache' = [cache EXCEPT ![owner[e]] = e] /\ storedAt' = [storedAt EXCEPT ![e] = now]
        /\ stage' = [stage EXCEPT ![e] = "stored"] /\ stage[e] = "idle"
        /\ UNCHANGED <<owner, now>>
    BY <1>2 DEF Store
  <2>2. CASE e = s
    BY <1>1, <2>1, <2>2
  <2>3. CASE e # s
    <3>1. owner[e] # owner[s]
      <4>1. storedAt'[e] = now /\ storedAt'[s] <= now /\ stage'[e] = "stored"
        BY <1>1, <2>1, <2>3
      <4>2. Lifetime' = Lifetime
        BY DEF Lifetime
      <4> QED  BY <1>1, <2>1, <2>3, <4>1, <4>2
    <3>2. IsLone(s)
      <4>1. storedAt'[s] = storedAt[s] /\ stage'[s] = stage[s]
        BY <1>1, <2>1, <2>3
      <4>2. \A d \in Sends \ {s} : owner[d] = owner[s] =>
               storedAt'[d] = storedAt[d] /\ stage'[d] = stage[d]
        BY <1>1, <2>1, <3>1
      <4>3. Lifetime' = Lifetime
        BY DEF Lifetime
      <4> QED  BY <2>1, <4>1, <4>2, <4>3
    <3> QED  BY <1>1, <2>1, <3>1, <3>2
  <2> QED  BY <2>2, <2>3
<1>3. ASSUME NEW e \in Sends, StartTimer(e) PROVE cache'[owner'[s]] = s
  <2>1. /\ stage' = [stage EXCEPT ![e] = "done"] /\ stage[e] = "stored"
        /\ UNCHANGED <<cache, owner, now, storedAt>>
    BY <1>3 DEF StartTimer
  <2>2. \A d \in Sends : InUse(d)' <=> InUse(d)
    BY <1>1, <2>1
  <2>3. IsLone(s)
    BY <2>1, <2>2 DEF Lifetime
  <2> QED  BY <1>1, <2>1, <2>3
<1>4. ASSUME NEW e \in Sends, Expire(e) PROVE cache'[owner'[s]] = s
  <2>1. /\ timer[e] = "asleep" /\ now >= due[e]
        /\ cache' = [cache EXCEPT ![owner[e]] = NoCode]
        /\ UNCHANGED <<stage, owner, now, storedAt>>
    BY <1>4 DEF Expire
  <2>2. IsLone(s)
    BY <2>1 DEF Lifetime
  <2>3. /\ stage[e] = "done" /\ now <= due[e] + Slack
        /\ storedAt[e] + TTL <= due[e] /\ due[e] <= storedAt[e] + Slack + TTL
    BY <1>1, <2>1 DEF SleepIsWhole, TimersAreInTime
  <2>4. e # s
    BY <1>1, <2>1, <2>2, <2>3
  <2>5. owner[e] # owner[s]
    <3>1. now <= storedAt[e] + Lifetime /\ storedAt[s] <= now
      BY <1>1, <2>3 DEF Lifetime
    <3> QED  BY <1>1, <2>2, <2>3, <2>4, <3>1
  <2> QED  BY <1>1, <2>1, <2>2, <2>5
<1>5. CASE Tick
  <2>1. now' = now + 1 /\ UNCHANGED <<cache, stage, owner, storedAt>>
    BY <1>5 DEF Tick
  <2>2. IsLone(s)
    BY <1>1, <2>1 DEF Lifetime
  <2> QED  BY <1>1, <2>1, <2>2
<1>6. CASE Restart
  BY <1>6 DEF Restart
<1>7. CASE UNCHANGED vars
  BY <1>1, <1>7 DEF vars, Lifetime
<1> QED
  BY <1>2, <1>3, <1>4, <1>5, <1>6, <1>7 DEF Next

(* A customer who asks for one code at a time has it for its whole time,   *)
(* whatever other customers do and however late goroutines run.            *)
THEOREM LoneCodesLive == Spec => []LoneCodeLives
<1>1. Init => LoneInv
  <2>1. Init => SleepIsWhole /\ LoneCodeLives
    BY DEF Init, SleepIsWhole, LoneCodeLives, InUse
  <2> QED  BY <2>1, InitFreshInv DEF LoneInv
<1>2. LoneInv /\ [Next]_vars => LoneInv'
  BY NextFreshInv, NextSleepIsWhole, NextLoneCodeLives DEF LoneInv
<1> QED
  BY <1>1, <1>2, PTL DEF Spec, LoneInv
=============================================================================
