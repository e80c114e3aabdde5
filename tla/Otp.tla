-------------------------------- MODULE Otp --------------------------------
(***************************************************************************)
(* The withdrawal codes of service/otp/otp.go, requested by                *)
(* RequestWithdrawOTP of api/handlers/otp.go.  Send stores a code in the   *)
(* process-wide map, starts a goroutine that sleeps and deletes the map    *)
(* entry of the customer, and publishes the SMS, whose error it drops;     *)
(* Verify compares with the entry.  mu makes each access to the map one    *)
(* step; between those steps the requests and the sleeping goroutines      *)
(* interleave.                                                             *)
(*                                                                         *)
(* A code is named by the Send that drew it, so two Sends that draw the    *)
(* same six digits are not distinguished from two that do not.             *)
(***************************************************************************)
EXTENDS Naturals

CONSTANTS
    Customers,     \* customers found in the database
    Sends,         \* calls of Send
    NoCode,        \* the empty string: what the map returns without an entry
    TTL,           \* what the goroutine sleeps, 5 minutes
    Slack,         \* how much later than it could a goroutine runs
    MaxTime,       \* bound on the clock
    MaxRestarts    \* bound on restarts of the process

ASSUME OtpAssumption ==
    /\ NoCode \notin Sends
    /\ TTL \in Nat \ {0} /\ Slack \in Nat
    /\ {MaxTime, MaxRestarts} \subseteq Nat

VARIABLES
    cache,      \* the map
    stage,      \* the statement each Send has reached
    owner,      \* the customer each Send is for
    timer,      \* its sleeping goroutine
    due,        \* when the sleep is over
    now,        \* the clock
    \* history and bounds
    storedAt,   \* when each code was stored
    restarts

vars == <<cache, stage, owner, timer, due, now, storedAt, restarts>>

Stages == {"idle", "stored", "done", "lost"}

Init ==
    /\ cache = [u \in Customers |-> NoCode]
    /\ stage = [s \in Sends |-> "idle"]
    /\ owner \in [Sends -> Customers]
    /\ timer = [s \in Sends |-> "none"]
    /\ due = [s \in Sends |-> 0]
    /\ now = 0
    /\ storedAt = [s \in Sends |-> 0]
    /\ restarts = 0

Goto(s, next) == stage' = [stage EXCEPT ![s] = next]

(* The latest moment at which a code stored now is still in the map.       *)
Lifetime == TTL + 2 * Slack

(* RequestWithdrawOTP found the customer and calls Send, early enough for  *)
(* the clock to reach the end of the code: cache[customerID] = otp.        *)
Store(s) ==
    /\ stage[s] = "idle" /\ now + Lifetime < MaxTime
    /\ cache' = [cache EXCEPT ![owner[s]] = s]
    /\ storedAt' = [storedAt EXCEPT ![s] = now]
    /\ Goto(s, "stored")
    /\ UNCHANGED <<owner, timer, due, now, restarts>>

WakeBefore == now - TTL     \* variant of WakeTime: the sleep is subtracted
WakeTime == now + TTL

(* go func() { time.Sleep(5 * time.Minute) ... }                           *)
StartTimer(s) ==
    /\ stage[s] = "stored"
    /\ timer' = [timer EXCEPT ![s] = "asleep"]
    /\ due' = [due EXCEPT ![s] = WakeTime]
    /\ Goto(s, "done")
    /\ UNCHANGED <<cache, owner, now, storedAt, restarts>>

(* Variants of Expire: every entry is deleted; the entry is left to a      *)
(* goroutine of the customer that still sleeps.                            *)
ExpireAll(s) ==
    /\ timer[s] = "asleep" /\ now >= due[s]
    /\ timer' = [timer EXCEPT ![s] = "over"]
    /\ cache' = [u \in Customers |-> NoCode]
    /\ UNCHANGED <<stage, owner, due, now, storedAt, restarts>>

ExpireIfLast(s) ==
    /\ timer[s] = "asleep" /\ now >= due[s]
    /\ timer' = [timer EXCEPT ![s] = "over"]
    /\ cache' = [cache EXCEPT ![owner[s]] =
                   IF \E d \in Sends \ {s} : owner[d] = owner[s] /\ timer[d] = "asleep"
                   THEN @ ELSE NoCode]
    /\ UNCHANGED <<stage, owner, due, now, storedAt, restarts>>

(* delete(cache, customerID): whatever code the customer has by now.       *)
Expire(s) ==
    /\ timer[s] = "asleep" /\ now >= due[s]
    /\ timer' = [timer EXCEPT ![s] = "over"]
    /\ cache' = [cache EXCEPT ![owner[s]] = NoCode]
    /\ UNCHANGED <<stage, owner, due, now, storedAt, restarts>>

(* What a customer presents: a code that was sent, or the empty string,    *)
(* which SmartWithdraw does not refuse.  Any other string never compares   *)
(* equal.                                                                  *)
Presented == Sends \cup {NoCode}

(* Verify: the map is read without asking whether there is an entry, so    *)
(* that a customer without one has the empty string for a code.            *)
Verify(u, code) == cache[u] = code

(* Time passes, but no goroutine is kept waiting for more than Slack.      *)
Tick ==
    /\ now < MaxTime
    /\ \A s \in Sends :
         /\ stage[s] = "stored" => now < storedAt[s] + Slack
         /\ timer[s] = "asleep" => now < due[s] + Slack
    /\ now' = now + 1
    /\ UNCHANGED <<cache, stage, owner, timer, due, storedAt, restarts>>

(* The map and the goroutines are those of the process.                    *)
Restart ==
    /\ restarts < MaxRestarts
    /\ restarts' = restarts + 1
    /\ cache' = [u \in Customers |-> NoCode]
    /\ stage' = [s \in Sends |-> IF stage[s] = "idle" THEN "idle" ELSE "lost"]
    /\ timer' = [s \in Sends |-> "none"]
    /\ UNCHANGED <<owner, due, now, storedAt>>

Next ==
    \/ \E s \in Sends : Store(s) \/ StartTimer(s) \/ Expire(s)
    \/ Tick
    \/ Restart

Spec == Init /\ [][Next]_vars
-----------------------------------------------------------------------------
TypeOK ==
    /\ cache \in [Customers -> Sends \cup {NoCode}]
    /\ stage \in [Sends -> Stages]
    /\ owner \in [Sends -> Customers]
    /\ timer \in [Sends -> {"none", "asleep", "over"}]
    /\ due \in [Sends -> Nat]
    /\ now \in Nat
    /\ storedAt \in [Sends -> Nat]
    /\ restarts \in Nat

InUse(s) == stage[s] \in {"stored", "done"}

(* No code outlives its five minutes by more than the delay of its two     *)
(* goroutines, and an accepted code that was sent is one its customer was  *)
(* sent, and the last of them: Verify leaves a code in the map, but a code *)
(* that was replaced is not accepted again.  With several requests of one  *)
(* customer, whichever goroutine wakes, the entry's own is still to come.  *)
SentCodeIsFresh(u, s) ==
    /\ owner[s] = u /\ InUse(s)
    /\ \A d \in Sends : owner[d] = u /\ InUse(d) => storedAt[d] <= storedAt[s]
    /\ now <= storedAt[s] + Lifetime
    /\ stage[s] = "stored" \/ timer[s] = "asleep"

(* No code of the customer is left: the process has stored none for it, or *)
(* a goroutine of the customer woke after it stored the last one.          *)
CodesAreOver(u) ==
    \/ \A s \in Sends : owner[s] = u => ~InUse(s)
    \/ \E d \in Sends :
         /\ owner[d] = u /\ timer[d] = "over"
         /\ \A s \in Sends : owner[s] = u /\ InUse(s) => storedAt[s] <= due[d] + Slack

(* What Verify accepts: the last code the customer was sent while it lives *)
(* and, since the code does not ask for an entry, the empty code, but only *)
(* while the customer has no code: never while one is stored that no       *)
(* goroutine of the customer has outlasted.                                *)
CodeIsFresh ==
    \A u \in Customers, code \in Presented : Verify(u, code) =>
        \/ code \in Sends /\ SentCodeIsFresh(u, code)
        \/ code = NoCode /\ CodesAreOver(u)

(* A customer who asks for one code at a time can use it for the whole     *)
(* five minutes, whatever other customers do: if each other code of the    *)
(* customer is not stored yet or was stored longer ago than a code lives,  *)
(* the code is accepted until its sleep could end.                         *)
LoneCodeLives ==
    \A s \in Sends :
        /\ InUse(s) /\ now < storedAt[s] + TTL
        /\ \A d \in Sends \ {s} : owner[d] = owner[s] /\ InUse(d) =>
                storedAt[d] + Lifetime < storedAt[s]
        => Verify(owner[s], s)
-----------------------------------------------------------------------------
(* "invalid or expired OTP": the last code a customer asked for is valid   *)
(* until it expires.                                                       *)
LastCodeIsAccepted ==
    \A s \in Sends :
        /\ InUse(s) /\ now < storedAt[s] + TTL
        /\ \A d \in Sends \ {s} : owner[d] = owner[s] /\ InUse(d) =>
                storedAt[d] < storedAt[s]
        => Verify(owner[s], s)
=============================================================================
