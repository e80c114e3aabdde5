----------------------------- MODULE SecureSend -----------------------------
(***************************************************************************)
(* SendSecureWithdrawalViaNATS of service/dd_rr/nats_publisher.go: a       *)
(* database transaction locks the row, publishes a signed envelope to a    *)
(* JetStream stream, waits for the acknowledgement and records it in the   *)
(* row.  The publish is inside the transaction and cannot be rolled back.  *)
(*                                                                         *)
(* Every call draws a fresh idempotency key, which is also the MsgId: an   *)
(* envelope's key is named by the call that drew it, and a retry is        *)
(* another call.  The stream drops a MsgId it has; no two calls have one.  *)
(***************************************************************************)
EXTENDS Naturals, FiniteSets, Sequences

CONSTANTS
    Txns,          \* transaction ids
    Calls,         \* calls of SendSecureWithdrawalViaNATS
    MaxFaults,     \* lost messages and failed statements
    MaxCrashes     \* restarts of the process

ASSUME SecureSendAssumption == {MaxFaults, MaxCrashes} \subseteq Nat

VARIABLES
    row,      \* status, idempotency key and reference of each transaction
    lock,     \* who holds SELECT ... FOR UPDATE on the row
    pc,       \* where each call is
    target,   \* the transaction a call is about
    wire,     \* calls whose envelope is on its way to the stream
    stream,   \* the envelopes the stream has stored
    ack,      \* the sequence number the stream answered, 0 before
    faults, crashes

calls == <<pc, target>>
bounds == <<faults, crashes>>
vars == <<row, lock, calls, wire, stream, ack, bounds>>

(* A row without an envelope has a Reference of another kind, here 0.      *)
Statuses == {"none", "pending", "processing", "success", "failed"}
Unsent(status) == [status |-> status, key |-> {}, seq |-> 0]
Rows == [status : Statuses, key : SUBSET Calls, seq : Nat]
Envelope(c) == [txn |-> target[c], key |-> c]
Holding == {"publish", "wait", "save"}
Ended == {"sent", "already", "error", "lost"}

(* "none": the id of a transaction that is not in the table, like the      *)
(* fresh one SmartWithdraw of smart-width.go draws for each request.       *)
Init ==
    /\ row \in [Txns -> {Unsent(status) : status \in Statuses}]
    /\ lock = [t \in Txns |-> {}]
    /\ pc = [c \in Calls |-> "idle"]
    /\ target \in [Calls -> Txns]
    /\ wire = {} /\ stream = <<>>
    /\ ack = [c \in Calls |-> 0]
    /\ faults = 0 /\ crashes = 0

Goto(c, stage) == pc' = [pc EXCEPT ![c] = stage]
Acquire(c) == lock' = [lock EXCEPT ![target[c]] = @ \cup {c}]
Release(c) == lock' = [lock EXCEPT ![target[c]] = @ \ {c}]
Fault == faults < MaxFaults /\ faults' = faults + 1

(* The handler calls; db.Transaction begins.                               *)
Call(c) ==
    /\ pc[c] = "idle"
    /\ Goto(c, "first")
    /\ UNCHANGED <<row, lock, target, wire, stream, ack, bounds>>

NoLock(t) == TRUE           \* variant of Free: First without the locking clause
Free(t) == lock[t] = {}

(* Variant of AlreadySent: pending rows are not looked at.                 *)
AlreadyProcessing(t) == row[t].status = "processing"

(* t.Status == StatusPending || t.Status == StatusProcessing               *)
AlreadySent(t) == row[t].status \in {"pending", "processing"}

(* First(t, t.ID) FOR UPDATE, once nobody holds the row.  A missing row    *)
(* ends the call, and so does one that is pending: "already sent".         *)
First(c) ==
    /\ pc[c] = "first" /\ Free(target[c])
    /\ IF row[target[c]].status = "none" THEN Goto(c, "error") /\ UNCHANGED lock
       ELSE IF AlreadySent(target[c]) THEN Goto(c, "already") /\ UNCHANGED lock
       ELSE Goto(c, "publish") /\ Acquire(c)
    /\ UNCHANGED <<row, target, wire, stream, ack, bounds>>

(* OTP, envelope and signature are made and js.Publish sends them.         *)
Publish(c) ==
    /\ pc[c] = "publish"
    /\ wire' = wire \cup {c}
    /\ Goto(c, "wait")
    /\ UNCHANGED <<row, lock, target, stream, ack, bounds>>

(* The stream stores the envelope and answers its sequence number, also to *)
(* a call that no longer waits.                                            *)
Store(c) ==
    /\ c \in wire
    /\ wire' = wire \ {c}
    /\ stream' = Append(stream, Envelope(c))
    /\ ack' = [ack EXCEPT ![c] = Len(stream) + 1]
    /\ UNCHANGED <<row, lock, calls, bounds>>

Lose(c) ==
    /\ c \in wire
    /\ Fault
    /\ wire' = wire \ {c}
    /\ UNCHANGED <<row, lock, calls, stream, ack, crashes>>

TakeAck(c) ==
    /\ pc[c] = "wait" /\ ack[c] # 0
    /\ Goto(c, "save")
    /\ UNCHANGED <<row, lock, target, wire, stream, ack, bounds>>

(* Variant of Save: the stream's last sequence number for the call's own.  *)
SaveLast(c) ==
    /\ pc[c] = "save"
    /\ row' = [row EXCEPT ![target[c]] =
                 [status |-> "pending", key |-> {c}, seq |-> Len(stream)]]
    /\ Release(c) /\ Goto(c, "sent")
    /\ UNCHANGED <<target, wire, stream, ack, bounds>>

(* The audit trail is saved and the transaction commits.                   *)
Save(c) ==
    /\ pc[c] = "save"
    /\ row' = [row EXCEPT ![target[c]] =
                 [status |-> "pending", key |-> {c}, seq |-> ack[c]]]
    /\ Release(c) /\ Goto(c, "sent")
    /\ UNCHANGED <<target, wire, stream, ack, bounds>>

(* Variant of Rollback: the lock is kept.                                  *)
KeepLock(c) == Goto(c, "error") /\ UNCHANGED lock
Rollback(c) == Goto(c, "error") /\ Release(c)

(* No acknowledgement in AckWait, 30 seconds, whatever became of the       *)
(* envelope: it may be lost, stored, or still be stored later.             *)
Timeout(c) ==
    /\ pc[c] = "wait"
    /\ Rollback(c)
    /\ UNCHANGED <<row, target, wire, stream, ack, bounds>>

(* The row is saved and the commit reaches the database, but its answer    *)
(* does not come back: the caller is told of an error.                     *)
CommitUnanswered(c) ==
    /\ pc[c] = "save"
    /\ Fault
    /\ row' = [row EXCEPT ![target[c]] =
                 [status |-> "pending", key |-> {c}, seq |-> ack[c]]]
    /\ Release(c) /\ Goto(c, "error")
    /\ UNCHANGED <<target, wire, stream, ack, crashes>>

(* A statement or the encryption fails.                                    *)
Fail(c) ==
    /\ pc[c] \in {"first", "publish", "save"}
    /\ Fault
    /\ Rollback(c)
    /\ UNCHANGED <<row, target, wire, stream, ack, crashes>>

(* The process restarts: the database rolls open transactions back, what   *)
(* was sent goes on to the stream.                                         *)
Crash ==
    /\ crashes < MaxCrashes
    /\ crashes' = crashes + 1
    /\ pc' = [c \in Calls |-> IF pc[c] \in Ended \cup {"idle"} THEN pc[c] ELSE "lost"]
    /\ lock' = [t \in Txns |-> {}]
    /\ UNCHANGED <<row, target, wire, stream, ack, faults>>

Progress(c) == First(c) \/ Publish(c) \/ TakeAck(c) \/ Save(c) \/ Timeout(c)

Next ==
    \/ \E c \in Calls : Call(c) \/ Progress(c) \/ Store(c) \/ Lose(c)
                         \/ CommitUnanswered(c) \/ Fail(c)
    \/ Crash

Spec == Init /\ [][Next]_vars

(* A goroutine that can go on does, an envelope is not on its way forever. *)
Fairness == \A c \in Calls : WF_vars(Progress(c)) /\ WF_vars(Store(c))

FairSpec == Spec /\ Fairness
-----------------------------------------------------------------------------
TypeOK ==
    /\ row \in [Txns -> Rows]
    /\ lock \in [Txns -> SUBSET Calls]
    /\ \A t \in Txns, c, d \in Calls : c \in lock[t] /\ d \in lock[t] => c = d
    /\ pc \in [Calls -> {"idle", "first"} \cup Holding \cup Ended]
    /\ target \in [Calls -> Txns]
    /\ wire \subseteq Calls
    /\ stream \in Seq([txn : Txns, key : Calls])
    /\ ack \in [Calls -> Nat]
    /\ faults \in Nat /\ crashes \in Nat

(* However calls, retries, timeouts, restarts and lost answers of commits  *)
(* interleave, a row records one call for good: a call that comes back     *)
(* having sent it is the one in the row, and once a call is in the row no  *)
(* other is past the guard.  Further envelopes of the transaction are      *)
(* those of calls that failed or were lost before.                         *)
SentOnce ==
    /\ \A c \in Calls : pc[c] = "sent" => row[target[c]].key = {c}
    /\ \A c, d \in Calls : c \in row[target[c]].key /\ target[d] = target[c] /\ d # c =>
          pc[d] \notin Holding \cup {"sent"}

(* The audit trail holds: the sequence number in a row is that of an       *)
(* envelope of this transaction, with the key in the row, although other   *)
(* envelopes reach the stream while the call waits for the commit.         *)
AuditIsInStream ==
    \A t \in Txns : row[t].seq # 0 =>
        /\ row[t].seq \in DOMAIN stream
        /\ stream[row[t].seq].txn = t
        /\ row[t].key = {stream[row[t].seq].key}

(* A call that has begun ends: nobody waits for a row forever, whoever     *)
(* timed out, failed or was lost with the lock.                            *)
CallsEnd == \A c \in Calls : pc[c] = "first" ~> pc[c] \in Ended
-----------------------------------------------------------------------------
(* "Row lock + idempotency guard", "dedup + ack": a transaction is in the  *)
(* stream at most once.                                                    *)
AtMostOneEnvelope ==
    \A i, j \in DOMAIN stream : stream[i].txn = stream[j].txn => i = j
=============================================================================
