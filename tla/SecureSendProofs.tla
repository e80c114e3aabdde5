-------------------------- MODULE SecureSendProofs --------------------------
(***************************************************************************)
(* What TLAPS proves of SecureSend, for any transactions and calls and any *)
(* number of faults and restarts.                                          *)
(***************************************************************************)
EXTENDS SecureSend, TLAPS

(* Every statement of a call, every fate of an envelope and every restart  *)
(* keeps the types, and the lock has one holder at a time.                 *)
LEMMA NextTypeOK == TypeOK /\ [Next]_vars => TypeOK'
<1> SUFFICES ASSUME TypeOK, [Next]_vars PROVE TypeOK'
  OBVIOUS
<1> USE DEF TypeOK, Goto, Holding, Ended, calls, bounds
<1>1. ASSUME NEW c \in Calls, Call(c) PROVE TypeOK'
  BY <1>1 DEF Call
<1>2. ASSUME NEW c \in Calls, First(c) PROVE TypeOK'
  <2>1. CASE Acquire(c) /\ pc' = [pc EXCEPT ![c] = "publish"]
    <3>1. lock[target[c]] = {}
      BY <1>2 DEF First, Free
    <3>2. lock' = [lock EXCEPT ![target[c]] = {c}]
      BY <2>1, <3>1 DEF Acquire
    <3> QED
      BY <1>2, <2>1, <3>2 DEF First
  <2>2. CASE UNCHANGED lock /\ pc' \in {[pc EXCEPT ![c] = "error"], [pc EXCEPT ![c] = "already"]}
    BY <1>2, <2>2 DEF First
  <2> QED
    BY <1>2, <2>1, <2>2 DEF First
<1>3. ASSUME NEW c \in Calls, Publish(c) PROVE TypeOK'
  BY <1>3 DEF Publish
<1>4. ASSUME NEW c \in Calls, Store(c) PROVE TypeOK'
  <2>1. Envelope(c) \in [txn : Txns, key : Calls]
    BY DEF Envelope
  <2>2. stream' \in Seq([txn : Txns, key : Calls]) /\ Len(stream) \in Nat
    BY <1>4, <2>1 DEF Store
  <2> QED
    BY <1>4, <2>2 DEF Store
<1>5. ASSUME NEW c \in Calls, Lose(c) PROVE TypeOK'
  BY <1>5 DEF Lose, Fault
<1>6. ASSUME NEW c \in Calls, TakeAck(c) PROVE TypeOK'
  BY <1>6 DEF TakeAck
<1>7. ASSUME NEW c \in Calls, Save(c) PROVE TypeOK'
  <2>1. [status |-> "pending", key |-> {c}, seq |-> ack[c]] \in Rows
    BY DEF Rows, Statuses
  <2> QED
    BY <1>7, <2>1 DEF Save, Release
<1>12. ASSUME NEW c \in Calls, CommitUnanswered(c) PROVE TypeOK'
  <2>1. [status |-> "pending", key |-> {c}, seq |-> ack[c]] \in Rows
    BY DEF Rows, Statuses
  <2> QED
    BY <1>12, <2>1 DEF CommitUnanswered, Release, Fault
<1>8. ASSUME NEW c \in Calls, Timeout(c) PROVE TypeOK'
  BY <1>8 DEF Timeout, Rollback, Release
<1>9. ASSUME NEW c \in Calls, Fail(c) PROVE TypeOK'
  BY <1>9 DEF Fail, Rollback, Release, Fault
<1>10. CASE Crash
  BY <1>10 DEF Crash
<1>11. CASE UNCHANGED vars
  BY <1>11 DEF vars
<1> QED
  BY <1>1, <1>2, <1>3, <1>4, <1>5, <1>6, <1>7, <1>8, <1>9, <1>10, <1>11, <1>12
     DEF Next, Progress

(* A call is past the guard exactly as long as it holds the row, and the   *)
(* row is then not pending.                                                *)
HolderInv ==
    \A c \in Calls : pc[c] \in Holding =>
        /\ c \in lock[target[c]]
        /\ row[target[c]].status # "pending"

(* A row that records a call is pending and records no other; a call that  *)
(* has sent it is recorded.                                                *)
SentInv ==
    \A c \in Calls :
        /\ c \in row[target[c]].key => row[target[c]].status = "pending" /\ row[target[c]].key = {c}
        /\ pc[c] = "sent" => c \in row[target[c]].key

(* An acknowledged envelope is in the stream where the answer says.        *)
AckInv ==
    \A c \in Calls :
        /\ pc[c] = "save" => ack[c] # 0
        /\ ack[c] # 0 => ack[c] \in DOMAIN stream /\ stream[ack[c]] = Envelope(c)

SendInv == TypeOK /\ HolderInv /\ SentInv /\ AckInv /\ AuditIsInStream

(* Two calls past the guard of one transaction are one call.               *)
LEMMA OneHolder ==
    ASSUME TypeOK, HolderInv, NEW c \in Calls, NEW d \in Calls,
           pc[c] \in Holding, pc[d] \in Holding, target[c] = target[d]
    PROVE  c = d
  BY DEF TypeOK, HolderInv

(* The lock and the rows.                                                  *)
LEMMA NextHolderInv == TypeOK /\ HolderInv /\ [Next]_vars => HolderInv'
<1> SUFFICES ASSUME TypeOK, HolderInv, [Next]_vars PROVE HolderInv'
  OBVIOUS
<1> USE DEF TypeOK, HolderInv, Goto, Holding, Ended, calls, bounds
<1>1. ASSUME NEW c \in Calls, Call(c) PROVE HolderInv'
  BY <1>1 DEF Call
<1>2. ASSUME NEW c \in Calls, First(c) PROVE HolderInv'
  <2> SUFFICES ASSUME NEW d \in Calls, pc'[d] \in Holding
               PROVE  d \in lock'[target'[d]] /\ row'[target'[d]].status # "pending"
    OBVIOUS
  <2>1. row' = row /\ target' = target
    BY <1>2 DEF First
  <2>2. CASE d = c
    <3>1. Acquire(c) /\ ~AlreadySent(target[c])
      BY <1>2, <2>2 DEF First
    <3> QED
      BY <2>1, <2>2, <3>1 DEF Acquire, AlreadySent
  <2>3. CASE d # c
    <3>1. pc'[d] = pc[d]
      BY <1>2, <2>3 DEF First
    <3>2. lock[target[d]] \subseteq lock'[target[d]]
      <4>1. CASE UNCHANGED lock
        BY <4>1
      <4>2. CASE Acquire(c)
        BY <4>2 DEF Acquire
      <4> QED
        BY <1>2, <4>1, <4>2 DEF First
    <3> QED
      BY <2>1, <3>1, <3>2
  <2> QED
    BY <2>2, <2>3
<1>3. ASSUME NEW c \in Calls, Publish(c) \/ TakeAck(c) PROVE HolderInv'
  BY <1>3 DEF Publish, TakeAck
<1>4. ASSUME NEW c \in Calls, Store(c) \/ Lose(c) PROVE HolderInv'
  BY <1>4 DEF Store, Lose
<1>5. ASSUME NEW c \in Calls, Save(c) \/ CommitUnanswered(c) PROVE HolderInv'
  <2> SUFFICES ASSUME NEW d \in Calls, pc'[d] \in Holding
               PROVE  d \in lock'[target'[d]] /\ row'[target'[d]].status # "pending"
    OBVIOUS
  <2>1. pc[c] = "save" /\ d # c /\ pc'[d] = pc[d]
    BY <1>5 DEF Save, CommitUnanswered
  <2>2. target[d] # target[c]
    BY <2>1, OneHolder
  <2> QED
    BY <1>5, <2>1, <2>2 DEF Save, CommitUnanswered, Release
<1>6. ASSUME NEW c \in Calls, Timeout(c) \/ Fail(c) PROVE HolderInv'
  <2> SUFFICES ASSUME NEW d \in Calls, pc'[d] \in Holding
               PROVE  d \in lock'[target'[d]] /\ row'[target'[d]].status # "pending"
    OBVIOUS
  <2>1. row' = row /\ target' = target /\ Rollback(c)
    BY <1>6 DEF Timeout, Fail
  <2>2. d # c /\ pc'[d] = pc[d]
    BY <2>1 DEF Rollback
  <2>3. d \in lock'[target[d]]
    BY <2>1, <2>2 DEF Rollback, Release
  <2> QED
    BY <2>1, <2>2, <2>3
<1>7. CASE Crash
  BY <1>7 DEF Crash
<1>8. CASE UNCHANGED vars
  BY <1>8 DEF vars
<1> QED
  BY <1>1, <1>2, <1>3, <1>4, <1>5, <1>6, <1>7, <1>8 DEF Next, Progress

(* A step that leaves the rows alone and sends nothing keeps SentInv.      *)
LEMMA SentKept ==
    ASSUME SentInv, row' = row, target' = target,
           \A c \in Calls : pc'[c] = "sent" => pc[c] = "sent"
    PROVE  SentInv'
  BY DEF SentInv

(* Only the holder writes the row, which was not pending, so that nobody   *)
(* else was recorded in it.                                                *)
LEMMA NextSentInv == TypeOK /\ HolderInv /\ SentInv /\ [Next]_vars => SentInv'
<1> SUFFICES ASSUME TypeOK, HolderInv, SentInv, [Next]_vars PROVE SentInv'
  OBVIOUS
<1> USE DEF TypeOK, Goto, Holding, Ended, calls, bounds
<1>1. ASSUME NEW c \in Calls,
             Call(c) \/ First(c) \/ Publish(c) \/ TakeAck(c) \/ Store(c) \/ Lose(c)
      PROVE  SentInv'
  BY <1>1, SentKept DEF Call, First, Publish, TakeAck, Store, Lose
<1>2. ASSUME NEW c \in Calls, Timeout(c) \/ Fail(c) PROVE SentInv'
  BY <1>2, SentKept DEF Timeout, Fail, Rollback
<1>3. ASSUME NEW c \in Calls, Save(c) \/ CommitUnanswered(c) PROVE SentInv'
  <2>1. row[target[c]].status # "pending"
    BY <1>3 DEF Save, CommitUnanswered, HolderInv
  <2>2. row' = [row EXCEPT ![target[c]] = [status |-> "pending", key |-> {c}, seq |-> ack[c]]]
    BY <1>3 DEF Save, CommitUnanswered
  <2>3. target' = target /\ \A d \in Calls : d # c => pc'[d] = pc[d]
    BY <1>3 DEF Save, CommitUnanswered
  <2>4. ASSUME NEW d \in Calls
        PROVE  /\ d \in row'[target[d]].key =>
                    row'[target[d]].status = "pending" /\ row'[target[d]].key = {d}
               /\ pc'[d] = "sent" => d \in row'[target[d]].key
    <3>1. CASE target[d] = target[c]
      <4>1. row'[target[d]] = [status |-> "pending", key |-> {c}, seq |-> ack[c]]
        BY <2>2, <3>1
      <4>2. pc[d] # "sent"
        BY <2>1, <3>1 DEF SentInv
      <4> QED
        BY <2>3, <4>1, <4>2
    <3>2. CASE target[d] # target[c]
      <4>1. row'[target[d]] = row[target[d]] /\ d # c
        BY <2>2, <3>2
      <4> QED
        BY <2>3, <4>1 DEF SentInv
    <3> QED
      BY <3>1, <3>2
  <2> QED
    BY <2>3, <2>4 DEF SentInv
<1>4. CASE Crash
  BY <1>4, SentKept DEF Crash
<1>5. CASE UNCHANGED vars
  BY <1>5, SentKept DEF vars
<1> QED
  BY <1>1, <1>2, <1>3, <1>4, <1>5 DEF Next, Progress

(* A step that leaves the stream and the answers alone, and takes no       *)
(* answer, keeps AckInv.                                                   *)
LEMMA AckKept ==
    ASSUME AckInv, stream' = stream, ack' = ack, target' = target,
           \A c \in Calls : pc'[c] = "save" => pc[c] = "save"
    PROVE  AckInv'
  BY DEF AckInv, Envelope

(* Answers and the stream.                                                 *)
LEMMA NextAckInv == TypeOK /\ AckInv /\ [Next]_vars => AckInv'
<1> SUFFICES ASSUME TypeOK, AckInv, [Next]_vars PROVE AckInv'
  OBVIOUS
<1> USE DEF TypeOK, Goto, Holding, Ended, calls, bounds
<1>1. ASSUME NEW c \in Calls, Call(c) \/ First(c) \/ Publish(c) \/ Lose(c) \/ Save(c)
                             \/ CommitUnanswered(c)
      PROVE  AckInv'
  BY <1>1, AckKept DEF Call, First, Publish, Lose, Save, CommitUnanswered
<1>2. ASSUME NEW c \in Calls, Timeout(c) \/ Fail(c) PROVE AckInv'
  BY <1>2, AckKept DEF Timeout, Fail, Rollback
<1>3. ASSUME NEW c \in Calls, TakeAck(c) PROVE AckInv'
  BY <1>3 DEF TakeAck, AckInv, Envelope
<1>4. ASSUME NEW c \in Calls, Store(c) PROVE AckInv'
  <2>1. stream \in Seq([txn : Txns, key : Calls]) /\ stream' = Append(stream, Envelope(c))
    BY <1>4 DEF Store
  <2>2. /\ Len(stream) \in Nat /\ DOMAIN stream = 1 .. Len(stream)
        /\ DOMAIN stream' = 1 .. Len(stream) + 1
        /\ stream'[Len(stream) + 1] = Envelope(c)
        /\ \A i \in DOMAIN stream : stream'[i] = stream[i]
    BY <2>1
  <2>3. ack' = [ack EXCEPT ![c] = Len(stream) + 1] /\ pc' = pc /\ target' = target
    BY <1>4 DEF Store
  <2> QED
    BY <2>2, <2>3 DEF AckInv, Envelope
<1>5. CASE Crash
  BY <1>5, AckKept DEF Crash
<1>6. CASE UNCHANGED vars
  BY <1>6, AckKept DEF vars
<1> QED
  BY <1>1, <1>2, <1>3, <1>4, <1>5, <1>6 DEF Next, Progress

(* A row is written from the answer of its own call, and the stream only   *)
(* grows.                                                                  *)
LEMMA NextAudit == TypeOK /\ AckInv /\ AuditIsInStream /\ [Next]_vars => AuditIsInStream'
<1> SUFFICES ASSUME TypeOK, AckInv, AuditIsInStream, [Next]_vars PROVE AuditIsInStream'
  OBVIOUS
<1> USE DEF AuditIsInStream
<1>1. ASSUME NEW c \in Calls, Save(c) \/ CommitUnanswered(c) PROVE AuditIsInStream'
  <2>1. /\ ack[c] \in DOMAIN stream /\ stream[ack[c]] = [txn |-> target[c], key |-> c]
        /\ stream' = stream
    BY <1>1 DEF Save, CommitUnanswered, AckInv, Envelope
  <2>2. row'[target[c]] = [status |-> "pending", key |-> {c}, seq |-> ack[c]]
    BY <1>1 DEF Save, CommitUnanswered, TypeOK
  <2>3. \A t \in Txns : t # target[c] => row'[t] = row[t]
    BY <1>1 DEF Save, CommitUnanswered, TypeOK
  <2> QED
    BY <2>1, <2>2, <2>3
<1>2. ASSUME NEW c \in Calls, Store(c) PROVE AuditIsInStream'
  <2>1. stream \in Seq([txn : Txns, key : Calls]) /\ stream' = Append(stream, Envelope(c))
    BY <1>2 DEF Store, TypeOK
  <2>2. \A i \in DOMAIN stream : i \in DOMAIN stream' /\ stream'[i] = stream[i]
    BY <2>1
  <2>3. row' = row
    BY <1>2 DEF Store
  <2> QED
    BY <2>2, <2>3
<1>3. CASE row' = row /\ stream' = stream
  BY <1>3
<1> QED
  BY <1>1, <1>2, <1>3 DEF Next, Progress, Call, First, Publish, TakeAck, Lose, Timeout,
     Fail, Crash, vars

(* The rows that are in the table start without an envelope.               *)
LEMMA InitSendInv == Init => SendInv
<1> SUFFICES ASSUME Init PROVE SendInv
  OBVIOUS
<1>1. \A status \in Statuses : Unsent(status) \in Rows /\ Unsent(status).seq = 0
  BY DEF Unsent, Rows
<1>2. TypeOK
  BY <1>1, SecureSendAssumption DEF Init, TypeOK, SecureSendAssumption
<1>3. HolderInv /\ AckInv
  BY DEF Init, HolderInv, AckInv, Holding
<1>5. SentInv
  <2>1. \A t \in Txns : row[t].key = {}
    BY DEF Init, Unsent
  <2> QED
    BY <2>1 DEF Init, SentInv
<1>4. AuditIsInStream
  BY <1>1 DEF Init, AuditIsInStream
<1> QED
  BY <1>2, <1>3, <1>4, <1>5 DEF SendInv

(* Locks, holders, answers and the audit trail, together.                  *)
THEOREM SendInvariant == Spec => []SendInv
<1>1. SendInv /\ [Next]_vars => SendInv'
  BY NextTypeOK, NextHolderInv, NextSentInv, NextAckInv, NextAudit DEF SendInv
<1> QED
  BY InitSendInv, <1>1, PTL DEF Spec

(* Rows, locks, answers and the stream stay well typed, and a row has one  *)
(* holder at a time.                                                       *)
THEOREM TypeCorrect == Spec => []TypeOK
<1>1. SendInv => TypeOK
  BY DEF SendInv
<1> QED
  BY SendInvariant, <1>1, PTL

(* However calls interleave, fail and are lost, a row records one call for *)
(* good, and no other comes back having sent it.                           *)
THEOREM SendsOnce == Spec => []SentOnce
<1>1. SendInv => SentOnce
  BY DEF SendInv, SentInv, HolderInv, SentOnce
<1> QED
  BY SendInvariant, <1>1, PTL

(* The reference in a row is an envelope of its transaction and its key.   *)
THEOREM AuditCorrect == Spec => []AuditIsInStream
<1>1. SendInv => AuditIsInStream
  BY DEF SendInv
<1> QED
  BY SendInvariant, <1>1, PTL
=============================================================================
