---------------------------- MODULE PromptProofs ----------------------------
(***************************************************************************)
(* What TLAPS proves of the legs, prompts and credits of StkDeposit, for   *)
(* every value of the constants: prompts are booked and never for part of  *)
(* a request, the legs of a request stay within the shares of its amount,  *)
(* a leg is credited for its paid prompts, and the rows the prompts are    *)
(* sent for go forward, except where a further subscription opens them.    *)
(***************************************************************************)
EXTENDS StkDepositProofs

(* What the loop of SmartDeposit has still to book is not booked, the row  *)
(* it holds is of such a leg, and a leg that was saved is booked before    *)
(* the loop goes on.                                                       *)
LoopInv ==
    \A r \in Requests :
        /\ \A a \in Accounts : <<r, a>> \in Stored => pc[r] # "idle" /\ plan[r][a] = 0
        /\ hold[r] # {} => pc[r] \in {"save", "create"}
        /\ \A acc \in hold[r] : plan[r][acc.account] > 0
        /\ \A acc, other \in hold[r] : acc.account = other.account
        /\ \A a \in Accounts : <<r, a>> \in saved /\ <<r, a>> \notin Stored =>
              \/ pc[r] \in {"error", "lost"}
              \/ pc[r] = "create" /\ \A acc \in hold[r] : acc.account = a

(* The request is over, is to be paid on the phone, and has booked all it  *)
(* planned and all it saved.                                               *)
Complete(r) ==
    /\ pc[r] = "done" /\ ask[r].isReal /\ ~ask[r].dryRun
    /\ \A a \in Accounts : plan[r][a] = 0 /\ (<<r, a>> \in saved => <<r, a>> \in Stored)

(* Legs as their rows have them, of one request and of complete requests.  *)
OwnLegs(r) ==
    {leg \in Legs : leg.txn[1] = r /\ leg.txn \in Stored /\ txn[leg.txn].amount = leg.amount}

MessageLegs == {leg \in Legs : leg \in OwnLegs(leg.txn[1]) /\ Complete(leg.txn[1])}

MessagesAreComplete ==
    /\ \A r \in Requests : allocs[r] \in Seq(OwnLegs(r))
    /\ inbox \in [Consumers -> Seq(Seq(MessageLegs))]
    /\ work \in [Consumers -> Seq(MessageLegs)]

(* A prompt asks for what the row of its leg says, cents left out.         *)
AsksFor(k, amount) == 100 * asked[k] <= amount /\ amount < 100 * asked[k] + 100

PromptsAreDue ==
    \A k \in Checkouts : checkout[k] # "none" =>
        Complete(k[1][1]) /\ k[1] \in Stored /\ AsksFor(k, txn[k[1]].amount)

PromptInv == PayInv /\ LoopInv /\ MessagesAreComplete /\ PromptsAreDue

(* Nothing is planned, booked or asked at first.                           *)
LEMMA InitPromptInv == Init => PromptInv
<1> SUFFICES ASSUME Init PROVE PromptInv
  OBVIOUS
<1>1. Stored = {}
  BY DEF Init, Stored, NoRow, Row
<1>2. LoopInv
  BY <1>1 DEF Init, LoopInv
<1>3. MessagesAreComplete /\ PromptsAreDue
  BY DEF Init, MessagesAreComplete, PromptsAreDue
<1> QED
  BY <1>2, <1>3, InitPayInv DEF PromptInv

(* Only a step of a request, and a restart, changes what a request knows.  *)
LEMMA RequestFrame ==
    ASSUME [Next]_vars
    PROVE  \/ UNCHANGED <<requestVars, saved>>
           \/ \E r \in Requests :
                \/ \E amount \in Amounts, mode \in Modes : Submit(r, amount, mode)
                \/ RequestStep(r) \/ FailRequest(r)
           \/ Crash
<1>1. ASSUME NEW c \in Consumers, ConsumerStep(c) \/ LoseMessage(c)
      PROVE  UNCHANGED <<requestVars, saved>>
  BY <1>1 DEF ConsumerStep, Take, Push, Record, LoseMessage, ledgerVars
<1>2. ASSUME NEW k \in Checkouts,
             \/ \E decision \in {"paid", "declined"} : Decide(k, decision)
             \/ \E h \in Handlers : Deliver(k, h) \/ Duplicate(k, h) \/ ServeStep(k, h)
      PROVE  UNCHANGED <<requestVars, saved>>
  BY <1>2 DEF Decide, Deliver, Duplicate, ServeStep, Lookup, Credit, Settle, ledgerVars
<1>3. Stop \/ UNCHANGED vars => UNCHANGED <<requestVars, saved>>
  BY DEF Stop, vars, ledgerVars
<1> QED
  BY <1>1, <1>2, <1>3 DEF Next

(* The row of a booked leg keeps its amount.                               *)
LEMMA AmountsStay ==
    ASSUME PromptInv, [Next]_vars, NEW t \in Stored
    PROVE  t \in Stored' /\ txn'[t].amount = txn[t].amount
<1>1. PayInv /\ LoopInv /\ txn \in [Txns -> TxnRows] /\ t \in Txns
  BY DEF PromptInv, PayInv, TypeOK, Stored
<1>2. t \in Stored'
  BY <1>1, StoredGrows
<1>3. ASSUME NEW r \in Requests, NEW acc \in hold[r]
      PROVE  t # <<r, acc.account>>
  <2>1. acc.account \in Accounts /\ plan[r][acc.account] > 0
    BY <1>1 DEF PayInv, TypeOK, Holds, LoopInv
  <2> QED  BY <1>1, <2>1 DEF LoopInv
<1>4. ASSUME NEW e \in Txns, NEW row \in TxnRows, Written(e, row)
      PROVE  txn'[t].amount = txn[t].amount
  BY <1>1, <1>3, <1>4 DEF Written
<1> QED
  BY <1>1, <1>2, <1>4, RowChange

(* A step of one request is no step of another.                            *)
LEMMA OthersWait ==
    ASSUME PromptInv, NEW q \in Requests, NEW r \in Requests, q # r,
           \/ \E amount \in Amounts, mode \in Modes : Submit(q, amount, mode)
           \/ RequestStep(q) \/ FailRequest(q)
    PROVE  /\ pc'[r] = pc[r] /\ ask'[r] = ask[r] /\ plan'[r] = plan[r]
           /\ hold'[r] = hold[r] /\ allocs'[r] = allocs[r]
           /\ \A a \in Accounts : <<r, a>> \in saved' => <<r, a>> \in saved
<1>1. TypeOK
  BY DEF PromptInv, PayInv
<1>2. CASE \E amount \in Amounts, mode \in Modes : Submit(q, amount, mode)
  BY <1>1, <1>2 DEF Submit, TypeOK, ledgerVars
<1>3. CASE SaveAccount(q)
  BY <1>1, <1>3 DEF SaveAccount, TypeOK
<1>4. CASE CreateTxn(q)
  <2>1. /\ pc' = [pc EXCEPT ![q] = "loop"] /\ hold' = [hold EXCEPT ![q] = {}]
        /\ UNCHANGED <<ask, saved>>
    BY <1>4 DEF CreateTxn, ledgerVars
  <2>2. PICK acc : /\ plan' = [plan EXCEPT ![q][acc.account] = 0]
                   /\ allocs' = [allocs EXCEPT ![q] = Append(@,
                        [txn |-> <<q, acc.account>>, amount |-> plan[q][acc.account]])]
    BY <1>4 DEF CreateTxn
  <2> QED  BY <1>1, <2>1, <2>2 DEF TypeOK
<1>5. CASE \/ \E a \in Accounts : ReadAccount(q, a)
           \/ RefuseTxn(q) \/ Publish(q) \/ EndLoop(q) \/ FailRequest(q)
  BY <1>1, <1>5 DEF ReadAccount, RefuseTxn, Publish, EndLoop, FailRequest, TypeOK, ledgerVars
<1>6. CASE MarkInstant(q)
  BY <1>1, <1>6 DEF MarkInstant, TypeOK, ledgerVars
<1> QED
  BY <1>2, <1>3, <1>4, <1>5, <1>6 DEF RequestStep

(* A request that is complete stays so.                                    *)
LEMMA CompleteStays ==
    ASSUME PromptInv, [Next]_vars, NEW r \in Requests, Complete(r)
    PROVE  Complete(r)'
<1>1. TypeOK /\ pc[r] = "done" /\ Stored \subseteq Stored'
  BY StoredGrows DEF PromptInv, PayInv, Complete
<1>2. CASE UNCHANGED <<requestVars, saved>>
  BY <1>1, <1>2 DEF Complete, requestVars
<1>3. ASSUME NEW q \in Requests,
             \/ \E amount \in Amounts, mode \in Modes : Submit(q, amount, mode)
             \/ RequestStep(q) \/ FailRequest(q)
      PROVE  Complete(r)'
  <2>1. q # r
    BY <1>1, <1>3 DEF Submit, RequestStep, ReadAccount, SaveAccount, CreateTxn, RefuseTxn, Publish,
                      EndLoop, MarkInstant, FailRequest
  <2> QED  BY <1>1, <1>3, <2>1, OthersWait DEF Complete
<1>4. CASE Crash
  BY <1>1, <1>4 DEF Crash, Complete, InFlight, TypeOK, ledgerVars
<1> QED
  BY <1>2, <1>3, <1>4, RequestFrame

(* No step but the creation of a row books a leg.                          *)
LEMMA OnlyCreateBooks ==
    ASSUME PromptInv, [Next]_vars, NEW t \in Stored', t \notin Stored
    PROVE  \E r \in Requests : CreateTxn(r) /\ \E acc \in hold[r] : t = <<r, acc.account>>
<1>1. PayInv /\ txn \in [Txns -> TxnRows] /\ t \in Txns
  BY DEF PromptInv, PayInv, TypeOK, Stored
<1>2. ASSUME NEW e \in Txns, NEW row \in TxnRows, Written(e, row), e # t
      PROVE  FALSE
  <2>1. txn'[t] = txn[t]
    BY <1>1, <1>2 DEF Written
  <2> QED  BY <1>1, <2>1 DEF Stored
<1>3. txn' # txn
  BY DEF Stored
<1>4. PICK row \in TxnRows : Written(t, row)
  BY <1>1, <1>2, <1>3, RowChange
<1> QED
  BY <1>4 DEF Written

(* LoopInv of one request.                                                 *)
LoopOf(r) ==
    /\ \A a \in Accounts : <<r, a>> \in Stored => pc[r] # "idle" /\ plan[r][a] = 0
    /\ hold[r] # {} => pc[r] \in {"save", "create"}
    /\ \A acc \in hold[r] : plan[r][acc.account] > 0
    /\ \A acc, other \in hold[r] : acc.account = other.account
    /\ \A a \in Accounts : <<r, a>> \in saved /\ <<r, a>> \notin Stored =>
          \/ pc[r] \in {"error", "lost"}
          \/ pc[r] = "create" /\ \A acc \in hold[r] : acc.account = a

(* The steps of a request itself.                                          *)
LEMMA OwnStepKeepsLoop ==
    ASSUME PromptInv, [Next]_vars, NEW r \in Requests,
           \/ \E amount \in Amounts, mode \in Modes : Submit(r, amount, mode)
           \/ RequestStep(r) \/ FailRequest(r)
    PROVE  LoopOf(r)'
<1>1. /\ TypeOK /\ Stored \subseteq Stored'
      /\ pc \in [Requests -> InFlight \cup {"idle", "done", "error", "lost"}]
      /\ plan \in [Requests -> [Accounts -> Nat]]
      /\ hold \in [Requests -> SUBSET Holds]
  BY StoredGrows DEF PromptInv, PayInv, TypeOK
<1>2. LoopOf(r)
  BY DEF PromptInv, LoopInv, LoopOf
<1>3. ~CreateTxn(r) => \A a \in Accounts : <<r, a>> \in Stored' => <<r, a>> \in Stored
  <2> SUFFICES ASSUME ~CreateTxn(r), NEW a \in Accounts, <<r, a>> \in Stored', <<r, a>> \notin Stored
               PROVE  FALSE
    OBVIOUS
  <2>1. PICK q \in Requests : CreateTxn(q) /\ \E acc \in hold[q] : <<r, a>> = <<q, acc.account>>
    BY OnlyCreateBooks
  <2> QED  BY <2>1
<1>4. ASSUME NEW amount \in Amounts, NEW mode \in Modes, Submit(r, amount, mode)
      PROVE  LoopOf(r)'
  <2>1. pc[r] = "idle" /\ UNCHANGED <<hold, saved, Stored>> /\ pc'[r] \in {"error", "loop"}
    BY <1>1, <1>4 DEF Submit, dbVars, ledgerVars, Stored
  <2> QED  BY <1>2, <2>1 DEF LoopOf
<1>5. ASSUME NEW a \in Accounts, ReadAccount(r, a)
      PROVE  LoopOf(r)'
  <2>1. /\ pc[r] = "loop" /\ plan[r][a] > 0 /\ pc'[r] = "save"
        /\ hold'[r] = {[account |-> a, row |-> balance[a]]}
        /\ UNCHANGED <<plan, saved, Stored>>
    BY <1>1, <1>5 DEF ReadAccount, dbVars, ledgerVars, Stored
  <2> QED  BY <1>2, <2>1 DEF LoopOf
<1>6. ASSUME SaveAccount(r)
      PROVE  LoopOf(r)'
  <2>1. PICK acc \in hold[r] : saved' = saved \cup {<<r, acc.account>>}
    BY <1>6 DEF SaveAccount
  <2>2. /\ pc[r] = "save" /\ pc'[r] = "create"
        /\ UNCHANGED <<plan, hold, Stored>>
    BY <1>1, <1>6 DEF SaveAccount, Stored
  <2>3. \A a \in Accounts : <<r, a>> \in saved' /\ <<r, a>> \notin Stored => a = acc.account
    BY <1>2, <2>1, <2>2 DEF LoopOf
  <2> QED  BY <1>2, <2>1, <2>2, <2>3 DEF LoopOf
<1>7. ASSUME CreateTxn(r)
      PROVE  LoopOf(r)'
  <2>1. PICK acc \in hold[r] :
          /\ txn' = [txn EXCEPT ![<<r, acc.account>>] = Row("success", plan[r][acc.account], {}, "")]
          /\ plan' = [plan EXCEPT ![r][acc.account] = 0]
    BY <1>7 DEF CreateTxn
  <2>2. acc.account \in Accounts
    <3>1. acc \in Holds
      BY <1>1, <2>1
    <3> QED  BY <3>1 DEF Holds
  <2>3. /\ pc[r] = "create" /\ pc'[r] = "loop" /\ hold'[r] = {} /\ saved' = saved
    BY <1>1, <1>7 DEF CreateTxn, ledgerVars
  <2>4. <<r, acc.account>> \in Stored' /\ \A a \in Accounts :
          a # acc.account => (<<r, a>> \in Stored' <=> <<r, a>> \in Stored)
    BY <2>1, <2>2 DEF PromptInv, PayInv, TypeOK, Stored, Txns, Row
  <2>5. plan'[r][acc.account] = 0 /\ \A a \in Accounts : a # acc.account => plan'[r][a] = plan[r][a]
    BY <1>1, <2>1, <2>2
  <2> QED  BY <1>2, <2>2, <2>3, <2>4, <2>5 DEF LoopOf
<1>8. ASSUME RefuseTxn(r) \/ FailRequest(r)
      PROVE  LoopOf(r)'
  <2>1. pc'[r] = "error" /\ hold'[r] = {} /\ UNCHANGED <<plan, saved, Stored>> /\ pc[r] # "idle"
    BY <1>1, <1>8 DEF RefuseTxn, FailRequest, dbVars, ledgerVars, Stored
  <2> QED  BY <1>2, <2>1 DEF LoopOf
<1>9. ASSUME Publish(r) \/ EndLoop(r)
      PROVE  LoopOf(r)'
  <2>1. /\ pc[r] = "loop" /\ pc'[r] \in {"done", "mark"}
        /\ UNCHANGED <<plan, hold, saved, Stored>>
    BY <1>1, <1>9 DEF Publish, EndLoop, dbVars, ledgerVars, Stored
  <2> QED  BY <1>2, <2>1 DEF LoopOf
<1>10. ASSUME MarkInstant(r)
       PROVE  LoopOf(r)'
  <2>1. /\ pc[r] = "mark" /\ pc'[r] \in {"mark", "done", "error"}
        /\ UNCHANGED <<plan, hold, saved>>
    BY <1>1, <1>10 DEF MarkInstant, ledgerVars
  <2>2. ~CreateTxn(r)
    BY <2>1 DEF CreateTxn
  <2> QED  BY <1>1, <1>2, <1>3, <2>1, <2>2 DEF LoopOf
<1> QED
  BY <1>4, <1>5, <1>6, <1>7, <1>8, <1>9, <1>10 DEF RequestStep

(* A step of another request, or of the consumers and the callbacks.       *)
LEMMA OtherStepKeepsLoop ==
    ASSUME PromptInv, [Next]_vars, NEW r \in Requests,
           pc'[r] = pc[r], plan'[r] = plan[r], hold'[r] = hold[r],
           \A a \in Accounts : <<r, a>> \in saved' => <<r, a>> \in saved
    PROVE  LoopOf(r)'
<1>1. Stored \subseteq Stored' /\ LoopOf(r)
  BY StoredGrows DEF PromptInv, LoopInv, LoopOf
<1>2. ~CreateTxn(r)
  BY DEF CreateTxn, PromptInv, PayInv, TypeOK
<1>3. \A a \in Accounts : <<r, a>> \in Stored' => <<r, a>> \in Stored
  <2> SUFFICES ASSUME NEW a \in Accounts, <<r, a>> \in Stored', <<r, a>> \notin Stored
               PROVE  FALSE
    OBVIOUS
  <2>1. PICK q \in Requests : CreateTxn(q) /\ \E acc \in hold[q] : <<r, a>> = <<q, acc.account>>
    BY OnlyCreateBooks
  <2> QED  BY <1>2, <2>1
<1> QED
  BY <1>1, <1>3 DEF LoopOf

(* Every step keeps it, of whichever request.                              *)
LEMMA NextLoopInv ==
    ASSUME PromptInv, [Next]_vars
    PROVE  LoopInv'
<1> SUFFICES ASSUME NEW r \in Requests PROVE LoopOf(r)'
  BY DEF LoopInv, LoopOf
<1>1. CASE UNCHANGED <<requestVars, saved>>
  BY <1>1, OtherStepKeepsLoop DEF requestVars
<1>2. ASSUME NEW q \in Requests,
             \/ \E amount \in Amounts, mode \in Modes : Submit(q, amount, mode)
             \/ RequestStep(q) \/ FailRequest(q)
      PROVE  LoopOf(r)'
  <2>1. CASE q = r
    BY <1>2, <2>1, OwnStepKeepsLoop
  <2>2. CASE q # r
    BY <1>2, <2>2, OthersWait, OtherStepKeepsLoop
  <2> QED  BY <2>1, <2>2
<1>3. CASE Crash
  <2>1. /\ pc'[r] = (IF pc[r] \in InFlight THEN "lost" ELSE pc[r]) /\ hold'[r] = {}
        /\ UNCHANGED <<plan, saved, Stored>>
    BY <1>3 DEF Crash, dbVars, ledgerVars, Stored
  <2>2. LoopOf(r)
    BY DEF PromptInv, LoopInv, LoopOf
  <2> QED  BY <2>1, <2>2 DEF LoopOf, InFlight
<1> QED
  BY <1>1, <1>2, <1>3, RequestFrame
-----------------------------------------------------------------------------
(* So the legs of a request, and of a message, stay what their rows say.   *)
LEMMA LegsStay ==
    ASSUME PromptInv, [Next]_vars
    PROVE  /\ \A r \in Requests : OwnLegs(r) \subseteq OwnLegs(r)'
           /\ MessageLegs \subseteq MessageLegs'
<1>1. ASSUME NEW r \in Requests, NEW leg \in OwnLegs(r) PROVE leg \in OwnLegs(r)'
  <2>1. leg \in Legs /\ leg.txn[1] = r /\ leg.txn \in Stored /\ txn[leg.txn].amount = leg.amount
    BY <1>1 DEF OwnLegs
  <2>2. leg.txn \in Stored' /\ txn'[leg.txn].amount = leg.amount
    BY <2>1, AmountsStay
  <2> QED  BY <2>1, <2>2 DEF OwnLegs
<1>2. ASSUME NEW leg \in MessageLegs PROVE leg \in MessageLegs'
  <2>1. leg \in Legs /\ leg \in OwnLegs(leg.txn[1]) /\ Complete(leg.txn[1])
    BY <1>2 DEF MessageLegs
  <2>2. leg.txn[1] \in Requests
    BY <2>1 DEF Legs, Txns
  <2>3. leg \in OwnLegs(leg.txn[1])' /\ Complete(leg.txn[1])'
    BY <1>1, <2>1, <2>2, CompleteStays
  <2> QED  BY <2>1, <2>3 DEF MessageLegs
<1> QED  BY <1>1, <1>2

(* Sequences over a larger set.                                            *)
LEMMA SeqOfMore ==
    ASSUME NEW S, NEW T, S \subseteq T
    PROVE  Seq(S) \subseteq Seq(T)
  OBVIOUS

(* A request keeps the legs it has booked, each with the amount of its     *)
(* row.                                                                    *)
LEMMA NextAllocs ==
    ASSUME PromptInv, [Next]_vars, NEW r \in Requests
    PROVE  allocs'[r] \in Seq(OwnLegs(r)')
<1>1. allocs[r] \in Seq(OwnLegs(r)) /\ allocs[r] \in Seq(OwnLegs(r)')
  BY LegsStay, SeqOfMore DEF PromptInv, MessagesAreComplete
<1>2. TypeOK /\ allocs \in [Requests -> Seq(Legs)]
  BY DEF PromptInv, PayInv, TypeOK
<1>3. CASE allocs'[r] = allocs[r]
  BY <1>1, <1>3
<1>4. ASSUME CreateTxn(r) PROVE allocs'[r] \in Seq(OwnLegs(r)')
  <2>1. PICK acc \in hold[r] :
          /\ txn' = [txn EXCEPT ![<<r, acc.account>>] = Row("success", plan[r][acc.account], {}, "")]
          /\ allocs' = [allocs EXCEPT ![r] =
               Append(@, [txn |-> <<r, acc.account>>, amount |-> plan[r][acc.account]])]
    BY <1>4 DEF CreateTxn
  <2>2. <<r, acc.account>> \in Txns /\ plan[r][acc.account] \in Nat
    <3>1. acc \in Holds /\ plan[r] \in [Accounts -> Nat]
      BY <1>2, <2>1 DEF TypeOK
    <3> QED  BY <3>1 DEF Holds, Txns
  <2>3. PICK leg \in Legs : leg = [txn |-> <<r, acc.account>>, amount |-> plan[r][acc.account]]
    BY <2>2 DEF Legs
  <2>4. leg.txn \in Txns /\ leg.txn[1] = r /\ leg.amount \in Nat
    BY <2>2, <2>3
  <2>5. txn' = [txn EXCEPT ![leg.txn] = Row("success", leg.amount, {}, "")]
    BY <2>1, <2>3
  <2>6. txn'[leg.txn].amount = leg.amount /\ leg.txn \in Stored'
    BY <1>2, <2>4, <2>5 DEF TypeOK, Stored, Row
  <2>7. leg \in OwnLegs(r)'
    BY <2>4, <2>6 DEF OwnLegs
  <2>8. allocs'[r] = Append(allocs[r], leg)
    BY <1>2, <2>1, <2>3
  <2> QED  BY <1>1, <2>7, <2>8
<1>5. ASSUME MarkInstant(r) PROVE allocs'[r] \in Seq(OwnLegs(r)')
  <2>1. allocs' = allocs \/ (allocs[r] # <<>> /\ allocs' = [allocs EXCEPT ![r] = Tail(@)])
    BY <1>5 DEF MarkInstant
  <2>2. allocs[r] # <<>> => Tail(allocs[r]) \in Seq(OwnLegs(r)')
    BY <1>1, HeadAndTail
  <2> QED  BY <1>1, <1>2, <2>1, <2>2
<1>6. ASSUME \/ \E amount \in Amounts, mode \in Modes : Submit(r, amount, mode)
             \/ \E a \in Accounts : ReadAccount(r, a)
             \/ SaveAccount(r) \/ RefuseTxn(r) \/ Publish(r) \/ EndLoop(r) \/ FailRequest(r)
      PROVE  allocs'[r] = allocs[r]
  BY <1>6 DEF Submit, ReadAccount, SaveAccount, RefuseTxn, Publish, EndLoop, FailRequest
<1>7. ASSUME NEW q \in Requests,
             \/ \E amount \in Amounts, mode \in Modes : Submit(q, amount, mode)
             \/ RequestStep(q) \/ FailRequest(q)
      PROVE  allocs'[r] \in Seq(OwnLegs(r)')
  <2>1. CASE q = r
    BY <1>3, <1>4, <1>5, <1>6, <1>7, <2>1 DEF RequestStep
  <2>2. CASE q # r
    BY <1>3, <1>7, <2>2, OthersWait
  <2> QED  BY <2>1, <2>2
<1>8. UNCHANGED <<requestVars, saved>> \/ Crash => allocs' = allocs
  BY DEF requestVars, Crash
<1> QED
  BY <1>3, <1>7, <1>8, RequestFrame

(* What is published is complete: the loop is over, and what it saved it   *)
(* has booked.                                                             *)
LEMMA PublishedLegs ==
    ASSUME PromptInv, [Next]_vars, NEW r \in Requests, Publish(r)
    PROVE  allocs[r] \in Seq(MessageLegs')
<1>1. /\ pc[r] = "loop" /\ IsPushed(r) /\ \A a \in Accounts : plan[r][a] = 0
      /\ pc' = [pc EXCEPT ![r] = "done"] /\ UNCHANGED <<ask, plan, saved, Stored>>
  BY DEF Publish, dbVars, ledgerVars, Stored
<1>2. Complete(r)'
  BY <1>1 DEF PromptInv, PayInv, TypeOK, LoopInv, Complete, IsPushed
<1>3. OwnLegs(r) \subseteq MessageLegs'
  <2> SUFFICES ASSUME NEW leg \in OwnLegs(r) PROVE leg \in MessageLegs'
    OBVIOUS
  <2>1. leg \in OwnLegs(r)' /\ leg \in Legs /\ leg.txn[1] = r
    BY LegsStay DEF OwnLegs
  <2> QED  BY <1>2, <2>1 DEF MessageLegs
<1>4. allocs[r] \in Seq(OwnLegs(r))
  BY DEF PromptInv, MessagesAreComplete
<1> QED
  BY <1>3, <1>4, SeqOfMore

(* A message carries legs of one complete request, until it is handled.    *)
LEMMA NextMessagesAreComplete ==
    ASSUME PromptInv, [Next]_vars
    PROVE  MessagesAreComplete'
<1>1. /\ inbox \in [Consumers -> Seq(Seq(MessageLegs))] /\ work \in [Consumers -> Seq(MessageLegs)]
      /\ inbox \in [Consumers -> Seq(Seq(MessageLegs'))] /\ work \in [Consumers -> Seq(MessageLegs')]
  <2>1. /\ Seq(MessageLegs) \subseteq Seq(MessageLegs')
        /\ Seq(Seq(MessageLegs)) \subseteq Seq(Seq(MessageLegs'))
    BY LegsStay, SeqOfMore
  <2> QED  BY <2>1 DEF PromptInv, MessagesAreComplete
<1> SUFFICES /\ inbox' \in [Consumers -> Seq(Seq(MessageLegs'))]
             /\ work' \in [Consumers -> Seq(MessageLegs')]
  BY NextAllocs DEF MessagesAreComplete
<1>2. ASSUME NEW r \in Requests, Publish(r)
      PROVE  /\ inbox' \in [Consumers -> Seq(Seq(MessageLegs'))]
             /\ work' \in [Consumers -> Seq(MessageLegs')]
  <2>1. \A c \in Consumers : Append(inbox[c], allocs[r]) \in Seq(Seq(MessageLegs'))
    BY <1>1, <1>2, PublishedLegs
  <2> QED  BY <1>1, <1>2, <2>1 DEF Publish
<1>3. ASSUME NEW c \in Consumers, Take(c) \/ LoseMessage(c)
      PROVE  /\ inbox' \in [Consumers -> Seq(Seq(MessageLegs'))]
             /\ work' \in [Consumers -> Seq(MessageLegs')]
  <2>1. Head(inbox[c]) \in Seq(MessageLegs') /\ Tail(inbox[c]) \in Seq(Seq(MessageLegs'))
    <3>1. inbox[c] # <<>> /\ inbox[c] \in Seq(Seq(MessageLegs'))
      BY <1>1, <1>3 DEF Take, LoseMessage
    <3> QED  BY <3>1, HeadAndTail
  <2> QED  BY <1>1, <1>3, <2>1 DEF Take, LoseMessage
<1>4. ASSUME NEW c \in Consumers, Record(c)
      PROVE  /\ inbox' \in [Consumers -> Seq(Seq(MessageLegs'))]
             /\ work' \in [Consumers -> Seq(MessageLegs')]
  <2>1. Tail(work[c]) \in Seq(MessageLegs')
    BY <1>1, <1>4, HeadAndTail DEF Record
  <2> QED  BY <1>1, <1>4, <2>1 DEF Record
<1>5. CASE Stop \/ Crash
  <2>1. inbox' = [c \in Consumers |-> <<>>] /\ work' = [c \in Consumers |-> <<>>]
    BY <1>5 DEF Stop, Crash
  <2> QED  BY <2>1
<1>6. CASE UNCHANGED <<inbox, work>>
  BY <1>1, <1>6
<1>7. ASSUME NEW r \in Requests,
             \/ \E amount \in Amounts, mode \in Modes : Submit(r, amount, mode)
             \/ \E a \in Accounts : ReadAccount(r, a)
             \/ SaveAccount(r) \/ CreateTxn(r) \/ RefuseTxn(r) \/ EndLoop(r) \/ MarkInstant(r)
             \/ FailRequest(r)
      PROVE  UNCHANGED <<inbox, work>>
  BY <1>7 DEF Submit, ReadAccount, SaveAccount, CreateTxn, RefuseTxn, EndLoop, MarkInstant,
              FailRequest, consumerVars
<1>8. ASSUME NEW c \in Consumers, Push(c) PROVE UNCHANGED <<inbox, work>>
  BY <1>8 DEF Push
<1>9. ASSUME NEW k \in Checkouts,
             \/ \E decision \in {"paid", "declined"} : Decide(k, decision)
             \/ \E h \in Handlers : Deliver(k, h) \/ Duplicate(k, h) \/ ServeStep(k, h)
      PROVE  UNCHANGED <<inbox, work>>
  BY <1>9 DEF Decide, Deliver, Duplicate, ServeStep, Lookup, Credit, Settle, consumerVars
<1>10. UNCHANGED vars => UNCHANGED <<inbox, work>>
  BY DEF vars, consumerVars
<1> QED
  BY <1>2, <1>3, <1>4, <1>5, <1>6, <1>7, <1>8, <1>9, <1>10 DEF Next, RequestStep, ConsumerStep

(* A step that opens no prompt leaves the prompts due.                     *)
LEMMA OldPromptsAreDue ==
    ASSUME PromptInv, [Next]_vars, NEW k \in Checkouts, checkout[k] # "none", asked'[k] = asked[k]
    PROVE  Complete(k[1][1])' /\ k[1] \in Stored' /\ AsksFor(k, txn[k[1]].amount)'
<1>1. k[1] \in Stored /\ k[1][1] \in Requests /\ Complete(k[1][1]) /\ AsksFor(k, txn[k[1]].amount)
  BY DEF PromptInv, PromptsAreDue, Checkouts, Txns
<1>2. k[1] \in Stored' /\ txn'[k[1]].amount = txn[k[1]].amount
  BY <1>1, AmountsStay
<1> QED
  BY <1>1, <1>2, CompleteStays DEF AsksFor

(* A push asks for the leg it is at, in whole shillings.                   *)
LEMMA NextPromptsAreDue ==
    ASSUME PromptInv, [Next]_vars
    PROVE  PromptsAreDue'
<1> SUFFICES ASSUME NEW k \in Checkouts, checkout'[k] # "none"
             PROVE  Complete(k[1][1])' /\ k[1] \in Stored' /\ AsksFor(k, txn[k[1]].amount)'
  BY DEF PromptsAreDue
<1>0. TypeOK
  BY DEF PromptInv, PayInv
<1>1. CASE checkout[k] # "none" /\ asked'[k] = asked[k]
  BY <1>1, OldPromptsAreDue
<1>2. CASE UNCHANGED <<checkout, asked>>
  BY <1>1, <1>2
<1>3. ASSUME NEW c \in Consumers, Push(c)
      PROVE  Complete(k[1][1])' /\ k[1] \in Stored' /\ AsksFor(k, txn[k[1]].amount)'
  <2> DEFINE leg == Head(work[c])
             e == CheckoutOf(leg.txn, c)
  <2>1. leg \in MessageLegs
    <3>1. work[c] # <<>> /\ work[c] \in Seq(MessageLegs)
      BY <1>3 DEF Push, PromptInv, MessagesAreComplete
    <3> QED  BY <3>1, HeadAndTail
  <2>2. e[1] = leg.txn
    BY DEF CheckoutOf
  <2>3. \/ UNCHANGED <<checkout, asked>>
        \/ /\ checkout[e] = "none"
           /\ checkout' = [checkout EXCEPT ![e] = "open"]
           /\ asked' = [asked EXCEPT ![e] = leg.amount \div 100]
    BY <1>3 DEF Push, CentsPerKES
  <2>4. txn' = txn
    BY <1>3 DEF Push, dbVars
  <2> HIDE DEF leg, e
  <2>5. CASE k # e
    BY <1>0, <1>1, <1>2, <2>3, <2>5 DEF TypeOK
  <2>6. CASE k = e /\ asked' = [asked EXCEPT ![e] = leg.amount \div 100]
    <3>1. asked'[k] = leg.amount \div 100
      BY <1>0, <2>6 DEF TypeOK
    <3>2. /\ leg.amount \in Nat /\ leg.txn \in Stored /\ txn[leg.txn].amount = leg.amount
          /\ leg.txn[1] \in Requests /\ Complete(leg.txn[1])
      BY <2>1 DEF MessageLegs, OwnLegs, Legs, Txns
    <3>3. AsksFor(k, txn[k[1]].amount)'
      BY <2>2, <2>4, <2>6, <3>1, <3>2 DEF AsksFor
    <3>4. Complete(k[1][1])' /\ k[1] \in Stored'
      BY <2>2, <2>4, <2>6, <3>2, CompleteStays DEF Stored
    <3> QED  BY <3>3, <3>4
  <2> QED  BY <1>2, <2>3, <2>5, <2>6
<1>4. ASSUME NEW e \in Checkouts, NEW decision \in {"paid", "declined"}, Decide(e, decision)
      PROVE  checkout[k] # "none" /\ asked'[k] = asked[k]
  BY <1>0, <1>4 DEF Decide, TypeOK
<1>5. ASSUME NEW r \in Requests,
             \/ \E amount \in Amounts, mode \in Modes : Submit(r, amount, mode)
             \/ RequestStep(r) \/ FailRequest(r)
      PROVE  UNCHANGED <<checkout, asked>>
  BY <1>5 DEF Submit, RequestStep, ReadAccount, SaveAccount, CreateTxn, RefuseTxn, Publish, EndLoop,
              MarkInstant, FailRequest, gatewayVars
<1>6. ASSUME NEW c \in Consumers, Take(c) \/ LoseMessage(c) \/ Record(c)
      PROVE  UNCHANGED <<checkout, asked>>
  BY <1>6 DEF Take, LoseMessage, Record, gatewayVars
<1>7. ASSUME NEW e \in Checkouts, NEW h \in Handlers,
             Deliver(e, h) \/ Duplicate(e, h) \/ ServeStep(e, h)
      PROVE  UNCHANGED <<checkout, asked>>
  BY <1>7 DEF Deliver, Duplicate, ServeStep, Lookup, Credit, Settle, gatewayVars
<1>8. Stop \/ Crash \/ UNCHANGED vars => UNCHANGED <<checkout, asked>>
  BY DEF Stop, Crash, vars, gatewayVars
<1> QED
  BY <1>1, <1>2, <1>3, <1>4, <1>5, <1>6, <1>7, <1>8 DEF Next, ConsumerStep

(* The invariant that both theorems rest on.                               *)
LEMMA PromptInvariant == Spec => []PromptInv
<1>1. PromptInv /\ [Next]_vars => PromptInv'
  <2> SUFFICES ASSUME PromptInv, [Next]_vars PROVE PromptInv'
    OBVIOUS
  <2>1. PayInv'
    BY NextTypeOK, NextLegsAreBooked, NextRefsAreOwn, NextCallbacksAreOwn DEF PromptInv, PayInv
  <2> QED
    BY <2>1, NextLoopInv, NextMessagesAreComplete, NextPromptsAreDue DEF PromptInv
<1> QED
  BY InitPromptInv, <1>1, PTL DEF Spec
-----------------------------------------------------------------------------
(* A prompt belongs to a real request, its leg was booked before, and it   *)
(* asks for the amount of the row in whole shillings, whatever the         *)
(* consumers and callbacks have written to the row meanwhile.              *)
THEOREM PromptsHaveRows == Spec => []PromptsAreBooked
<1>1. PromptInv => PromptsAreBooked
  BY DEF PromptInv, PromptsAreDue, PromptsAreBooked, Complete, AsksFor, Stored
<1> QED
  BY PromptInvariant, <1>1, PTL

(* A customer is prompted for whole requests only: one that was refused,   *)
(* failed or interrupted after its first legs were saved prompts nobody.   *)
THEOREM PromptsAreWhole == Spec => []PromptsAreComplete
<1>1. PromptInv => PromptsAreComplete
  <2> SUFFICES ASSUME PromptInv, NEW k \in Checkouts, checkout[k] # "none", NEW a \in Accounts
               PROVE  /\ plan[k[1][1]][a] = 0
                      /\ <<k[1][1], a>> \in saved => txn[<<k[1][1], a>>].status # "none"
    BY DEF PromptsAreComplete
  <2> QED  BY DEF PromptInv, PromptsAreDue, Complete, Stored
<1> QED
  BY PromptInvariant, <1>1, PTL
-----------------------------------------------------------------------------
(* The four ways a row changes, and what becomes of the record of its      *)
(* pushes.                                                                 *)
Kept(t) == txn'[t] = txn[t] /\ recorders'[t] = recorders[t]

Born(t) ==
    /\ t \notin Stored /\ \E r \in Requests : t[1] = r /\ CreateTxn(r)
    /\ txn'[t].status = "success" /\ txn'[t].final = "" /\ txn'[t].ref = {}
    /\ recorders'[t] = recorders[t]

Marked(t) ==
    /\ t \in Stored /\ \E r \in Requests : t[1] = r /\ MarkInstant(r)
    /\ txn'[t] = Row("success", txn[t].amount, txn[t].ref, "instant_credited")
    /\ recorders'[t] = recorders[t]

Recorded(t) ==
    \E c \in Consumers : \E got \in answer[c] :
        /\ Record(c) /\ t = Head(work[c]).txn
        /\ txn'[t] = Row(got.status, txn[t].amount, got.ref, "")
        /\ recorders'[t] = recorders[t] \cup {c}

Settled(t) ==
    \E k \in Checkouts, h \in Handlers :
        /\ Settle(k, h) /\ t \in cb[<<k, h>>].txn /\ recorders'[t] = recorders[t]
        /\ \/ /\ cb[<<k, h>>].stage = "fail"
              /\ txn'[t] = Row("failed", txn[t].amount, txn[t].ref, txn[t].final)
           \/ /\ cb[<<k, h>>].stage = "settle"
              /\ txn'[t] = Row("success", txn[t].amount, {}, "credited")

LEMMA RowSteps ==
    ASSUME PromptInv, [Next]_vars, NEW t \in Txns
    PROVE  Kept(t) \/ Born(t) \/ Marked(t) \/ Recorded(t) \/ Settled(t)
<1>1. TypeOK /\ txn \in [Txns -> TxnRows] /\ PayInv /\ LoopInv
  BY DEF PromptInv, PayInv, TypeOK
<1>2. ASSUME NEW r \in Requests, CreateTxn(r), txn'[t] # txn[t] PROVE Born(t)
  <2>1. PICK acc \in hold[r] :
          txn' = [txn EXCEPT ![<<r, acc.account>>] = Row("success", plan[r][acc.account], {}, "")]
    BY <1>2 DEF CreateTxn
  <2>2. PICK a \in Accounts : a = acc.account
    <3>1. acc \in Holds
      BY <1>1, <2>1 DEF TypeOK
    <3> QED  BY <3>1 DEF Holds
  <2>3. <<r, a>> \notin Stored
    <3>1. plan[r][a] > 0
      BY <1>1, <2>1, <2>2 DEF LoopInv
    <3>2. <<r, a>> \in Stored => plan[r][a] = 0
      BY <1>1 DEF LoopInv
    <3> QED  BY <3>1, <3>2
  <2>4. t = <<r, a>> /\ t[1] = r
    <3>1. t = <<r, a>>
      BY <1>1, <1>2, <2>1, <2>2
    <3> QED  BY <3>1
  <2>5. PICK n : txn'[t] = Row("success", n, {}, "")
    BY <1>1, <2>1, <2>2, <2>4
  <2>6. t \notin Stored
    BY <2>3, <2>4
  <2>7. txn'[t].status = "success" /\ txn'[t].final = "" /\ txn'[t].ref = {}
    <3> DEFINE row == Row("success", n, {}, "")
    <3>1. txn'[t].status = row.status /\ txn'[t].final = row.final /\ txn'[t].ref = row.ref
      BY <2>5
    <3> QED  BY <3>1 DEF Row
  <2>8. recorders' = recorders
    BY <1>2 DEF CreateTxn, ledgerVars
  <2> QED  BY <1>2, <2>4, <2>6, <2>7, <2>8 DEF Born
<1>3. ASSUME NEW r \in Requests, MarkInstant(r), txn'[t] # txn[t] PROVE Marked(t)
  <2>1. allocs[r] # <<>> /\ txn' = [txn EXCEPT ![Head(allocs[r]).txn] =
                                      Row("success", @.amount, @.ref, "instant_credited")]
    BY <1>3 DEF MarkInstant
  <2>2. Head(allocs[r]) \in OwnLegs(r)
    BY <2>1, HeadAndTail DEF PromptInv, MessagesAreComplete
  <2>3. t = Head(allocs[r]).txn
    BY <1>1, <1>3, <2>1
  <2>4. t[1] = r /\ t \in Stored
    BY <2>2, <2>3 DEF OwnLegs
  <2>5. recorders' = recorders
    BY <1>3 DEF MarkInstant, ledgerVars
  <2> QED  BY <1>1, <1>3, <2>1, <2>3, <2>4, <2>5 DEF Marked
<1>4. ASSUME NEW c \in Consumers, Record(c) PROVE Kept(t) \/ Recorded(t)
  <2>1. CASE UNCHANGED <<txn, recorders>>
    BY <2>1 DEF Kept
  <2>2. ASSUME NEW got \in answer[c],
               txn' = [txn EXCEPT ![Head(work[c]).txn] = Row(got.status, @.amount, got.ref, "")],
               recorders' = [recorders EXCEPT ![Head(work[c]).txn] = @ \cup {c}]
        PROVE  Kept(t) \/ Recorded(t)
    <3>1. recorders \in [Txns -> SUBSET Consumers]
      BY <1>1 DEF TypeOK
    <3>2. CASE t = Head(work[c]).txn
      <4>1. txn'[t] = Row(got.status, txn[t].amount, got.ref, "")
        BY <1>1, <2>2, <3>2
      <4>2. recorders'[t] = recorders[t] \cup {c}
        BY <2>2, <3>1, <3>2
      <4> QED  BY <1>4, <3>2, <4>1, <4>2 DEF Recorded
    <3>3. CASE t # Head(work[c]).txn
      BY <1>1, <2>2, <3>1, <3>3 DEF Kept
    <3> QED  BY <3>2, <3>3
  <2> QED  BY <1>4, <2>1, <2>2 DEF Record
<1>5. ASSUME NEW k \in Checkouts, NEW h \in Handlers, Settle(k, h), txn'[t] # txn[t]
      PROVE  Settled(t)
  <2>1. PICK e \in cb[<<k, h>>].txn :
          txn' = IF cb[<<k, h>>].stage = "fail"
                 THEN [txn EXCEPT ![e] = Row("failed", @.amount, @.ref, @.final)]
                 ELSE [txn EXCEPT ![e] = Row("success", @.amount, {}, "credited")]
    BY <1>5 DEF Settle
  <2>2. t = e /\ cb[<<k, h>>].stage \in {"fail", "settle"}
    BY <1>1, <1>5, <2>1 DEF Settle
  <2>3. recorders' = recorders
    BY <1>5 DEF Settle, ledgerVars
  <2> QED  BY <1>1, <1>5, <2>1, <2>2, <2>3 DEF Settled
<1>6. ASSUME NEW r \in Requests,
             \/ \E amount \in Amounts, mode \in Modes : Submit(r, amount, mode)
             \/ \E a \in Accounts : ReadAccount(r, a)
             \/ SaveAccount(r) \/ RefuseTxn(r) \/ Publish(r) \/ EndLoop(r) \/ FailRequest(r)
      PROVE  UNCHANGED <<txn, recorders>>
  BY <1>6 DEF Submit, ReadAccount, SaveAccount, RefuseTxn, Publish, EndLoop, FailRequest, dbVars, ledgerVars
<1>7. ASSUME NEW c \in Consumers, Take(c) \/ Push(c) \/ LoseMessage(c)
      PROVE  UNCHANGED <<txn, recorders>>
  BY <1>7 DEF Take, Push, LoseMessage, dbVars, ledgerVars
<1>8. ASSUME NEW k \in Checkouts,
             \/ \E decision \in {"paid", "declined"} : Decide(k, decision)
             \/ \E h \in Handlers : Deliver(k, h) \/ Duplicate(k, h) \/ Lookup(k, h) \/ Credit(k, h)
      PROVE  UNCHANGED <<txn, recorders>>
  BY <1>8 DEF Decide, Deliver, Duplicate, Lookup, Credit, dbVars, ledgerVars
<1>9. Stop \/ Crash \/ UNCHANGED vars => UNCHANGED <<txn, recorders>>
  BY DEF Stop, Crash, vars, dbVars, ledgerVars
<1>10. ASSUME \/ \E r \in Requests : CreateTxn(r) \/ MarkInstant(r)
              \/ \E k \in Checkouts, h \in Handlers : Settle(k, h)
       PROVE  recorders' = recorders
  BY <1>10 DEF CreateTxn, MarkInstant, Settle, ledgerVars
<1> QED
  BY <1>2, <1>3, <1>4, <1>5, <1>6, <1>7, <1>8, <1>9, <1>10
  DEF Kept, Next, RequestStep, ConsumerStep, ServeStep

(* A decision is final.                                                    *)
LEMMA DecisionsStay ==
    ASSUME TypeOK, [Next]_vars, NEW k \in Checkouts, checkout[k] \in {"paid", "declined"}
    PROVE  checkout'[k] = checkout[k]
<1>1. ASSUME NEW c \in Consumers, Push(c) PROVE checkout'[k] = checkout[k]
  <2> DEFINE e == CheckoutOf(Head(work[c]).txn, c)
  <2>1. \/ checkout' = checkout
        \/ checkout[e] = "none" /\ checkout' = [checkout EXCEPT ![e] = "open"]
    BY <1>1 DEF Push
  <2> HIDE DEF e
  <2> QED  BY <2>1 DEF TypeOK
<1>2. ASSUME NEW e \in Checkouts, NEW decision \in {"paid", "declined"}, Decide(e, decision)
      PROVE  checkout'[k] = checkout[k]
  BY <1>2 DEF Decide, TypeOK
<1> QED
  BY <1>1, <1>2 DEF Next, RequestStep, ConsumerStep, ServeStep, vars, gatewayVars, Submit,
     ReadAccount, SaveAccount, CreateTxn, RefuseTxn, Publish, EndLoop, MarkInstant, FailRequest,
     Take, LoseMessage, Record, Deliver, Duplicate, Lookup, Credit, Settle, Stop, Crash

-----------------------------------------------------------------------------
(* The split of a request.                                                 *)

(* A leg that is not booked has no amount yet, and a request that was not  *)
(* submitted plans nothing.                                                *)
UnbookedIsFree == \A t \in Txns : t \notin Stored => txn[t].amount = 0

IdleIsFree == \A r \in Requests : pc[r] = "idle" => \A a \in Accounts : plan[r][a] = 0

SplitInv == PromptInv /\ UnbookedIsFree /\ IdleIsFree /\ SplitWithinRequest

(* What is booked on the legs of a request and still planned for them.     *)
Spread(r) == [a \in Accounts |-> txn[<<r, a>>].amount + plan[r][a]]

(* What SplitWithinRequest says of the legs of one request, of the parts   *)
(* it was split by, and of its amount.                                     *)
Shares(part) == [a \in Accounts |-> Share(part[a], SumFunction(part))]

Within(legs, part, amount) ==
    /\ SumFunction(legs) # 0 => SumFunction(part) # 0
    /\ SumFunction(legs) * Magnitude(SumFunction(part)) <= amount * SumFunction(Shares(part))
    /\ (\A a \in Accounts : part[a] * SumFunction(part) >= 0) => SumFunction(legs) <= amount

LEMMA SplitWithinMeans ==
    SplitWithinRequest <=> \A r \in Requests : Within(Spread(r), basis[r], ask[r].amount)
  BY DEF SplitWithinRequest, Within, Shares, Spread

LEMMA SpreadType ==
    ASSUME TypeOK, NEW r \in Requests
    PROVE  \A a \in Accounts : /\ txn[<<r, a>>].amount \in Nat /\ plan[r][a] \in Nat
                               /\ Spread(r)[a] = txn[<<r, a>>].amount + plan[r][a]
  BY DEF TypeOK, Txns, TxnRows, Spread

(* The sums that are compared are numbers.                                 *)
LEMMA SharesType ==
    ASSUME IsFiniteSet(Accounts), NEW part \in [Accounts -> Int]
    PROVE  /\ SumFunction(part) \in Int
           /\ Magnitude(SumFunction(part)) \in Nat
           /\ Shares(part) \in [Accounts -> Nat]
           /\ SumFunction(Shares(part)) \in Nat
<1>1. SumFunction(part) \in Int
  BY SumIsInt DEF SumFunction
<1>2. PICK pot \in Int : pot = SumFunction(part)
  BY <1>1
<1>3. \A a \in Accounts : Share(part[a], pot) \in Nat
  BY ShareType
<1>4. Magnitude(pot) \in Nat
  BY ShareType
<1>5. Shares(part) = [a \in Accounts |-> Share(part[a], pot)]
  BY <1>2 DEF Shares
<1>6. Shares(part) \in [Accounts -> Nat]
  BY <1>3, <1>5
<1>7. SumFunctionOnSet(Shares(part), Accounts) \in Nat
  BY <1>6, SumIsNat
<1> QED  BY <1>1, <1>2, <1>4, <1>6, <1>7 DEF SumFunction

(* Legs that are nothing are within any amount.                            *)
LEMMA NothingIsWithin ==
    ASSUME IsFiniteSet(Accounts), NEW amount \in Nat, NEW part \in [Accounts -> Int],
           NEW legs, DOMAIN legs = Accounts, \A a \in Accounts : legs[a] = 0
    PROVE  Within(legs, part, amount)
<1>1. SumFunction(legs) = 0
  BY SumZero DEF SumFunction
<1>2. PICK size \in Nat, total \in Nat :
        size = Magnitude(SumFunction(part)) /\ total = SumFunction(Shares(part))
  BY SharesType
<1>3. amount * total \in Nat /\ 0 * size = 0
  OBVIOUS
<1> QED  BY <1>1, <1>2, <1>3 DEF Within

(* Legs that are each within their share are within the shares, and within *)
(* the amount when the parts are of one sign.                              *)
LEMMA LegsAreWithin ==
    ASSUME IsFiniteSet(Accounts), NEW amount \in Nat, NEW part \in [Accounts -> Int],
           NEW legs \in [Accounts -> Nat], NEW pot \in Int \ {0}, SumFunction(part) = pot,
           \A a \in Accounts : Magnitude(pot) * legs[a] <= amount * Share(part[a], pot)
    PROVE  Within(legs, part, amount)
<1>1. PICK size \in Nat : size = Magnitude(pot) /\ size > 0
  BY ShareType
<1>2. PICK share \in [Accounts -> Nat] :
        share = Shares(part) /\ \A a \in Accounts : share[a] = Share(part[a], pot)
  BY SharesType DEF Shares
<1>3. size * SumFunctionOnSet(legs, Accounts) <= amount * SumFunctionOnSet(share, Accounts)
  BY <1>1, <1>2, SplitIsWithinShares
<1>4. PICK sum \in Nat, total \in Nat :
        sum = SumFunctionOnSet(legs, Accounts) /\ total = SumFunctionOnSet(share, Accounts)
  BY SumIsNat
<1>5. sum * size <= amount * total
  BY <1>3, <1>4
<1>6. ASSUME \A a \in Accounts : part[a] * pot >= 0 PROVE sum <= amount
  <2>1. SumFunctionOnSet(part, Accounts) = pot
    BY DEF SumFunction
  <2>2. total = size
    BY <1>1, <1>2, <1>4, <1>6, <2>1, SharesOfOneSign
  <2> QED  BY <1>1, <1>5, <2>2
<1>7. SumFunction(legs) = sum /\ SumFunction(Shares(part)) = total
  BY <1>2, <1>4 DEF SumFunction
<1> QED  BY <1>1, <1>5, <1>6, <1>7 DEF Within

LEMMA InitSplitInv == Init => SplitInv
<1> SUFFICES ASSUME Init PROVE SplitInv
  OBVIOUS
<1>1. UnbookedIsFree /\ IdleIsFree
  BY DEF Init, UnbookedIsFree, IdleIsFree, NoRow, Row
<1>2. ASSUME NEW r \in Requests PROVE Within(Spread(r), basis[r], ask[r].amount)
  <2>1. ASSUME NEW a \in Accounts PROVE Spread(r)[a] = 0
    <3>1. <<r, a>> \in Txns /\ plan[r][a] = 0
      BY DEF Txns, Init
    <3>2. txn[<<r, a>>].amount = 0
      BY <3>1 DEF Init, NoRow, Row
    <3> QED  BY <3>1, <3>2 DEF Spread
  <2>2. /\ DOMAIN Spread(r) = Accounts /\ IsFiniteSet(Accounts) /\ ask[r].amount \in Nat
        /\ basis[r] \in [Accounts -> Int]
    BY StkDepositAssumption DEF Spread, StkDepositAssumption, Init
  <2> QED  BY <2>1, <2>2, NothingIsWithin
<1> QED
  BY <1>1, <1>2, InitPromptInv, SplitWithinMeans DEF SplitInv

(* A row that is not booked keeps no amount.                               *)
LEMMA NextUnbookedIsFree ==
    ASSUME SplitInv, [Next]_vars
    PROVE  UnbookedIsFree'
<1>1. PayInv /\ UnbookedIsFree /\ txn \in [Txns -> TxnRows]
  BY DEF SplitInv, PromptInv, PayInv, TypeOK
<1> SUFFICES ASSUME NEW t \in Txns, t \notin Stored' PROVE txn'[t].amount = 0
  BY DEF UnbookedIsFree
<1>2. t \notin Stored
  BY <1>1, StoredGrows
<1>3. ASSUME NEW e \in Txns, NEW row \in TxnRows, Written(e, row)
      PROVE  txn'[t] = txn[t]
  BY <1>1, <1>3 DEF Written, Stored
<1> QED
  BY <1>1, <1>2, <1>3, RowChange DEF UnbookedIsFree

(* Submitting a request splits it within its shares: a leg is the floor of *)
(* its share of the pot, or of an even share when the pot is empty.        *)
LEMMA SubmitSplits ==
    ASSUME SplitInv, NEW r \in Requests, NEW amount \in Amounts, NEW mode \in Modes,
           Submit(r, amount, mode)
    PROVE  Within(Spread(r)', basis'[r], ask'[r].amount)
<1>1. TypeOK /\ IsFiniteSet(Accounts) /\ Accounts # {} /\ amount \in Nat
  BY StkDepositAssumption DEF SplitInv, PromptInv, PayInv, StkDepositAssumption
<1>2. pc[r] = "idle" /\ txn' = txn /\ ask'[r].amount = amount
  BY <1>1 DEF Submit, dbVars, TypeOK
<1>3. \A a \in Accounts : <<r, a>> \in Txns /\ txn[<<r, a>>].amount = 0 /\ plan[r][a] = 0
  BY <1>2 DEF SplitInv, PromptInv, LoopInv, UnbookedIsFree, IdleIsFree, Txns
<1> PICK leg : leg = Spread(r)'
  OBVIOUS
<1>4. /\ leg = [a \in Accounts |-> leg[a]]
      /\ \A a \in Accounts : plan'[r][a] \in Nat => leg[a] = plan'[r][a]
  <2>1. leg = [a \in Accounts |-> txn[<<r, a>>].amount + plan'[r][a]]
    BY <1>2 DEF Spread
  <2> QED  BY <1>3, <2>1
<1> PICK kind \in Kinds : kind = IF mode.isReal THEN "real" ELSE "fake"
  BY DEF Kinds
<1> PICK part : part = [a \in Accounts |-> balance[a][kind]]
  OBVIOUS
<1> PICK pot : pot = SumFunctionOnSet(part, Accounts)
  OBVIOUS
<1>5. part \in [Accounts -> Int] /\ TotalPot(kind) = pot /\ pot \in Int
  <2>1. part \in [Accounts -> Int]
    BY <1>1 DEF TypeOK, Balances
  <2>2. TotalPot(kind) = SumFunction(part)
    BY DEF TotalPot
  <2> QED  BY <1>1, <2>1, <2>2, SumIsInt DEF SumFunction
<1> PICK share : share = [a \in Accounts |-> IF pot = 0 THEN 1 ELSE part[a]]
  OBVIOUS
<1> PICK whole : whole = IF pot = 0 THEN Cardinality(Accounts) ELSE pot
  OBVIOUS
<1>6. /\ share \in [Accounts -> Int] /\ whole \in Int \ {0}
      /\ SumFunctionOnSet(share, Accounts) = whole
  <2>1. CASE pot = 0
    <3>1. Cardinality(Accounts) \in Nat \ {0}
      BY <1>1, FS_CardinalityType, FS_EmptySet
    <3>2. \A a \in Accounts : share[a] = 1
      BY <2>1
    <3>3. SumFunctionOnSet(share, Accounts) = Cardinality(Accounts)
      BY <1>1, <3>2, SumOfOnes
    <3>4. share = [a \in Accounts |-> 1] /\ whole = Cardinality(Accounts)
      BY <2>1
    <3> QED  BY <3>1, <3>3, <3>4
  <2>2. CASE pot # 0
    <3>1. share = part /\ whole = pot
      BY <1>5, <2>2
    <3>2. SumFunctionOnSet(share, Accounts) = SumFunctionOnSet(part, Accounts)
      BY <3>1
    <3> QED  BY <1>5, <2>2, <3>1, <3>2
  <2> QED  BY <2>1, <2>2
<1>7. ASSUME plan' = plan PROVE Within(leg, basis'[r], amount)
  <2>1. \A a \in Accounts : plan'[r][a] = 0
    BY <1>3, <1>7
  <2>2. \A a \in Accounts : leg[a] = 0
    BY <1>4, <2>1
  <2>3. DOMAIN leg = Accounts
    BY <1>4
  <2>4. PICK parts \in [Accounts -> Int] : parts = basis'[r]
    <3>1. TypeOK'
      BY <1>1, SubmitType
    <3> QED  BY <3>1 DEF TypeOK
  <2>5. Within(leg, parts, amount)
    BY <1>1, <2>2, <2>3, NothingIsWithin
  <2> QED  BY <2>4, <2>5
<1>8. ASSUME plan' # plan PROVE Within(leg, basis'[r], amount)
  <2>1. PICK short \in SUBSET Accounts :
          plan' = [plan EXCEPT ![r] = [a \in Accounts |->
                     LegAmount(amount, IF TotalPot(kind) = 0 THEN 1 ELSE balance[a][kind],
                               IF TotalPot(kind) = 0 THEN Cardinality(Accounts) ELSE TotalPot(kind),
                               a \in short)]]
    <3> DEFINE own == IF mode.isReal THEN "real" ELSE "fake"
    <3>1. \/ plan' = plan
          \/ \E short \in SUBSET Accounts :
               plan' = [plan EXCEPT ![r] = [a \in Accounts |->
                          LegAmount(amount, IF TotalPot(own) = 0 THEN 1 ELSE balance[a][own],
                                    IF TotalPot(own) = 0 THEN Cardinality(Accounts) ELSE TotalPot(own),
                                    a \in short)]]
      BY Zenon DEF Submit
    <3>2. own = kind
      OBVIOUS
    <3> HIDE DEF own
    <3> QED  BY <1>8, <3>1, <3>2
  <2>2. ASSUME NEW a \in Accounts
        PROVE  \E s \in BOOLEAN : plan'[r][a] = LegAmount(amount, share[a], whole, s)
    <3>1. plan'[r][a] = LegAmount(amount, IF TotalPot(kind) = 0 THEN 1 ELSE balance[a][kind],
                               IF TotalPot(kind) = 0 THEN Cardinality(Accounts) ELSE TotalPot(kind),
                               a \in short)
      BY <1>1, <2>1 DEF TypeOK
    <3>2. share[a] = IF TotalPot(kind) = 0 THEN 1 ELSE balance[a][kind]
      BY <1>5
    <3>3. CASE a \in short
      <4>1. plan'[r][a] = LegAmount(amount, share[a], whole, TRUE)
        BY <1>5, <3>1, <3>2, <3>3
      <4> QED  BY <4>1
    <3>4. CASE a \notin short
      <4>1. (a \in short) = FALSE
        BY <3>4
      <4>2. plan'[r][a] = LegAmount(amount, share[a], whole, FALSE)
        BY <1>5, <3>1, <3>2, <4>1
      <4> QED  BY <4>2
    <3> QED  BY <3>3, <3>4
  <2>3. \A a \in Accounts : /\ leg[a] \in Nat
                             /\ Magnitude(whole) * leg[a] <= amount * Share(share[a], whole)
    <3> SUFFICES ASSUME NEW a \in Accounts
                 PROVE  /\ plan'[r][a] \in Nat
                        /\ Magnitude(whole) * plan'[r][a] <= amount * Share(share[a], whole)
      BY <1>4
    <3>1. PICK s \in BOOLEAN : plan'[r][a] = LegAmount(amount, share[a], whole, s)
      BY <2>2
    <3>2. PICK own \in Int : own = share[a]
      BY <1>6
    <3>3. PICK n : n = LegAmount(amount, own, whole, s)
      OBVIOUS
    <3>4. n \in Nat /\ Magnitude(whole) * n <= amount * Share(own, whole)
      BY <1>1, <1>6, <3>3, LegIsFloor
    <3> QED  BY <3>1, <3>2, <3>3, <3>4
  <2>4. leg \in [Accounts -> Nat]
    BY <1>4, <2>3
  <2>5. basis'[r] = share
    <3>1. basis' = [basis EXCEPT ![r] = [a \in Accounts |->
                      IF TotalPot(kind) = 0 THEN 1 ELSE balance[a][kind]]]
      <4>1. CASE mode.isReal
        BY <1>8, <4>1 DEF Submit
      <4>2. CASE ~mode.isReal
        BY <1>8, <4>2 DEF Submit
      <4> QED  BY <4>1, <4>2
    <3>2. [a \in Accounts |-> IF TotalPot(kind) = 0 THEN 1 ELSE balance[a][kind]] = share
      BY <1>5
    <3> QED  BY <1>1, <3>1, <3>2 DEF TypeOK
  <2>6. SumFunction(share) = whole
    BY <1>6 DEF SumFunction
  <2> QED  BY <1>1, <1>6, <2>3, <2>4, <2>5, <2>6, LegsAreWithin
<1> QED  BY <1>2, <1>7, <1>8

(* Only its submission sets what a request is split by.                    *)
LEMMA BasisStays ==
    ASSUME TypeOK, [Next]_vars, NEW r \in Requests,
           ~\E amount \in Amounts, mode \in Modes : Submit(r, amount, mode)
    PROVE  basis'[r] = basis[r]
<1>1. ASSUME NEW q \in Requests, NEW amount \in Amounts, NEW mode \in Modes, Submit(q, amount, mode)
      PROVE  basis'[r] = basis[r]
  <2>1. q # r
    BY <1>1
  <2>2. basis' = basis \/ \E parts : basis' = [basis EXCEPT ![q] = parts]
    BY <1>1 DEF Submit
  <2> QED  BY <2>1, <2>2 DEF TypeOK
<1>2. ASSUME NEW q \in Requests, RequestStep(q) \/ FailRequest(q) PROVE basis' = basis
  BY <1>2 DEF RequestStep, ReadAccount, SaveAccount, CreateTxn, RefuseTxn, Publish, EndLoop,
              MarkInstant, FailRequest, ledgerVars
<1>3. ASSUME NEW c \in Consumers, ConsumerStep(c) \/ LoseMessage(c) PROVE basis' = basis
  BY <1>3 DEF ConsumerStep, Take, Push, Record, LoseMessage, ledgerVars
<1>4. ASSUME NEW k \in Checkouts,
             \/ \E decision \in {"paid", "declined"} : Decide(k, decision)
             \/ \E h \in Handlers : Deliver(k, h) \/ Duplicate(k, h) \/ ServeStep(k, h)
      PROVE  basis' = basis
  BY <1>4 DEF Decide, Deliver, Duplicate, ServeStep, Lookup, Credit, Settle, ledgerVars
<1>5. Stop \/ Crash \/ UNCHANGED vars => basis' = basis
  BY DEF Stop, Crash, vars, ledgerVars
<1> QED
  BY <1>1, <1>2, <1>3, <1>4, <1>5 DEF Next

(* Every other step moves an amount from the plan to a row, or leaves it.  *)
LEMMA OthersKeepSpread ==
    ASSUME SplitInv, PromptInv', [Next]_vars, NEW r \in Requests, NEW a \in Accounts,
           ~\E amount \in Amounts, mode \in Modes : Submit(r, amount, mode)
    PROVE  /\ ask'[r] = ask[r]
           /\ txn'[<<r, a>>].amount + plan'[r][a] = txn[<<r, a>>].amount + plan[r][a]
<1>1. /\ PromptInv /\ TypeOK /\ TypeOK' /\ LoopInv /\ LoopInv' /\ <<r, a>> \in Txns
      /\ UnbookedIsFree /\ UnbookedIsFree'
  BY NextUnbookedIsFree DEF SplitInv, PromptInv, PayInv, Txns
<1>2. ask'[r] = ask[r] /\ (plan'[r][a] = plan[r][a] \/ \E acc \in hold[r] : CreateTxn(r) /\ acc.account = a)
  <2>1. CASE UNCHANGED <<requestVars, saved>>
    BY <2>1 DEF requestVars
  <2>2. ASSUME NEW q \in Requests, q # r,
               \/ \E amount \in Amounts, mode \in Modes : Submit(q, amount, mode)
               \/ RequestStep(q) \/ FailRequest(q)
        PROVE  ask'[r] = ask[r] /\ plan'[r] = plan[r]
    BY <1>1, <2>2, OthersWait
  <2>3. CASE CreateTxn(r)
    <3>1. PICK acc \in hold[r] : plan' = [plan EXCEPT ![r][acc.account] = 0]
      BY <2>3 DEF CreateTxn
    <3>2. ask' = ask /\ plan \in [Requests -> [Accounts -> Nat]]
      BY <1>1, <2>3 DEF CreateTxn, TypeOK
    <3>3. acc.account # a => plan'[r][a] = plan[r][a]
      BY <3>1, <3>2
    <3> QED  BY <2>3, <3>1, <3>2, <3>3
  <2>4. CASE (RequestStep(r) /\ ~CreateTxn(r)) \/ FailRequest(r) \/ Crash
    BY <2>4 DEF RequestStep, ReadAccount, SaveAccount, RefuseTxn, Publish, EndLoop, MarkInstant,
                FailRequest, Crash
  <2> QED  BY <2>1, <2>2, <2>3, <2>4, RequestFrame
<1>3. CASE <<r, a>> \in Stored
  <2>1. <<r, a>> \in Stored' /\ txn'[<<r, a>>].amount = txn[<<r, a>>].amount
    BY <1>1, <1>3, AmountsStay
  <2>2. plan[r][a] = 0 /\ plan'[r][a] = 0
    BY <1>1, <1>3, <2>1 DEF LoopInv
  <2> QED  BY <1>2, <2>1, <2>2
<1>4. CASE <<r, a>> \notin Stored'
  <2>1. ~\E acc \in hold[r] : CreateTxn(r) /\ acc.account = a
    <3> SUFFICES ASSUME CreateTxn(r), \A acc \in hold[r] : acc.account = a PROVE FALSE
      BY <1>1 DEF LoopInv
    <3>1. txn' = [txn EXCEPT ![<<r, a>>] = Row("success", plan[r][a], {}, "")]
      BY DEF CreateTxn
    <3>2. txn'[<<r, a>>].status = "success"
      BY <1>1, <3>1 DEF TypeOK, Row
    <3> QED  BY <1>1, <1>4, <3>2 DEF Stored
  <2>2. <<r, a>> \notin Stored
    BY <1>1, <1>4, AmountsStay
  <2> QED  BY <1>1, <1>2, <1>4, <2>1, <2>2 DEF UnbookedIsFree
<1>5. CASE <<r, a>> \notin Stored /\ <<r, a>> \in Stored'
  <2>1. PICK q \in Requests : CreateTxn(q) /\ \E acc \in hold[q] : <<r, a>> = <<q, acc.account>>
    BY <1>1, <1>5, OnlyCreateBooks
  <2>2. q = r /\ \E acc \in hold[r] : acc.account = a
    BY <2>1
  <2>3. \A acc \in hold[r] : acc.account = a
    BY <1>1, <2>2 DEF LoopInv
  <2>4. txn' = [txn EXCEPT ![<<r, a>>] = Row("success", plan[r][a], {}, "")]
    BY <2>1, <2>2, <2>3 DEF CreateTxn
  <2>5. txn'[<<r, a>>].amount = plan[r][a]
    BY <1>1, <2>4 DEF TypeOK, Row
  <2>6. txn[<<r, a>>].amount = 0 /\ plan'[r][a] = 0
    BY <1>1, <1>5 DEF UnbookedIsFree, LoopInv
  <2>7. plan[r][a] \in Nat
    BY <1>1 DEF TypeOK
  <2> QED  BY <1>2, <2>5, <2>6, <2>7
<1> QED  BY <1>3, <1>4, <1>5

(* So no step takes the legs of a request out of its shares.               *)
LEMMA NextSplitWithinRequest ==
    ASSUME SplitInv, PromptInv', [Next]_vars
    PROVE  SplitWithinRequest'
<1> SUFFICES ASSUME NEW r \in Requests PROVE Within(Spread(r), basis[r], ask[r].amount)'
  BY DEF SplitWithinRequest, Within, Shares, Spread
<1>1. TypeOK /\ TypeOK' /\ IsFiniteSet(Accounts)
  BY StkDepositAssumption DEF SplitInv, PromptInv, PayInv, StkDepositAssumption
<1>2. CASE \E amount \in Amounts, mode \in Modes : Submit(r, amount, mode)
  BY <1>2, SubmitSplits
<1>3. CASE ~\E amount \in Amounts, mode \in Modes : Submit(r, amount, mode)
  <2>1. \A a \in Accounts : Spread(r)[a] \in Int /\ Spread(r)[a] = Spread(r)'[a]
    <3> SUFFICES ASSUME NEW a \in Accounts PROVE Spread(r)[a] \in Int /\ Spread(r)[a] = Spread(r)'[a]
      OBVIOUS
    <3>1. Spread(r)'[a] = txn'[<<r, a>>].amount + plan'[r][a]
      BY DEF Spread
    <3> QED  BY <1>1, <1>3, <3>1, SpreadType, OthersKeepSpread
  <2>2. ask'[r] = ask[r] /\ basis'[r] = basis[r]
    BY <1>1, <1>3, StkDepositAssumption, OthersKeepSpread, BasisStays DEF StkDepositAssumption
  <2>3. PICK f, g : f = Spread(r) /\ g = Spread(r)'
    OBVIOUS
  <2>4. SumFunctionOnSet(f, Accounts) = SumFunctionOnSet(g, Accounts)
    BY <1>1, <2>1, <2>3, SumSame
  <2>5. DOMAIN f = Accounts /\ DOMAIN g = Accounts
    BY <2>3 DEF Spread
  <2>6. SumFunction(f) = SumFunction(g)
    BY <2>4, <2>5 DEF SumFunction
  <2>7. Within(f, basis[r], ask[r].amount)
    BY <2>3, SplitWithinMeans DEF SplitInv
  <2>8. Within(g, basis[r], ask[r].amount)
    BY <2>6, <2>7 DEF Within
  <2>9. Within(Spread(r), basis[r], ask[r].amount)' <=> Within(g, basis'[r], ask'[r].amount)
    BY <2>3 DEF Within, Shares
  <2> QED  BY <2>2, <2>8, <2>9
<1> QED  BY <1>2, <1>3

LEMMA NextIdleIsFree ==
    ASSUME SplitInv, PromptInv', [Next]_vars
    PROVE  IdleIsFree'
<1> SUFFICES ASSUME NEW r \in Requests, pc'[r] = "idle" PROVE \A a \in Accounts : plan'[r][a] = 0
  BY DEF IdleIsFree
<1>1. PromptInv /\ TypeOK /\ IdleIsFree
  BY DEF SplitInv, PromptInv, PayInv
<1>2. CASE UNCHANGED <<requestVars, saved>>
  BY <1>1, <1>2 DEF IdleIsFree, requestVars
<1>3. ASSUME NEW q \in Requests, q # r,
             \/ \E amount \in Amounts, mode \in Modes : Submit(q, amount, mode)
             \/ RequestStep(q) \/ FailRequest(q)
      PROVE  pc'[r] = pc[r] /\ plan'[r] = plan[r]
  BY <1>1, <1>3, OthersWait
<1>4. ASSUME \/ \E amount \in Amounts, mode \in Modes : Submit(r, amount, mode)
             \/ RequestStep(r) \/ FailRequest(r)
      PROVE  pc'[r] # "idle"
  BY <1>1, <1>4 DEF TypeOK, Submit, RequestStep, ReadAccount, SaveAccount, CreateTxn, RefuseTxn,
                    Publish, EndLoop, MarkInstant, FailRequest
<1>5. CASE Crash
  BY <1>1, <1>5 DEF IdleIsFree, Crash
<1> QED
  BY <1>1, <1>2, <1>3, <1>4, <1>5, RequestFrame DEF IdleIsFree

(* The legs of a request, booked and still to book, stay within the shares *)
(* it was split by, and within its amount when these are of one sign, for  *)
(* any accounts, any balances, overdrawn ones included, any amounts, any   *)
(* rounding of the split and any interleaving of requests, faults and      *)
(* restarts.                                                               *)
THEOREM SplitStaysWithinRequest == Spec => []SplitWithinRequest
<1>1. SplitInv /\ [Next]_vars /\ PromptInv' => SplitInv'
  BY NextUnbookedIsFree, NextIdleIsFree, NextSplitWithinRequest DEF SplitInv
<1>2. SplitInv => SplitWithinRequest
  BY DEF SplitInv
<1> QED
  BY InitSplitInv, PromptInvariant, <1>1, <1>2, PTL DEF Spec
-----------------------------------------------------------------------------
(* The credits of a leg.  A paid prompt is due, then served, then credited *)
(* or given up; its callback comes back only as long as the row it looks   *)
(* for is, or will be, there.                                              *)

(* A subscription is at the leg, or will be.                               *)
Carries(legs, t) == \E i \in DOMAIN legs : legs[i].txn = t

Coming(t) ==
    \E c \in Consumers :
        Carries(work[c], t) \/ \E m \in DOMAIN inbox[c] : Carries(inbox[c][m], t)

(* The callback of a checkout finds its row, or may find it later.         *)
Findable(k) == k \in txn[k[1]].ref \/ Coming(k[1])

Paid(t) == {k \in Checkouts : k[1] = t /\ checkout[k] = "paid"}

(* A callback that will come and may lead to a credit, and one that is     *)
(* served and may.                                                         *)
IsDue(k) ==
    \/ delivered[k] = "no"
    \/ delivered[k] = "sent" /\ ~Outstanding(k) /\ Findable(k)

IsServing(k, h) ==
    \/ cb[<<k, h>>].stage = "credit"
    \/ cb[<<k, h>>].stage = "find" /\ Findable(k)

Due(t)     == {k \in Paid(t) : IsDue(k)}
Serving(t) == {s \in Paid(t) \X Handlers : IsServing(s[1], s[2])}

(* Each credit, made or to come, has its payment, a duplicate or a restart.*)
Accounted(t) ==
    /\ IsFiniteSet(Paid(t)) /\ IsFiniteSet(Serving(t))
    /\ credits[t] + Cardinality(Due(t)) + Cardinality(Serving(t))
         <= Cardinality(Paid(t)) + dups + crashes

(* A row, and what a push returned, names one checkout at most, so that    *)
(* one callback at most is due again after a restart.                      *)
OneRef ==
    /\ \A t \in Txns : \A j, k \in txn[t].ref : j = k
    /\ \A c \in Consumers : \A got \in answer[c] : \A j, k \in got.ref : j = k

(* Nothing is delivered before the customer decides.                       *)
UndecidedIsQuiet ==
    \A k \in Checkouts : \/ checkout[k] \in {"paid", "declined"}
                         \/ delivered[k] = "no" /\ ~Outstanding(k)

CreditInv == PromptInv /\ OneRef /\ UndecidedIsQuiet /\ \A t \in Txns : Accounted(t)

LEMMA InitCreditInv == Init => CreditInv
<1> SUFFICES ASSUME Init PROVE CreditInv
  OBVIOUS
<1>1. OneRef
  BY DEF Init, OneRef, NoRow, Row
<1>2. UndecidedIsQuiet
  BY DEF Init, UndecidedIsQuiet, Outstanding, NotServed
<1>3. ASSUME NEW t \in Txns PROVE Accounted(t)
  <2>1. Paid(t) = {} /\ Due(t) = {} /\ Serving(t) = {}
    BY DEF Init, Paid, Due, Serving
  <2>2. credits[t] = 0 /\ dups = 0 /\ crashes = 0
    BY DEF Init
  <2> QED  BY <2>1, <2>2, FS_EmptySet DEF Accounted
<1> QED
  BY <1>1, <1>2, <1>3, InitPromptInv DEF CreditInv

(* What is left of a message carries no other legs.                        *)
LEMMA TailCarries ==
    ASSUME NEW S, NEW q \in Seq(S), q # <<>>
    PROVE  /\ \A i \in DOMAIN Tail(q) : i + 1 \in DOMAIN q /\ Tail(q)[i] = q[i + 1]
           /\ 1 \in DOMAIN q /\ Head(q) = q[1]
  OBVIOUS

LEMMA AppendCarries ==
    ASSUME NEW S, NEW q \in Seq(S), NEW x \in S, NEW m \in DOMAIN Append(q, x),
           Append(q, x)[m] # x
    PROVE  m \in DOMAIN q /\ Append(q, x)[m] = q[m]
<1>1. m = Len(q) + 1 \/ m \in 1 .. Len(q)
  OBVIOUS
<1> QED  BY <1>1

(* Legs come from a publication only.                                      *)
LEMMA ComingShrinks ==
    ASSUME PromptInv, [Next]_vars, NEW t \in Txns, pc[t[1]] # "loop", Coming(t)'
    PROVE  Coming(t)
<1>1. \A c \in Consumers : work[c] \in Seq(MessageLegs) /\ inbox[c] \in Seq(Seq(MessageLegs))
  BY DEF PromptInv, MessagesAreComplete
<1>2. TypeOK
  BY DEF PromptInv, PayInv
<1>3. PICK c \in Consumers :
        Carries(work'[c], t) \/ \E m \in DOMAIN inbox'[c] : Carries(inbox'[c][m], t)
  BY DEF Coming, Carries
<1> SUFFICES Carries(work[c], t) \/ \E m \in DOMAIN inbox[c] : Carries(inbox[c][m], t)
  BY DEF Coming
<1>4. CASE UNCHANGED <<inbox, work>>
  BY <1>3, <1>4
<1>5. ASSUME inbox[c] # <<>>, inbox'[c] = Tail(inbox[c]),
             NEW m \in DOMAIN inbox'[c], Carries(inbox'[c][m], t)
      PROVE  \E n \in DOMAIN inbox[c] : Carries(inbox[c][n], t)
  <2>1. m + 1 \in DOMAIN inbox[c] /\ inbox'[c][m] = inbox[c][m + 1]
    BY <1>1, <1>5, TailCarries
  <2> QED  BY <1>5, <2>1
<1>6. ASSUME NEW d \in Consumers, Take(d)
      PROVE  Carries(work[c], t) \/ \E m \in DOMAIN inbox[c] : Carries(inbox[c][m], t)
  <2>1. CASE d # c
    <3>1. work'[c] = work[c] /\ inbox'[c] = inbox[c]
      BY <1>2, <1>6, <2>1 DEF Take, TypeOK
    <3> QED  BY <1>3, <3>1
  <2>2. CASE d = c
    <3>1. inbox[c] # <<>> /\ work'[c] = Head(inbox[c]) /\ inbox'[c] = Tail(inbox[c])
      BY <1>2, <1>6, <2>2 DEF Take, TypeOK
    <3>2. 1 \in DOMAIN inbox[c] /\ work'[c] = inbox[c][1]
      BY <1>1, <3>1, TailCarries
    <3> QED  BY <1>3, <1>5, <3>1, <3>2
  <2> QED  BY <2>1, <2>2
<1>7. ASSUME NEW d \in Consumers, LoseMessage(d)
      PROVE  Carries(work[c], t) \/ \E m \in DOMAIN inbox[c] : Carries(inbox[c][m], t)
  <2>1. CASE d # c
    <3>1. work'[c] = work[c] /\ inbox'[c] = inbox[c]
      BY <1>2, <1>7, <2>1 DEF LoseMessage, TypeOK
    <3> QED  BY <1>3, <3>1
  <2>2. CASE d = c
    <3>1. inbox[c] # <<>> /\ work'[c] = work[c] /\ inbox'[c] = Tail(inbox[c])
      BY <1>2, <1>7, <2>2 DEF LoseMessage, TypeOK
    <3> QED  BY <1>3, <1>5, <3>1
  <2> QED  BY <2>1, <2>2
<1>8. ASSUME NEW d \in Consumers, Record(d)
      PROVE  Carries(work[c], t) \/ \E m \in DOMAIN inbox[c] : Carries(inbox[c][m], t)
  <2>1. inbox'[c] = inbox[c] /\ (work'[c] = work[c] \/ (work[c] # <<>> /\ work'[c] = Tail(work[c])))
    BY <1>2, <1>8 DEF Record, TypeOK
  <2>2. CASE work'[c] = work[c]
    BY <1>3, <2>1, <2>2
  <2>3. ASSUME work[c] # <<>>, work'[c] = Tail(work[c]), Carries(work'[c], t)
        PROVE  Carries(work[c], t)
    <3>1. PICK i \in DOMAIN Tail(work[c]) : Tail(work[c])[i].txn = t
      BY <2>3 DEF Carries
    <3>2. i + 1 \in DOMAIN work[c] /\ Tail(work[c])[i] = work[c][i + 1]
      BY <1>1, <2>3, <3>1, TailCarries
    <3> QED  BY <3>1, <3>2 DEF Carries
  <2> QED  BY <1>3, <2>1, <2>2, <2>3
<1>9. ASSUME NEW r \in Requests, Publish(r)
      PROVE  Carries(work[c], t) \/ \E m \in DOMAIN inbox[c] : Carries(inbox[c][m], t)
  <2>1. work'[c] = work[c] /\ inbox'[c] = Append(inbox[c], allocs[r]) /\ pc[r] = "loop"
    BY <1>9 DEF Publish
  <2>2. allocs[r] \in Seq(OwnLegs(r))
    BY DEF PromptInv, MessagesAreComplete
  <2>3. ~Carries(allocs[r], t)
    <3> SUFFICES ASSUME NEW i \in DOMAIN allocs[r], allocs[r][i].txn = t PROVE FALSE
      BY DEF Carries
    <3>1. allocs[r][i] \in OwnLegs(r)
      BY <2>2
    <3> QED  BY <2>1, <3>1 DEF OwnLegs
  <2>4. ASSUME NEW m \in DOMAIN inbox'[c], Carries(inbox'[c][m], t)
        PROVE  m \in DOMAIN inbox[c] /\ inbox'[c][m] = inbox[c][m]
    <3>1. inbox[c] \in Seq(Seq(Legs)) /\ allocs[r] \in Seq(Legs)
      BY <1>2 DEF TypeOK
    <3> QED  BY <2>1, <2>3, <2>4, <3>1, AppendCarries
  <2> QED  BY <1>3, <2>1, <2>4
<1>10. CASE Stop \/ Crash
  <2>1. inbox' = [d \in Consumers |-> <<>>] /\ work' = [d \in Consumers |-> <<>>]
    BY <1>10 DEF Stop, Crash
  <2>2. DOMAIN inbox'[c] = {} /\ DOMAIN work'[c] = {}
    BY <2>1
  <2> QED  BY <1>3, <2>2 DEF Carries
<1>11. ASSUME NEW r \in Requests,
              \/ \E amount \in Amounts, mode \in Modes : Submit(r, amount, mode)
              \/ \E a \in Accounts : ReadAccount(r, a)
              \/ SaveAccount(r) \/ CreateTxn(r) \/ RefuseTxn(r) \/ EndLoop(r) \/ MarkInstant(r)
              \/ FailRequest(r)
       PROVE  UNCHANGED <<inbox, work>>
  BY <1>11 DEF Submit, ReadAccount, SaveAccount, CreateTxn, RefuseTxn, EndLoop, MarkInstant,
               FailRequest, consumerVars
<1>12. ASSUME NEW e \in Consumers, Push(e) PROVE UNCHANGED <<inbox, work>>
  BY <1>12 DEF Push
<1>13. ASSUME NEW k \in Checkouts,
              \/ \E decision \in {"paid", "declined"} : Decide(k, decision)
              \/ \E h \in Handlers : Deliver(k, h) \/ Duplicate(k, h) \/ ServeStep(k, h)
       PROVE  UNCHANGED <<inbox, work>>
  BY <1>13 DEF Decide, Deliver, Duplicate, ServeStep, Lookup, Credit, Settle, consumerVars
<1>14. UNCHANGED vars => UNCHANGED <<inbox, work>>
  BY DEF vars, consumerVars
<1> QED
  BY <1>4, <1>6, <1>7, <1>8, <1>9, <1>10, <1>11, <1>12, <1>13, <1>14
  DEF Next, RequestStep, ConsumerStep

(* The row of a paid prompt is found later only if it could be before.     *)
LEMMA FindableShrinks ==
    ASSUME PromptInv, [Next]_vars, NEW k \in Checkouts, checkout[k] = "paid", Findable(k)'
    PROVE  Findable(k)
<1> PICK t \in Txns : t = k[1]
  BY DEF Checkouts
<1>1. pc[t[1]] # "loop"
  BY DEF PromptInv, PromptsAreDue, Complete
<1>2. CASE Coming(t)'
  BY <1>1, <1>2, ComingShrinks DEF Findable
<1>3. CASE k \in txn'[t].ref
  <2>1. CASE Born(t)
    BY <1>3, <2>1 DEF Born
  <2>2. CASE Marked(t)
    <3>1. txn'[t].ref = Row("success", txn[t].amount, txn[t].ref, "instant_credited").ref
      BY <2>2 DEF Marked
    <3>2. txn'[t].ref = txn[t].ref
      BY <3>1 DEF Row
    <3> QED  BY <1>3, <3>2 DEF Findable
  <2>3. CASE Recorded(t)
    <3>1. PICK c \in Consumers : Record(c) /\ t = Head(work[c]).txn
      BY <2>3 DEF Recorded
    <3>2. work[c] # <<>> /\ work[c] \in Seq(MessageLegs)
      BY <3>1 DEF Record, PromptInv, MessagesAreComplete
    <3>3. 1 \in DOMAIN work[c] /\ work[c][1].txn = t
      BY <3>1, <3>2, TailCarries
    <3> QED  BY <3>3 DEF Findable, Coming, Carries
  <2>4. CASE Settled(t)
    <3>1. \/ txn'[t] = Row("failed", txn[t].amount, txn[t].ref, txn[t].final)
          \/ txn'[t] = Row("success", txn[t].amount, {}, "credited")
      BY <2>4 DEF Settled
    <3>2. \/ txn'[t].ref = Row("failed", txn[t].amount, txn[t].ref, txn[t].final).ref
          \/ txn'[t].ref = Row("success", txn[t].amount, {}, "credited").ref
      BY <3>1
    <3>3. txn'[t].ref = txn[t].ref \/ txn'[t].ref = {}
      BY <3>2 DEF Row
    <3> QED  BY <1>3, <3>3 DEF Findable
  <2>5. CASE Kept(t)
    BY <1>3, <2>5 DEF Findable, Kept
  <2> QED  BY <2>1, <2>2, <2>3, <2>4, <2>5, RowSteps
<1> QED
  BY <1>2, <1>3 DEF Findable

(* The steps that change what the callbacks have to do.                    *)
LEMMA CallbackFrame ==
    ASSUME TypeOK, [Next]_vars
    PROVE  \/ /\ UNCHANGED <<delivered, cb, credits, dups, crashes>>
              /\ \A k \in Checkouts : checkout'[k] = "paid" <=> checkout[k] = "paid"
           \/ \E k \in Checkouts, decision \in {"paid", "declined"} : Decide(k, decision)
           \/ \E k \in Checkouts, h \in Handlers : Deliver(k, h) \/ Duplicate(k, h) \/ ServeStep(k, h)
           \/ Crash
<1>1. ASSUME NEW r \in Requests,
             \/ \E amount \in Amounts, mode \in Modes : Submit(r, amount, mode)
             \/ RequestStep(r) \/ FailRequest(r)
      PROVE  UNCHANGED <<delivered, cb, credits, dups, crashes, checkout>>
  BY <1>1 DEF RequestStep, Submit, ReadAccount, SaveAccount, CreateTxn, RefuseTxn, Publish, EndLoop,
              MarkInstant, FailRequest, gatewayVars, ledgerVars, boundVars
<1>2. ASSUME NEW c \in Consumers, Take(c) \/ Record(c) \/ LoseMessage(c)
      PROVE  UNCHANGED <<delivered, cb, credits, dups, crashes, checkout>>
  BY <1>2 DEF Take, Record, LoseMessage, gatewayVars, ledgerVars, boundVars
<1>3. ASSUME NEW c \in Consumers, Push(c)
      PROVE  /\ UNCHANGED <<delivered, cb, credits, dups, crashes>>
             /\ \A k \in Checkouts : checkout'[k] = "paid" <=> checkout[k] = "paid"
  <2> DEFINE e == CheckoutOf(Head(work[c]).txn, c)
  <2>1. \/ checkout' = checkout
        \/ checkout[e] = "none" /\ checkout' = [checkout EXCEPT ![e] = "open"]
    BY <1>3 DEF Push
  <2>2. UNCHANGED <<delivered, cb, credits, dups, crashes>>
    BY <1>3 DEF Push, ledgerVars, boundVars
  <2> HIDE DEF e
  <2> QED  BY <2>1, <2>2 DEF TypeOK
<1>4. Stop \/ UNCHANGED vars => UNCHANGED <<delivered, cb, credits, dups, crashes, checkout>>
  BY DEF Stop, vars, gatewayVars, ledgerVars, boundVars
<1> QED
  BY <1>1, <1>2, <1>3, <1>4 DEF Next, ConsumerStep

LEMMA NextOneRef ==
    ASSUME PromptInv, OneRef, [Next]_vars
    PROVE  OneRef'
<1>1. PromptInv /\ TypeOK /\ OneRef
  BY DEF PromptInv, PayInv
<1>2. ASSUME NEW t \in Txns, NEW j \in txn'[t].ref, NEW k \in txn'[t].ref
      PROVE  j = k
  <2>1. CASE Born(t)
    BY <1>2, <2>1 DEF Born
  <2>2. CASE Marked(t)
    <3>1. txn'[t].ref = Row("success", txn[t].amount, txn[t].ref, "instant_credited").ref
      BY <2>2 DEF Marked
    <3> QED  BY <1>1, <1>2, <3>1 DEF Row, OneRef
  <2>3. CASE Recorded(t)
    <3>1. PICK c \in Consumers :
            \E got \in answer[c] : txn'[t] = Row(got.status, txn[t].amount, got.ref, "")
      BY <2>3 DEF Recorded
    <3>2. PICK got \in answer[c] : txn'[t].ref = Row(got.status, txn[t].amount, got.ref, "").ref
      BY <3>1
    <3>3. txn'[t].ref = got.ref
      BY <3>2 DEF Row
    <3> QED  BY <1>1, <1>2, <3>3 DEF OneRef
  <2>4. CASE Settled(t)
    <3>1. \/ txn'[t] = Row("failed", txn[t].amount, txn[t].ref, txn[t].final)
          \/ txn'[t] = Row("success", txn[t].amount, {}, "credited")
      BY <2>4 DEF Settled
    <3>2. \/ txn'[t].ref = Row("failed", txn[t].amount, txn[t].ref, txn[t].final).ref
          \/ txn'[t].ref = Row("success", txn[t].amount, {}, "credited").ref
      BY <3>1
    <3>3. txn'[t].ref = txn[t].ref \/ txn'[t].ref = {}
      BY <3>2 DEF Row
    <3> QED  BY <1>1, <1>2, <3>3 DEF OneRef
  <2>5. CASE Kept(t)
    BY <1>1, <1>2, <2>5 DEF OneRef, Kept
  <2> QED  BY <1>1, <2>1, <2>2, <2>3, <2>4, <2>5, RowSteps
<1>3. ASSUME NEW c \in Consumers, NEW got \in answer'[c], NEW j \in got.ref, NEW k \in got.ref
      PROVE  j = k
  <2>1. got \in answer[c] \/ \E e : got.ref \subseteq {e}
    <3>1. ASSUME NEW d \in Consumers, Push(d), got \notin answer[c]
          PROVE  \E e : got.ref \subseteq {e}
      <4>1. PICK e, outcome : answer' = [answer EXCEPT ![d] = {ReturnOf(outcome, e)}]
        BY <3>1 DEF Push
      <4>2. got = ReturnOf(outcome, e)
        BY <1>1, <1>3, <3>1, <4>1 DEF TypeOK
      <4> QED  BY <4>2 DEF ReturnOf
    <3>2. ASSUME NEW d \in Consumers, Record(d)
          PROVE  answer'[c] \subseteq answer[c]
      BY <1>1, <3>2 DEF Record, TypeOK
    <3>3. ASSUME NEW d \in Consumers, Take(d) \/ LoseMessage(d)
          PROVE  answer' = answer
      BY <3>3 DEF Take, LoseMessage
    <3>4. Stop \/ Crash => answer'[c] = {}
      BY DEF Stop, Crash
    <3>5. ASSUME NEW r \in Requests,
                 \/ \E amount \in Amounts, mode \in Modes : Submit(r, amount, mode)
                 \/ RequestStep(r) \/ FailRequest(r)
          PROVE  answer' = answer
      BY <3>5 DEF RequestStep, Submit, ReadAccount, SaveAccount, CreateTxn, RefuseTxn, Publish,
                  EndLoop, MarkInstant, FailRequest, consumerVars
    <3>6. ASSUME NEW e \in Checkouts,
                 \/ \E decision \in {"paid", "declined"} : Decide(e, decision)
                 \/ \E h \in Handlers : Deliver(e, h) \/ Duplicate(e, h) \/ ServeStep(e, h)
          PROVE  answer' = answer
      BY <3>6 DEF Decide, Deliver, Duplicate, ServeStep, Lookup, Credit, Settle, consumerVars
    <3>7. UNCHANGED vars => answer' = answer
      BY DEF vars, consumerVars
    <3> QED
      BY <1>3, <3>1, <3>2, <3>3, <3>4, <3>5, <3>6, <3>7 DEF Next, ConsumerStep
  <2> QED  BY <1>1, <1>3, <2>1 DEF OneRef
<1> QED
  BY <1>2, <1>3 DEF OneRef

(* What a step of a callback touches.                                      *)
LEMMA CallbackSteps ==
    ASSUME TypeOK, NEW k \in Checkouts, NEW h \in Handlers,
           Deliver(k, h) \/ Duplicate(k, h) \/ ServeStep(k, h)
    PROVE  /\ UNCHANGED checkout
           /\ \A j \in Checkouts : j # k => delivered'[j] = delivered[j]
           /\ \A j \in Checkouts, g \in Handlers :
                <<j, g>> # <<k, h>> => cb'[<<j, g>>] = cb[<<j, g>>]
<1>0. cb \in [Checkouts \X Handlers -> Served]
  BY DEF TypeOK
<1>1. ASSUME NEW s \in Checkouts \X Handlers, s # <<k, h>> PROVE cb'[s] = cb[s]
  <2>1. CASE Deliver(k, h) \/ Duplicate(k, h)
    BY <1>0, <1>1, <2>1 DEF Deliver, Duplicate, StartServing
  <2>2. CASE Lookup(k, h)
    BY <1>0, <1>1, <2>2 DEF Lookup
  <2>3. CASE Credit(k, h)
    BY <1>0, <1>1, <2>3 DEF Credit
  <2>4. CASE Settle(k, h)
    BY <1>0, <1>1, <2>4 DEF Settle
  <2> QED  BY <2>1, <2>2, <2>3, <2>4 DEF ServeStep
<1>2. /\ UNCHANGED checkout
      /\ delivered' = delivered \/ \E v : delivered' = [delivered EXCEPT ![k] = v]
  BY DEF Deliver, Duplicate, ServeStep, Lookup, Credit, Settle, gatewayVars
<1> QED
  BY <1>1, <1>2 DEF TypeOK

LEMMA NextUndecidedIsQuiet ==
    ASSUME CreditInv, [Next]_vars
    PROVE  UndecidedIsQuiet'
<1>1. TypeOK /\ UndecidedIsQuiet
  BY DEF CreditInv, PromptInv, PayInv
<1> SUFFICES ASSUME NEW k \in Checkouts, checkout'[k] \notin {"paid", "declined"}
             PROVE  delivered'[k] = "no" /\ \A h \in Handlers : cb'[<<k, h>>].stage = "idle"
  BY DEF UndecidedIsQuiet, Outstanding
<1>2. checkout[k] \notin {"paid", "declined"}
  BY <1>1, DecisionsStay
<1>3. delivered[k] = "no" /\ \A h \in Handlers : cb[<<k, h>>].stage = "idle"
  BY <1>1, <1>2 DEF UndecidedIsQuiet, Outstanding
<1>4. CASE UNCHANGED <<delivered, cb>>
  BY <1>3, <1>4
<1>5. ASSUME NEW e \in Checkouts, NEW decision \in {"paid", "declined"}, Decide(e, decision)
      PROVE  UNCHANGED <<delivered, cb>>
  BY <1>5 DEF Decide
<1>6. ASSUME NEW e \in Checkouts, NEW g \in Handlers,
             Deliver(e, g) \/ Duplicate(e, g) \/ ServeStep(e, g)
      PROVE  delivered'[k] = "no" /\ \A h \in Handlers : cb'[<<k, h>>].stage = "idle"
  <2>1. e # k
    BY <1>2, <1>3, <1>6 DEF Deliver, Duplicate, ServeStep, Lookup, Credit, Settle
  <2> QED  BY <1>1, <1>3, <1>6, <2>1, CallbackSteps
<1>7. CASE Crash
  <2>1. delivered' = delivered /\ \A h \in Handlers : cb'[<<k, h>>] = NotServed
    BY <1>7 DEF Crash, gatewayVars
  <2> QED  BY <1>3, <2>1 DEF NotServed
<1> QED
  BY <1>1, <1>4, <1>5, <1>6, <1>7, CallbackFrame

(* How much smaller or larger a set may be than one it differs from in one *)
(* element.                                                                *)
LEMMA CountNoMore ==
    ASSUME NEW A, NEW B, IsFiniteSet(A), B \subseteq A
    PROVE  /\ IsFiniteSet(B) /\ Cardinality(A) \in Nat /\ Cardinality(B) \in Nat
           /\ Cardinality(B) <= Cardinality(A)
  BY FS_Subset, FS_CardinalityType

LEMMA CountOneMore ==
    ASSUME NEW A, NEW B, NEW x, IsFiniteSet(A), B \subseteq A \cup {x}
    PROVE  /\ IsFiniteSet(B) /\ Cardinality(A) \in Nat /\ Cardinality(B) \in Nat
           /\ Cardinality(B) <= Cardinality(A) + 1
<1>1. PICK C : C = A \cup {x}
  OBVIOUS
<1>2. IsFiniteSet(C) /\ Cardinality(C) = IF x \in A THEN Cardinality(A) ELSE Cardinality(A) + 1
  BY <1>1, FS_AddElement
<1>3. Cardinality(A) \in Nat
  BY FS_CardinalityType
<1>4. /\ IsFiniteSet(B) /\ Cardinality(B) \in Nat /\ Cardinality(C) \in Nat
      /\ Cardinality(B) <= Cardinality(C)
  BY <1>1, <1>2, CountNoMore
<1> QED  BY <1>2, <1>3, <1>4

LEMMA CountOneLess ==
    ASSUME NEW A, NEW B, NEW x \in A, IsFiniteSet(A), B \subseteq A \ {x}
    PROVE  /\ IsFiniteSet(B) /\ Cardinality(A) \in Nat /\ Cardinality(B) \in Nat
           /\ Cardinality(B) + 1 <= Cardinality(A)
<1>1. /\ IsFiniteSet(A \ {x}) /\ Cardinality(A) \in Nat
      /\ Cardinality(A \ {x}) = Cardinality(A) - 1
  BY FS_RemoveElement, FS_CardinalityType
<1>2. PICK C : C = A \ {x}
  OBVIOUS
<1>3. IsFiniteSet(B) /\ Cardinality(B) \in Nat /\ Cardinality(C) \in Nat
      /\ Cardinality(B) <= Cardinality(C)
  BY <1>1, <1>2, CountNoMore
<1> QED  BY <1>1, <1>2, <1>3

(* What Accounted counts.                                                  *)
LEMMA Counts ==
    ASSUME CreditInv, NEW t \in Txns
    PROVE  /\ TypeOK /\ Accounted(t)
           /\ IsFiniteSet(Paid(t)) /\ IsFiniteSet(Due(t)) /\ IsFiniteSet(Serving(t))
           /\ Cardinality(Paid(t)) \in Nat /\ Cardinality(Due(t)) \in Nat
           /\ Cardinality(Serving(t)) \in Nat
           /\ credits[t] \in Nat /\ dups \in Nat /\ crashes \in Nat
<1>1. TypeOK /\ Accounted(t)
  BY DEF CreditInv, PromptInv, PayInv
<1>2. Due(t) \subseteq Paid(t) /\ IsFiniteSet(Paid(t)) /\ IsFiniteSet(Serving(t))
  BY <1>1 DEF Due, Accounted
<1>3. IsFiniteSet(Due(t))
  BY <1>2, FS_Subset
<1> QED
  BY <1>1, <1>2, <1>3, FS_CardinalityType DEF TypeOK

(* A checkout whose callbacks a step does not touch is not due or served   *)
(* if it was not.                                                          *)
LEMMA UntouchedShrinks ==
    ASSUME PromptInv, [Next]_vars, NEW k \in Checkouts, checkout[k] = "paid"
    PROVE  /\ \A h \in Handlers : cb'[<<k, h>>] = cb[<<k, h>>] /\ IsServing(k, h)' => IsServing(k, h)
           /\ (/\ delivered'[k] = delivered[k]
               /\ \A h \in Handlers : cb'[<<k, h>>] = cb[<<k, h>>]
               /\ IsDue(k)') => IsDue(k)
<1>1. Findable(k)' => Findable(k)
  BY FindableShrinks
<1>2. ASSUME NEW h \in Handlers, cb'[<<k, h>>] = cb[<<k, h>>], IsServing(k, h)'
      PROVE  IsServing(k, h)
  BY <1>1, <1>2 DEF IsServing
<1>3. ASSUME delivered'[k] = delivered[k], \A h \in Handlers : cb'[<<k, h>>] = cb[<<k, h>>], IsDue(k)'
      PROVE  IsDue(k)
  <2>1. Outstanding(k) => Outstanding(k)'
    BY <1>3 DEF Outstanding
  <2> QED  BY <1>1, <1>3, <2>1 DEF IsDue
<1> QED
  BY <1>2, <1>3

(* A step after which nothing more is due or served.                       *)
LEMMA QuietStep ==
    ASSUME CreditInv, TypeOK', NEW t \in Txns,
           Paid(t)' = Paid(t), credits'[t] = credits[t], dups + crashes <= dups' + crashes',
           \A k \in Paid(t) : IsDue(k)' => IsDue(k),
           \A k \in Paid(t), h \in Handlers : IsServing(k, h)' => IsServing(k, h)
    PROVE  Accounted(t)'
<1>1. Due(t)' \subseteq Due(t)
  BY DEF Due
<1>2. Serving(t)' \subseteq Serving(t)
  BY DEF Serving
<1>3. /\ Cardinality(Due(t)') \in Nat /\ Cardinality(Due(t)') <= Cardinality(Due(t))
      /\ Cardinality(Serving(t)') \in Nat /\ Cardinality(Serving(t)') <= Cardinality(Serving(t))
      /\ IsFiniteSet(Serving(t)')
  BY <1>1, <1>2, Counts, CountNoMore
<1>4. dups' \in Nat /\ crashes' \in Nat
  BY DEF TypeOK
<1> QED
  BY <1>3, <1>4, Counts DEF Accounted

LEMMA DecideAccounted ==
    ASSUME CreditInv, TypeOK', [Next]_vars, NEW t \in Txns, NEW k \in Checkouts,
           NEW decision \in {"paid", "declined"}, Decide(k, decision)
    PROVE  Accounted(t)'
<1>1. /\ PromptInv /\ TypeOK /\ UndecidedIsQuiet
      /\ checkout[k] = "open" /\ checkout' = [checkout EXCEPT ![k] = decision]
      /\ UNCHANGED <<delivered, cb, credits, dups, crashes>>
  BY DEF CreditInv, PromptInv, PayInv, Decide, ledgerVars, boundVars
<1>2. ASSUME NEW j \in Paid(t)
      PROVE  /\ IsDue(j)' => IsDue(j)
             /\ \A h \in Handlers : IsServing(j, h)' => IsServing(j, h)
  BY <1>1, UntouchedShrinks DEF Paid
<1>3. CASE k[1] # t \/ decision # "paid"
  <2>1. Paid(t)' = Paid(t)
    BY <1>1, <1>3 DEF Paid, TypeOK
  <2>2. credits'[t] = credits[t] /\ dups' + crashes' = dups + crashes
    BY <1>1
  <2>3. dups + crashes <= dups' + crashes'
    BY <2>2, Counts
  <2> QED  BY <1>2, <2>1, <2>2, <2>3, QuietStep
<1>4. CASE k[1] = t /\ decision = "paid"
  <2>1. Paid(t)' = Paid(t) \cup {k} /\ k \notin Paid(t)
    BY <1>1, <1>4 DEF Paid, TypeOK
  <2>2. Due(t)' \subseteq Due(t) \cup {k}
    BY <1>2, <2>1 DEF Due
  <2>3. ~Outstanding(k)
    BY <1>1 DEF UndecidedIsQuiet
  <2>4. \A h \in Handlers : ~IsServing(k, h)'
    BY <1>1, <2>3 DEF Outstanding, IsServing
  <2>5. Serving(t)' \subseteq Serving(t)
    BY <1>2, <2>1, <2>4 DEF Serving
  <2>6. /\ Cardinality(Paid(t)') = Cardinality(Paid(t)) + 1 /\ IsFiniteSet(Paid(t)')
        /\ Cardinality(Due(t)') \in Nat /\ Cardinality(Due(t)') <= Cardinality(Due(t)) + 1
        /\ Cardinality(Serving(t)') \in Nat /\ Cardinality(Serving(t)') <= Cardinality(Serving(t))
        /\ IsFiniteSet(Serving(t)')
    BY <2>1, <2>2, <2>5, Counts, CountNoMore, CountOneMore, FS_AddElement
  <2> QED  BY <1>1, <2>6, Counts DEF Accounted
<1> QED  BY <1>3, <1>4

(* Posting a callback turns what is due into what is served; a duplicate   *)
(* is counted.                                                             *)
LEMMA PostAccounted ==
    ASSUME CreditInv, TypeOK', [Next]_vars, NEW t \in Txns, NEW k \in Checkouts, NEW h \in Handlers,
           Deliver(k, h) \/ Duplicate(k, h)
    PROVE  Accounted(t)'
<1>1. /\ PromptInv /\ TypeOK /\ Paid(t)' = Paid(t)
      /\ credits' = credits /\ crashes' = crashes /\ txn' = txn
  BY DEF CreditInv, PromptInv, PayInv, Deliver, Duplicate, gatewayVars, ledgerVars, boundVars, dbVars, Paid
<1>2. ASSUME NEW j \in Paid(t), j # k
      PROVE  /\ IsDue(j)' => IsDue(j)
             /\ \A g \in Handlers : IsServing(j, g)' => IsServing(j, g)
  <2>1. delivered'[j] = delivered[j] /\ \A g \in Handlers : cb'[<<j, g>>] = cb[<<j, g>>]
    BY <1>1, <1>2, CallbackSteps DEF Paid
  <2> QED  BY <1>1, <2>1, UntouchedShrinks DEF Paid
<1>3. /\ cb[<<k, h>>].stage = "idle" /\ cb'[<<k, h>>].stage = "find"
      /\ \A g \in Handlers : g # h => cb'[<<k, g>>] = cb[<<k, g>>]
  BY <1>1 DEF Deliver, Duplicate, StartServing, TypeOK
<1>4. Outstanding(k)'
  BY <1>3 DEF Outstanding
<1>5. ASSUME k \in Paid(t), NEW g \in Handlers, g # h
      PROVE  IsServing(k, g)' => IsServing(k, g)
  BY <1>1, <1>3, <1>5, UntouchedShrinks DEF Paid
<1>6. k \in Paid(t) => ~IsDue(k)'
  BY <1>1, <1>4 DEF Deliver, Duplicate, IsDue, gatewayVars, TypeOK
<1>7. Due(t)' \subseteq Due(t) \ {k}
  BY <1>1, <1>2, <1>6 DEF Due
<1>8. CASE Duplicate(k, h)
  <2>1. dups' = dups + 1
    BY <1>8 DEF Duplicate
  <2>2. Serving(t)' \subseteq Serving(t) \cup {<<k, h>>}
    BY <1>1, <1>2, <1>5 DEF Serving
  <2>3. Due(t)' \subseteq Due(t)
    BY <1>7
  <2>4. /\ Cardinality(Due(t)') \in Nat /\ Cardinality(Due(t)') <= Cardinality(Due(t))
        /\ Cardinality(Serving(t)') \in Nat /\ Cardinality(Serving(t)') <= Cardinality(Serving(t)) + 1
        /\ IsFiniteSet(Serving(t)')
    BY <2>2, <2>3, Counts, CountNoMore, CountOneMore
  <2> QED  BY <1>1, <2>1, <2>4, Counts DEF Accounted
<1>9. CASE Deliver(k, h) /\ k \in Due(t)
  <2>1. dups' = dups
    BY <1>9 DEF Deliver, boundVars
  <2>2. Serving(t)' \subseteq Serving(t) \cup {<<k, h>>}
    BY <1>1, <1>2, <1>5 DEF Serving
  <2>4. /\ Cardinality(Due(t)') \in Nat /\ Cardinality(Due(t)') + 1 <= Cardinality(Due(t))
        /\ Cardinality(Serving(t)') \in Nat /\ Cardinality(Serving(t)') <= Cardinality(Serving(t)) + 1
        /\ IsFiniteSet(Serving(t)')
    BY <1>7, <1>9, <2>2, Counts, CountOneLess, CountOneMore
  <2> QED  BY <1>1, <2>1, <2>4, Counts DEF Accounted
<1>10. CASE Deliver(k, h) /\ k \notin Due(t)
  <2>1. dups' = dups /\ (delivered[k] = "no" \/ (delivered[k] = "sent" /\ ~Outstanding(k)))
    BY <1>10 DEF Deliver, boundVars
  <2>2. k \in Paid(t) => ~Findable(k)
    BY <1>10, <2>1 DEF Due, IsDue
  <2>3. k \in Paid(t) => ~Findable(k)'
    BY <1>1, <2>2, FindableShrinks DEF Paid
  <2>4. k \in Paid(t) => ~IsServing(k, h)'
    BY <1>3, <2>3 DEF IsServing
  <2>5. \A j \in Paid(t) : IsDue(j)' => IsDue(j)
    BY <1>2, <1>6
  <2>6. \A j \in Paid(t), g \in Handlers : IsServing(j, g)' => IsServing(j, g)
    BY <1>2, <1>5, <2>4
  <2>7. credits'[t] = credits[t] /\ dups + crashes <= dups' + crashes'
    BY <1>1, <2>1, Counts
  <2> QED  BY <1>1, <2>5, <2>6, <2>7, QuietStep
<1> QED  BY <1>8, <1>9, <1>10

(* Looking the row up keeps a callback that is served, or makes it due     *)
(* again; a credit spends one; a settled one is over.                      *)
LEMMA ServeAccounted ==
    ASSUME CreditInv, TypeOK', [Next]_vars, NEW t \in Txns, NEW k \in Checkouts, NEW h \in Handlers,
           ServeStep(k, h)
    PROVE  Accounted(t)'
<1>1. /\ PromptInv /\ TypeOK /\ Paid(t)' = Paid(t)
      /\ UNCHANGED <<dups, crashes>>
  BY DEF CreditInv, PromptInv, PayInv, ServeStep, Lookup, Credit, Settle, gatewayVars, Paid
<1>2. ASSUME NEW j \in Paid(t), j # k
      PROVE  /\ IsDue(j)' => IsDue(j)
             /\ \A g \in Handlers : IsServing(j, g)' => IsServing(j, g)
  <2>1. delivered'[j] = delivered[j] /\ \A g \in Handlers : cb'[<<j, g>>] = cb[<<j, g>>]
    BY <1>1, <1>2, CallbackSteps DEF Paid
  <2> QED  BY <1>1, <2>1, UntouchedShrinks DEF Paid
<1>3. ASSUME k \in Paid(t), NEW g \in Handlers, g # h
      PROVE  IsServing(k, g)' => IsServing(k, g)
  <2>1. cb'[<<k, g>>] = cb[<<k, g>>]
    BY <1>1, <1>3, CallbackSteps
  <2> QED  BY <1>1, <1>3, <2>1, UntouchedShrinks DEF Paid
<1>4. dups + crashes <= dups' + crashes'
  BY <1>1, Counts
<1>5. cb[<<k, h>>].stage # "idle" => Outstanding(k)
  BY DEF Outstanding
<1>6. k \in Paid(t) /\ Findable(k)' => Findable(k)
  BY <1>1, FindableShrinks DEF Paid
<1>7. ASSUME UNCHANGED delivered, cb'[<<k, h>>].stage # "idle", k \in Paid(t), IsDue(k)'
      PROVE  IsDue(k)
  BY <1>7 DEF IsDue, Outstanding
<1>8. ASSUME Lookup(k, h), cb'[<<k, h>>].stage = "idle"
      PROVE  Accounted(t)'
  <2>1. credits' = credits /\ delivered' = delivered /\ cb[<<k, h>>].stage = "find"
    BY <1>8 DEF Lookup, gatewayVars, ledgerVars
  <2>2. ~IsServing(k, h)'
    BY <1>8 DEF IsServing
  <2>3. CASE k \in Paid(t) /\ Findable(k)
    <3>1. <<k, h>> \in Serving(t)
      BY <2>1, <2>3 DEF Serving, IsServing
    <3>2. Serving(t)' \subseteq Serving(t) \ {<<k, h>>}
      BY <1>1, <1>2, <1>3, <2>2 DEF Serving
    <3>3. Due(t)' \subseteq Due(t) \cup {k}
      BY <1>1, <1>2 DEF Due
    <3>4. /\ Cardinality(Due(t)') \in Nat /\ Cardinality(Due(t)') <= Cardinality(Due(t)) + 1
          /\ Cardinality(Serving(t)') \in Nat /\ Cardinality(Serving(t)') + 1 <= Cardinality(Serving(t))
          /\ IsFiniteSet(Serving(t)')
      BY <3>1, <3>2, <3>3, Counts, CountOneLess, CountOneMore
    <3> QED  BY <1>1, <2>1, <3>4, Counts DEF Accounted
  <2>4. CASE ~(k \in Paid(t) /\ Findable(k))
    <3>1. k \in Paid(t) => ~Findable(k)'
      BY <1>6, <2>4
    <3>2. k \in Paid(t) /\ IsDue(k)' => IsDue(k)
      BY <2>1, <3>1 DEF IsDue
    <3>3. \A j \in Paid(t) : IsDue(j)' => IsDue(j)
      BY <1>2, <3>2
    <3>4. \A j \in Paid(t), g \in Handlers : IsServing(j, g)' => IsServing(j, g)
      BY <1>2, <1>3, <2>2
    <3>5. credits'[t] = credits[t]
      BY <2>1
    <3> QED  BY <1>1, <1>4, <3>3, <3>4, <3>5, QuietStep
  <2> QED  BY <2>3, <2>4
<1>9. ASSUME Lookup(k, h), cb'[<<k, h>>].stage # "idle"
      PROVE  Accounted(t)'
  <2>1. credits' = credits /\ delivered' = delivered /\ cb[<<k, h>>].stage = "find"
    BY <1>9 DEF Lookup, gatewayVars, ledgerVars
  <2>2. k \in txn[k[1]].ref
    <3>1. PICK e \in Txns : k \in txn[e].ref
      BY <1>1, <1>9 DEF Lookup, NotServed, TypeOK
    <3>2. k[1] = e
      BY <1>1, <3>1 DEF PromptInv, PayInv, RefsAreOwn
    <3> QED  BY <3>1, <3>2
  <2>3. IsServing(k, h)
    BY <2>1, <2>2 DEF IsServing, Findable
  <2>4. \A j \in Paid(t) : IsDue(j)' => IsDue(j)
    BY <1>2, <1>7, <1>9, <2>1
  <2>5. \A j \in Paid(t), g \in Handlers : IsServing(j, g)' => IsServing(j, g)
    BY <1>2, <1>3, <2>3
  <2>6. credits'[t] = credits[t]
    BY <2>1
  <2> QED  BY <1>1, <1>4, <2>4, <2>5, <2>6, QuietStep
<1>10. ASSUME Credit(k, h) PROVE Accounted(t)'
  <2>1. /\ cb[<<k, h>>].stage = "credit" /\ cb'[<<k, h>>].stage = "settle" /\ delivered' = delivered
        /\ \E e \in cb[<<k, h>>].txn : credits' = credits \/ credits' = [credits EXCEPT ![e] = @ + 1]
    BY <1>1, <1>10 DEF Credit, gatewayVars, TypeOK
  <2>2. ~IsServing(k, h)'
    BY <2>1 DEF IsServing
  <2>3. \A j \in Paid(t) : IsDue(j)' => IsDue(j)
    BY <1>2, <1>7, <2>1
  <2>4. CASE credits'[t] = credits[t]
    <3>1. \A j \in Paid(t), g \in Handlers : IsServing(j, g)' => IsServing(j, g)
      BY <1>2, <1>3, <2>2
    <3> QED  BY <1>1, <1>4, <2>3, <2>4, <3>1, QuietStep
  <2>5. CASE credits'[t] # credits[t]
    <3>1. PICK e \in cb[<<k, h>>].txn : credits' = [credits EXCEPT ![e] = @ + 1]
      BY <2>1, <2>5
    <3>2. k[1] = e /\ checkout[k] = "paid"
      BY <1>1, <2>1, <3>1 DEF PromptInv, PayInv, CallbacksAreOwn
    <3>3. t = e /\ credits'[t] = credits[t] + 1
      BY <1>1, <2>5, <3>1 DEF TypeOK
    <3>4. <<k, h>> \in Serving(t)
      BY <2>1, <3>2, <3>3 DEF Serving, Paid, IsServing
    <3>5. Serving(t)' \subseteq Serving(t) \ {<<k, h>>}
      BY <1>1, <1>2, <1>3, <2>2 DEF Serving
    <3>6. Due(t)' \subseteq Due(t)
      BY <1>1, <2>3 DEF Due
    <3>7. /\ Cardinality(Due(t)') \in Nat /\ Cardinality(Due(t)') <= Cardinality(Due(t))
          /\ Cardinality(Serving(t)') \in Nat /\ Cardinality(Serving(t)') + 1 <= Cardinality(Serving(t))
          /\ IsFiniteSet(Serving(t)')
      BY <3>4, <3>5, <3>6, Counts, CountOneLess, CountNoMore
    <3> QED  BY <1>1, <3>3, <3>7, Counts DEF Accounted
  <2> QED  BY <2>4, <2>5
<1>11. ASSUME Settle(k, h) PROVE Accounted(t)'
  <2>1. delivered'[k] = "answered" /\ cb'[<<k, h>>].stage = "idle" /\ credits'[t] = credits[t]
    BY <1>1, <1>11 DEF Settle, NotServed, ledgerVars, TypeOK
  <2>2. ~IsServing(k, h)' /\ ~IsDue(k)'
    BY <2>1 DEF IsServing, IsDue
  <2>3. \A j \in Paid(t) : IsDue(j)' => IsDue(j)
    BY <1>2, <2>2
  <2>4. \A j \in Paid(t), g \in Handlers : IsServing(j, g)' => IsServing(j, g)
    BY <1>2, <1>3, <2>2
  <2> QED  BY <1>1, <1>4, <2>1, <2>3, <2>4, QuietStep
<1> QED
  BY <1>8, <1>9, <1>10, <1>11 DEF ServeStep

(* A restart forgets the callbacks that are served; the one the row names  *)
(* comes again.                                                            *)
LEMMA CrashAccounted ==
    ASSUME CreditInv, TypeOK', [Next]_vars, NEW t \in Txns, Crash
    PROVE  Accounted(t)'
<1>1. /\ TypeOK /\ OneRef /\ Paid(t)' = Paid(t)
      /\ credits' = credits /\ dups' = dups /\ crashes' = crashes + 1
      /\ delivered' = delivered /\ txn' = txn
  BY DEF CreditInv, PromptInv, PayInv, Crash, Paid, gatewayVars, ledgerVars, dbVars
<1>2. ~Coming(t)'
  <2>1. inbox' = [c \in Consumers |-> <<>>] /\ work' = [c \in Consumers |-> <<>>]
    BY DEF Crash
  <2>2. \A c \in Consumers : DOMAIN inbox'[c] = {} /\ DOMAIN work'[c] = {}
    BY <2>1
  <2> QED  BY <2>2 DEF Coming, Carries
<1>3. Serving(t)' = {}
  <2>1. \A j \in Checkouts, h \in Handlers : cb'[<<j, h>>] = NotServed
    BY DEF Crash
  <2>2. ASSUME NEW j \in Checkouts, NEW h \in Handlers PROVE ~IsServing(j, h)'
    <3>1. cb'[<<j, h>>].stage = "idle"
      BY <2>1 DEF NotServed
    <3> QED  BY <3>1 DEF IsServing
  <2> QED  BY <2>2 DEF Serving, Paid
<1>4. PICK k : txn[t].ref \subseteq {k}
  BY <1>1 DEF OneRef
<1>5. Due(t)' \subseteq Due(t) \cup {k}
  <2> SUFFICES ASSUME NEW j \in Paid(t), IsDue(j)' PROVE j \in Due(t) \cup {k}
    BY <1>1 DEF Due
  <2>1. delivered[j] = "no" => IsDue(j)
    BY DEF IsDue
  <2>2. delivered[j] # "no" => j \in txn[t].ref
    BY <1>1, <1>2 DEF IsDue, Findable, Paid
  <2> QED  BY <1>4, <2>1, <2>2 DEF Due
<1>6. /\ Cardinality(Due(t)') \in Nat /\ Cardinality(Due(t)') <= Cardinality(Due(t)) + 1
      /\ Cardinality(Serving(t)') = 0 /\ IsFiniteSet(Serving(t)')
  BY <1>3, <1>5, Counts, CountOneMore, FS_EmptySet
<1> QED
  BY <1>1, <1>6, Counts DEF Accounted

LEMMA NextAccounted ==
    ASSUME CreditInv, TypeOK', [Next]_vars, NEW t \in Txns
    PROVE  Accounted(t)'
<1>1. TypeOK /\ PromptInv
  BY DEF CreditInv, PromptInv, PayInv
<1>2. CASE /\ UNCHANGED <<delivered, cb, credits, dups, crashes>>
           /\ \A k \in Checkouts : checkout'[k] = "paid" <=> checkout[k] = "paid"
  <2>1. Paid(t)' = Paid(t)
    BY <1>2 DEF Paid
  <2>2. /\ \A k \in Paid(t) : IsDue(k)' => IsDue(k)
        /\ \A k \in Paid(t), h \in Handlers : IsServing(k, h)' => IsServing(k, h)
    BY <1>1, <1>2, UntouchedShrinks DEF Paid
  <2>3. credits'[t] = credits[t] /\ dups + crashes <= dups' + crashes'
    BY <1>2, Counts
  <2> QED  BY <2>1, <2>2, <2>3, QuietStep
<1> QED
  BY <1>1, <1>2, CallbackFrame, DecideAccounted, PostAccounted, ServeAccounted, CrashAccounted

(* Whatever the interleaving of pushes, callbacks, duplicates, faults and  *)
(* restarts, with any number of subscriptions and handlers, and whether or *)
(* not the gateway repeats itself or its checkouts: a leg is credited for  *)
(* its paid prompts, and once more for each duplicate and each restart.    *)
THEOREM CreditsArePaid == Spec => []EveryCreditIsPaid
<1>1. CreditInv /\ [Next]_vars /\ PromptInv' => CreditInv'
  <2> SUFFICES ASSUME CreditInv, [Next]_vars, PromptInv' PROVE CreditInv'
    OBVIOUS
  <2>1. TypeOK'
    BY DEF PromptInv, PayInv
  <2>2. \A t \in Txns : Accounted(t)'
    BY <2>1, NextAccounted
  <2> QED  BY <2>2, NextOneRef, NextUndecidedIsQuiet DEF CreditInv
<1>2. CreditInv => EveryCreditIsPaid
  <2> SUFFICES ASSUME CreditInv, NEW t \in Txns
               PROVE  credits[t] <= Cardinality(Paid(t)) + dups + crashes
    BY DEF EveryCreditIsPaid, Paid
  <2> QED  BY Counts DEF Accounted
<1> QED
  BY InitCreditInv, PromptInvariant, <1>1, <1>2, PTL DEF Spec
-----------------------------------------------------------------------------
(* The rows, with any number of subscriptions.  Until a subscription has   *)
(* recorded a leg, and as long as only one has, its row belongs to one     *)
(* prompt.                                                                 *)
Booking == {"idle", "loop", "save", "create"}

Distinct(legs) == \A i, j \in DOMAIN legs : legs[i].txn = legs[j].txn => i = j

One(S) == \A x, y \in S : x = y

(* While a request books, each leg is appended once; what is marked is not *)
(* for the phone.                                                          *)
StageInv ==
    \A r \in Requests : /\ pc[r] \in Booking => Distinct(allocs[r])
                        /\ pc[r] = "mark" => ~IsPushed(r)

(* The legs a subscription is at, and the messages that wait for it: it    *)
(* has recorded none of them, and no leg comes twice.                      *)
Queue(c) == 0 .. Len(inbox[c])
Message(c, m) == IF m = 0 THEN work[c] ELSE inbox[c][m]

WaitsWell(c) ==
    \A m \in Queue(c) :
        /\ \A i \in DOMAIN Message(c, m) : c \notin recorders[Message(c, m)[i].txn]
        /\ Distinct(Message(c, m))
        /\ \A n \in Queue(c) : m # n =>
              \A i \in DOMAIN Message(c, m), j \in DOMAIN Message(c, n) :
                  Message(c, m)[i].txn[1] # Message(c, n)[j].txn[1]

WaitingInv == \A c \in Consumers : WaitsWell(c)

(* What a callback is served for was decided; it goes where the decision   *)
(* says.                                                                   *)
ServedWell(k, h) ==
    /\ delivered[k] # "no" \/ cb[<<k, h>>].stage # "idle" \/ cb[<<k, h>>].txn # {} =>
          checkout[k] \in {"paid", "declined"}
    /\ cb[<<k, h>>].stage \in {"credit", "settle"} => checkout[k] = "paid"
    /\ cb[<<k, h>>].stage = "fail" => checkout[k] = "declined"

ServedInv == \A k \in Checkouts, h \in Handlers : ServedWell(k, h)

(* An answer with a checkout is of a push that succeeded.                  *)
AnswersInv == \A c \in Consumers : \A got \in answer[c] : got.ref # {} => got.status = "initiated"

(* The checkouts whose callback has found the row, and those whose         *)
(* callback may find it.                                                   *)
Finders(t) == {k \in Checkouts : \E h \in Handlers : t \in cb[<<k, h>>].txn}
Claims(t) == txn[t].ref \cup Finders(t)

(* What a row is to a checkout that claims it: not settled yet, or settled *)
(* the way the customer decided.                                           *)
Outcome(k, row) ==
    \/ row.status = "initiated"
    \/ checkout[k] = "paid" /\ row.status = "success" /\ row.final = "credited" /\ row.ref = {}
    \/ checkout[k] = "declined" /\ row.status = "failed"

(* A leg that is not recorded is as BaseDeposit, or the marking, left it,  *)
(* and no callback finds it; one that is recorded is of a request that is  *)
(* over; and one that is recorded once is claimed by one checkout.         *)
RecordedInv ==
    \A t \in Txns :
        /\ recorders[t] = {} =>
              /\ Claims(t) = {}
              /\ t \in Stored => /\ txn[t].status = "success"
                                 /\ txn[t].final \in {"", "instant_credited"}
                                 /\ IsPushed(t[1]) => txn[t].final = ""
        /\ recorders[t] # {} => t \in Stored /\ Complete(t[1])
        /\ One(recorders[t]) => One(Claims(t)) /\ \A k \in Claims(t) : Outcome(k, txn[t])

RowInv == PromptInv /\ OneRef /\ StageInv /\ WaitingInv /\ ServedInv /\ AnswersInv /\ RecordedInv

LEMMA InitRowInv == Init => RowInv
<1> SUFFICES ASSUME Init PROVE RowInv
  OBVIOUS
<1>1. StageInv
  BY DEF Init, StageInv, Distinct
<1>2. \A c \in Consumers : Queue(c) = {0} /\ Message(c, 0) = <<>>
  BY DEF Init, Queue, Message
<1>3. WaitingInv
  BY <1>2 DEF WaitingInv, WaitsWell, Distinct
<1>4. ServedInv /\ AnswersInv
  BY DEF Init, ServedInv, ServedWell, AnswersInv, NotServed
<1>5. RecordedInv
  <2> SUFFICES ASSUME NEW t \in Txns
               PROVE  recorders[t] = {} /\ Claims(t) = {} /\ t \notin Stored
    BY DEF RecordedInv, One
  <2>1. t \notin Stored /\ txn[t].ref = {}
    BY DEF Init, Stored, NoRow, Row
  <2>2. Finders(t) = {}
    BY DEF Init, Finders, NotServed
  <2> QED  BY <2>1, <2>2 DEF Init, Claims
<1> QED
  BY <1>1, <1>3, <1>4, <1>5, InitPromptInv, InitCreditInv DEF RowInv, CreditInv

(* Where a request was a step ago.                                         *)
LEMMA StagesBefore ==
    ASSUME PromptInv, [Next]_vars, NEW r \in Requests
    PROVE  /\ pc'[r] \in Booking => pc[r] \in Booking /\ (CreateTxn(r) \/ allocs'[r] = allocs[r])
           /\ pc'[r] = "mark" => pc[r] # "idle" /\ (pc[r] = "mark" \/ EndLoop(r))
<1>1. TypeOK
  BY DEF PromptInv, PayInv
<1>2. CASE UNCHANGED <<requestVars, saved>>
  BY <1>2 DEF requestVars, Booking
<1>3. CASE Crash
  BY <1>1, <1>3 DEF Crash, TypeOK, InFlight, Booking
<1>4. ASSUME NEW q \in Requests, q # r,
             \/ \E amount \in Amounts, mode \in Modes : Submit(q, amount, mode)
             \/ RequestStep(q) \/ FailRequest(q)
      PROVE  pc'[r] = pc[r] /\ allocs'[r] = allocs[r]
  BY <1>4, OthersWait
<1>5. ASSUME \/ \E amount \in Amounts, mode \in Modes : Submit(r, amount, mode)
             \/ RequestStep(r) \/ FailRequest(r)
      PROVE  /\ pc'[r] \in Booking => pc[r] \in Booking /\ (CreateTxn(r) \/ allocs'[r] = allocs[r])
             /\ pc'[r] = "mark" => pc[r] # "idle" /\ (pc[r] = "mark" \/ EndLoop(r))
  BY <1>1, <1>5 DEF Submit, RequestStep, ReadAccount, SaveAccount, RefuseTxn, Publish, EndLoop,
                    MarkInstant, FailRequest, CreateTxn, TypeOK, Booking
<1> QED
  BY <1>2, <1>3, <1>4, <1>5, RequestFrame

(* Once it is submitted, what a request asked for stays.                   *)
LEMMA AskStays ==
    ASSUME PromptInv, [Next]_vars, NEW r \in Requests, pc[r] # "idle"
    PROVE  ask'[r] = ask[r]
<1>1. CASE UNCHANGED <<requestVars, saved>>
  BY <1>1 DEF requestVars
<1>2. CASE Crash
  BY <1>2 DEF Crash
<1>3. ASSUME NEW q \in Requests, q # r,
             \/ \E amount \in Amounts, mode \in Modes : Submit(q, amount, mode)
             \/ RequestStep(q) \/ FailRequest(q)
      PROVE  ask'[r] = ask[r]
  BY <1>3, OthersWait
<1>4. ~\E amount \in Amounts, mode \in Modes : Submit(r, amount, mode)
  BY DEF Submit
<1>5. ASSUME RequestStep(r) \/ FailRequest(r) PROVE ask'[r] = ask[r]
  BY <1>5 DEF RequestStep, ReadAccount, SaveAccount, RefuseTxn, Publish, EndLoop, MarkInstant,
              FailRequest, CreateTxn
<1> QED
  BY <1>1, <1>2, <1>3, <1>4, <1>5, RequestFrame

(* A leg that waits is of a request that is over, and booked.              *)
LEMMA WaitingLegs ==
    ASSUME PromptInv, NEW c \in Consumers, NEW m \in Queue(c), NEW i \in DOMAIN Message(c, m)
    PROVE  /\ Message(c, m) \in Seq(MessageLegs)
           /\ Message(c, m)[i].txn \in Stored
           /\ Message(c, m)[i].txn \in Txns
           /\ Message(c, m)[i].txn[1] \in Requests
           /\ Complete(Message(c, m)[i].txn[1])
<1>1. work[c] \in Seq(MessageLegs) /\ inbox[c] \in Seq(Seq(MessageLegs))
  BY DEF PromptInv, MessagesAreComplete
<1>2. Message(c, m) \in Seq(MessageLegs)
  BY <1>1 DEF Message, Queue
<1>3. Message(c, m)[i] \in MessageLegs
  BY <1>2
<1> QED
  BY <1>2, <1>3 DEF MessageLegs, OwnLegs, Legs, Txns

(* The leg a subscription records is a waiting one.                        *)
LEMMA RecordsWaiting ==
    ASSUME RowInv, NEW c \in Consumers, Record(c)
    PROVE  LET t == Head(work[c]).txn IN
           /\ 0 \in Queue(c) /\ Message(c, 0) = work[c] /\ 1 \in DOMAIN work[c]
           /\ Head(work[c]) = work[c][1]
           /\ c \notin recorders[t]
           /\ t \in Stored /\ t \in Txns /\ Complete(t[1])
<1>1. work[c] \in Seq(MessageLegs) /\ inbox[c] \in Seq(Seq(MessageLegs)) /\ work[c] # <<>>
  BY DEF RowInv, PromptInv, MessagesAreComplete, Record
<1>2. 0 \in Queue(c) /\ Message(c, 0) = work[c] /\ 1 \in DOMAIN work[c] /\ Head(work[c]) = work[c][1]
  BY <1>1 DEF Queue, Message
<1>3. c \notin recorders[work[c][1].txn]
  BY <1>2 DEF RowInv, WaitingInv, WaitsWell
<1>4. work[c][1].txn \in Stored /\ work[c][1].txn \in Txns /\ Complete(work[c][1].txn[1])
  BY <1>2, WaitingLegs DEF RowInv
<1> QED  BY <1>2, <1>3, <1>4

(* A callback finds what refers to it, and nothing else.                   *)
LEMMA FindersClaim ==
    ASSUME TypeOK, [Next]_vars, NEW t \in Txns
    PROVE  Finders(t)' \subseteq Claims(t)
<1> SUFFICES ASSUME NEW k \in Checkouts, NEW h \in Handlers, t \in cb'[<<k, h>>].txn
             PROVE  k \in txn[t].ref \/ t \in cb[<<k, h>>].txn
  BY DEF Finders, Claims
<1>1. CASE UNCHANGED <<delivered, cb, credits, dups, crashes>>
  BY <1>1
<1>2. ASSUME NEW e \in Checkouts, NEW g \in Handlers,
             Deliver(e, g) \/ Duplicate(e, g) \/ ServeStep(e, g)
      PROVE  k \in txn[t].ref \/ t \in cb[<<k, h>>].txn
  <2>1. CASE <<e, g>> # <<k, h>>
    BY <1>2, <2>1, CallbackSteps
  <2>2. CASE <<e, g>> = <<k, h>>
    <3>1. e = k /\ g = h /\ cb \in [Checkouts \X Handlers -> Served] /\ <<k, h>> \in Checkouts \X Handlers
      BY <2>2 DEF TypeOK
    <3>2. ASSUME Deliver(k, h) \/ Duplicate(k, h) PROVE FALSE
      <4>1. cb' = [cb EXCEPT ![<<k, h>>] = [stage |-> "find", txn |-> {}]]
        BY <3>2 DEF Deliver, Duplicate, StartServing
      <4>2. cb'[<<k, h>>] = [stage |-> "find", txn |-> {}]
        BY <3>1, <4>1
      <4> QED  BY <4>2
    <3>3. ASSUME Lookup(k, h) PROVE k \in txn[t].ref
      <4>1. PICK found \in SUBSET {u \in Txns : k \in txn[u].ref}, next \in {"credit", "fail"} :
              cb' = [cb EXCEPT ![<<k, h>>] = IF found = {} THEN NotServed
                                             ELSE [stage |-> next, txn |-> found]]
        BY <3>3 DEF Lookup
      <4>2. cb'[<<k, h>>] = IF found = {} THEN NotServed ELSE [stage |-> next, txn |-> found]
        BY <3>1, <4>1
      <4>3. cb'[<<k, h>>].txn \subseteq found
        BY <4>2 DEF NotServed
      <4> QED  BY <4>1, <4>3
    <3>4. ASSUME Credit(k, h) PROVE t \in cb[<<k, h>>].txn
      <4>1. cb' = [cb EXCEPT ![<<k, h>>] = [stage |-> "settle", txn |-> @.txn]]
        BY <3>4 DEF Credit
      <4>2. cb'[<<k, h>>] = [stage |-> "settle", txn |-> cb[<<k, h>>].txn]
        BY <3>1, <4>1
      <4> QED  BY <4>2
    <3>5. ASSUME Settle(k, h) PROVE FALSE
      <4>1. cb'[<<k, h>>] = NotServed
        BY <3>1, <3>5 DEF Settle
      <4> QED  BY <4>1 DEF NotServed
    <3> QED  BY <1>2, <3>1, <3>2, <3>3, <3>4, <3>5 DEF ServeStep
  <2> QED  BY <2>1, <2>2
<1>3. ASSUME NEW e \in Checkouts, NEW decision \in {"paid", "declined"}, Decide(e, decision)
      PROVE  cb' = cb
  BY <1>3 DEF Decide
<1>4. Crash => cb'[<<k, h>>].txn = {}
  BY DEF Crash, NotServed
<1> QED
  BY <1>1, <1>2, <1>3, <1>4, CallbackFrame

(* An outcome that was reached is kept while the row is.                   *)
LEMMA OutcomeStays ==
    ASSUME TypeOK, [Next]_vars, NEW k \in Checkouts, NEW row, Outcome(k, row)
    PROVE  Outcome(k, row)'
  BY DecisionsStay DEF Outcome

(* A request books its legs once, and only marks what is not pushed.       *)
LEMMA NextStageInv ==
    ASSUME RowInv, [Next]_vars
    PROVE  StageInv'
<1>1. TypeOK /\ PromptInv /\ StageInv /\ LoopInv
  BY DEF RowInv, PromptInv, PayInv
<1>2. ASSUME NEW r \in Requests, pc'[r] \in Booking PROVE Distinct(allocs'[r])
  <2>1. pc[r] \in Booking /\ Distinct(allocs[r])
    BY <1>1, <1>2, StagesBefore DEF StageInv
  <2>2. CASE allocs'[r] = allocs[r]
    BY <2>1, <2>2
  <2>3. CASE CreateTxn(r)
    <3>1. PICK acc \in hold[r] :
            allocs' = [allocs EXCEPT ![r] =
               Append(@, [txn |-> <<r, acc.account>>, amount |-> plan[r][acc.account]])]
      BY <2>3 DEF CreateTxn
    <3>2. PICK a \in Accounts : a = acc.account
      <4>1. acc \in Holds
        BY <1>1, <3>1 DEF TypeOK
      <4> QED  BY <4>1 DEF Holds
    <3>3. <<r, a>> \notin Stored
      <4>1. plan[r][a] > 0
        BY <1>1, <3>1, <3>2 DEF LoopInv
      <4>2. <<r, a>> \in Stored => plan[r][a] = 0
        BY <1>1 DEF LoopInv
      <4> QED  BY <4>1, <4>2
    <3>4. allocs[r] \in Seq(OwnLegs(r))
      BY <1>1 DEF PromptInv, MessagesAreComplete
    <3>5. \A i \in DOMAIN allocs[r] : allocs[r][i].txn # <<r, a>>
      BY <3>3, <3>4 DEF OwnLegs
    <3>6. PICK leg : leg.txn = <<r, a>> /\ allocs'[r] = Append(allocs[r], leg)
      <4> DEFINE leg == [txn |-> <<r, a>>, amount |-> plan[r][a]]
      <4>1. leg.txn = <<r, a>>
        OBVIOUS
      <4>2. allocs'[r] = Append(allocs[r], leg)
        BY <1>1, <3>1, <3>2 DEF TypeOK
      <4> HIDE DEF leg
      <4> QED  BY <4>1, <4>2
    <3>7. /\ DOMAIN allocs'[r] = 1 .. Len(allocs[r]) + 1 /\ DOMAIN allocs[r] = 1 .. Len(allocs[r])
          /\ \A i \in DOMAIN allocs[r] : allocs'[r][i] = allocs[r][i]
          /\ allocs'[r][Len(allocs[r]) + 1] = leg
          /\ Len(allocs[r]) \in Nat
      BY <3>4, <3>6
    <3> QED  BY <2>1, <3>5, <3>6, <3>7 DEF Distinct
  <2> QED  BY <1>1, <1>2, <2>2, <2>3, StagesBefore
<1>3. ASSUME NEW r \in Requests, pc'[r] = "mark" PROVE ~IsPushed(r)'
  <2>1. pc[r] # "idle" /\ (pc[r] = "mark" \/ EndLoop(r))
    BY <1>1, <1>3, StagesBefore
  <2>2. ask'[r] = ask[r]
    BY <1>1, <2>1, AskStays
  <2>3. EndLoop(r) => ~IsPushed(r)
    BY <1>1, <1>3 DEF EndLoop, TypeOK
  <2> QED  BY <1>1, <2>1, <2>2, <2>3 DEF StageInv, IsPushed
<1> QED  BY <1>2, <1>3 DEF StageInv

(* What a push returns names a checkout only when it succeeded.            *)
LEMMA NextAnswersInv ==
    ASSUME RowInv, [Next]_vars
    PROVE  AnswersInv'
<1>1. TypeOK /\ AnswersInv
  BY DEF RowInv, PromptInv, PayInv
<1> SUFFICES ASSUME NEW c \in Consumers, NEW got \in answer'[c], got.ref # {}
             PROVE  got.status = "initiated"
  BY DEF AnswersInv
<1>2. CASE got \in answer[c]
  BY <1>1, <1>2 DEF AnswersInv
<1>3. CASE got \notin answer[c]
  <2>1. ASSUME NEW d \in Consumers, Push(d) PROVE got.status = "initiated"
    <3> DEFINE e == CheckoutOf(Head(work[d]).txn, d)
    <3>1. PICK outcome \in {"ok"} \cup PushErrors : answer' = [answer EXCEPT ![d] = {ReturnOf(outcome, e)}]
      BY <2>1 DEF Push
    <3>2. got = ReturnOf(outcome, e)
      BY <1>1, <1>3, <3>1 DEF TypeOK
    <3> HIDE DEF e
    <3> QED  BY <3>2 DEF ReturnOf
  <2>2. ASSUME NEW d \in Consumers, Record(d) PROVE FALSE
    <3>1. answer' = [answer EXCEPT ![d] = {}]
      BY <2>2 DEF Record
    <3> QED  BY <1>1, <1>3, <3>1 DEF TypeOK
  <2>3. Stop \/ Crash => answer' = [d \in Consumers |-> {}]
    BY DEF Stop, Crash
  <2>4. answer' # answer
    BY <1>3
  <2> QED
    BY <2>1, <2>2, <2>3, <2>4 DEF Next, RequestStep, ConsumerStep, ServeStep, vars, consumerVars,
       Submit, ReadAccount, SaveAccount, CreateTxn, RefuseTxn, Publish, EndLoop, MarkInstant,
       FailRequest, Take, LoseMessage, Decide, Deliver, Duplicate, Lookup, Credit, Settle
<1> QED  BY <1>2, <1>3

(* What is served was decided.                                             *)
LEMMA NextServedInv ==
    ASSUME RowInv, [Next]_vars
    PROVE  ServedInv'
<1>1. TypeOK /\ \A k \in Checkouts, h \in Handlers : ServedWell(k, h)
  BY DEF RowInv, PromptInv, PayInv, ServedInv
<1> SUFFICES ASSUME NEW k \in Checkouts, NEW h \in Handlers PROVE ServedWell(k, h)'
  BY DEF ServedInv
<1>2. ASSUME cb'[<<k, h>>] = cb[<<k, h>>],
             delivered'[k] # "no" => checkout[k] \in {"paid", "declined"}
      PROVE  ServedWell(k, h)'
  <2>1. CASE checkout[k] \in {"paid", "declined"}
    <3>1. checkout'[k] = checkout[k]
      BY <1>1, <2>1, DecisionsStay
    <3> QED  BY <1>1, <1>2, <2>1, <3>1 DEF ServedWell
  <2>2. CASE checkout[k] \notin {"paid", "declined"}
    <3>1. cb[<<k, h>>].stage = "idle" /\ cb[<<k, h>>].txn = {}
      BY <1>1, <2>2 DEF ServedWell, TypeOK, Served
    <3> QED  BY <1>2, <2>2, <3>1 DEF ServedWell
  <2> QED  BY <2>1, <2>2
<1>3. UNCHANGED <<cb, delivered>> => ServedWell(k, h)'
  BY <1>1, <1>2 DEF ServedWell
<1>4. ASSUME NEW e \in Checkouts, NEW g \in Handlers, Deliver(e, g) \/ Duplicate(e, g)
      PROVE  ServedWell(k, h)'
  <2>1. /\ checkout' = checkout /\ checkout[e] \in {"paid", "declined"}
        /\ cb' = [cb EXCEPT ![<<e, g>>] = [stage |-> "find", txn |-> {}]]
        /\ delivered' = delivered \/ delivered' = [delivered EXCEPT ![e] = "sent"]
    BY <1>1, <1>4 DEF Deliver, Duplicate, StartServing, gatewayVars, ServedWell
  <2>2. CASE e = k /\ g = h
    BY <1>1, <2>1, <2>2 DEF ServedWell, TypeOK
  <2>3. CASE ~(e = k /\ g = h)
    BY <1>1, <1>2, <2>1, <2>3 DEF ServedWell, TypeOK
  <2> QED  BY <2>2, <2>3
<1>5. ASSUME NEW e \in Checkouts, NEW g \in Handlers, Lookup(e, g)
      PROVE  ServedWell(k, h)'
  <2>1. PICK ok \in BOOLEAN :
          LET found == {t \in Txns : ok /\ e \in txn[t].ref}
              next == IF checkout[e] = "paid" THEN "credit" ELSE "fail"
          IN  cb' = [cb EXCEPT ![<<e, g>>] = IF found = {} THEN NotServed
                                         ELSE [stage |-> next, txn |-> found]]
    BY <1>5 DEF Lookup
  <2>2. UNCHANGED <<txn, checkout, delivered>> /\ checkout[e] \in {"paid", "declined"}
    BY <1>1, <1>5 DEF Lookup, dbVars, gatewayVars, ServedWell
  <2>3. CASE e = k /\ g = h
    <3> DEFINE found == {t \in Txns : ok /\ k \in txn[t].ref}
               now == IF found = {} THEN NotServed
                      ELSE [stage |-> IF checkout[k] = "paid" THEN "credit" ELSE "fail",
                            txn |-> found]
    <3>1. cb'[<<k, h>>] = now
      BY <1>1, <2>1, <2>3 DEF TypeOK
    <3>2. /\ now.stage \in {"credit", "settle"} => checkout[k] = "paid"
          /\ now.stage = "fail" => checkout[k] = "declined"
      BY <2>2, <2>3 DEF NotServed
    <3> HIDE DEF now
    <3> QED  BY <2>2, <2>3, <3>1, <3>2 DEF ServedWell
  <2>4. CASE ~(e = k /\ g = h)
    BY <1>1, <1>2, <2>1, <2>2, <2>4 DEF ServedWell, TypeOK
  <2> QED  BY <2>3, <2>4
<1>6. ASSUME NEW e \in Checkouts, NEW g \in Handlers, Credit(e, g)
      PROVE  ServedWell(k, h)'
  <2>1. /\ cb' = [cb EXCEPT ![<<e, g>>] = [stage |-> "settle", txn |-> @.txn]]
        /\ cb[<<e, g>>].stage = "credit" /\ UNCHANGED <<txn, checkout, delivered>>
    BY <1>6 DEF Credit, gatewayVars
  <2>2. CASE e = k /\ g = h
    <3>1. cb'[<<k, h>>].stage = "settle" /\ cb'[<<k, h>>].txn = cb[<<k, h>>].txn
      BY <1>1, <2>1, <2>2 DEF TypeOK
    <3> QED  BY <1>1, <2>1, <2>2, <3>1 DEF ServedWell
  <2>3. CASE ~(e = k /\ g = h)
    BY <1>1, <1>2, <2>1, <2>3 DEF ServedWell, TypeOK
  <2> QED  BY <2>2, <2>3
<1>7. ASSUME NEW e \in Checkouts, NEW g \in Handlers, Settle(e, g)
      PROVE  ServedWell(k, h)'
  <2>1. /\ cb' = [cb EXCEPT ![<<e, g>>] = NotServed] /\ checkout' = checkout
        /\ delivered' = [delivered EXCEPT ![e] = "answered"]
        /\ cb[<<e, g>>].stage \in {"settle", "fail"}
    BY <1>7 DEF Settle
  <2>2. checkout[e] \in {"paid", "declined"}
    BY <1>1, <2>1 DEF ServedWell
  <2>3. CASE e = k /\ g = h
    BY <1>1, <2>1, <2>2, <2>3 DEF ServedWell, TypeOK, NotServed
  <2>4. CASE ~(e = k /\ g = h)
    BY <1>1, <1>2, <2>1, <2>2, <2>4 DEF ServedWell, TypeOK
  <2> QED  BY <2>3, <2>4
<1>8. CASE Crash
  <2>1. cb' = [s \in Checkouts \X Handlers |-> NotServed] /\ UNCHANGED <<checkout, delivered>>
    BY <1>8 DEF Crash, gatewayVars
  <2> QED  BY <1>1, <2>1 DEF ServedWell, NotServed
<1>9. ASSUME NEW r \in Requests,
             \/ \E amount \in Amounts, mode \in Modes : Submit(r, amount, mode)
             \/ RequestStep(r) \/ FailRequest(r)
      PROVE  UNCHANGED <<cb, delivered>>
  BY <1>9 DEF Submit, RequestStep, ReadAccount, SaveAccount, CreateTxn, RefuseTxn, Publish, EndLoop,
              MarkInstant, FailRequest, gatewayVars
<1>10. ASSUME NEW c \in Consumers, ConsumerStep(c) \/ LoseMessage(c)
       PROVE  UNCHANGED <<cb, delivered>>
  BY <1>10 DEF ConsumerStep, Take, Push, LoseMessage, Record, gatewayVars
<1>11. Stop \/ UNCHANGED vars \/ (\E e \in Checkouts : \E decision \in {"paid", "declined"} : Decide(e, decision))
       => UNCHANGED <<cb, delivered>>
  BY DEF Stop, vars, gatewayVars, Decide
<1> QED
  BY <1>3, <1>4, <1>5, <1>6, <1>7, <1>8, <1>9, <1>10, <1>11 DEF Next, ServeStep

(* A message of the new queue is the rest of one of the old queue, each of *)
(* another.                                                                *)
RestOf(c, m, n, d) ==
    \A i \in DOMAIN Message(c, m)' :
        /\ i \in Nat /\ i + d \in DOMAIN Message(c, n)
        /\ Message(c, m)'[i] = Message(c, n)[i + d]

LEMMA QueueShrinks ==
    ASSUME NEW c \in Consumers, WaitsWell(c), NEW f, NEW d,
           \A m \in Queue(c)' : f[m] \in Queue(c) /\ d[m] \in Nat /\ RestOf(c, m, f[m], d[m]),
           \A m, n \in Queue(c)' : f[m] = f[n] => m = n,
           \A m \in Queue(c)' : \A i \in DOMAIN Message(c, m)' :
               c \notin recorders'[Message(c, m)'[i].txn]
    PROVE  WaitsWell(c)'
<1>1. ASSUME NEW m \in Queue(c)' PROVE Distinct(Message(c, m)')
  <2>1. Distinct(Message(c, f[m])) /\ d[m] \in Nat /\ RestOf(c, m, f[m], d[m])
    BY <1>1 DEF WaitsWell
  <2> QED  BY <2>1 DEF Distinct, RestOf
<1>2. ASSUME NEW m \in Queue(c)', NEW n \in Queue(c)', m # n,
             NEW i \in DOMAIN Message(c, m)', NEW j \in DOMAIN Message(c, n)'
      PROVE  Message(c, m)'[i].txn[1] # Message(c, n)'[j].txn[1]
  <2>1. f[m] \in Queue(c) /\ f[n] \in Queue(c) /\ f[m] # f[n]
    BY <1>2
  <2>2. /\ i + d[m] \in DOMAIN Message(c, f[m]) /\ Message(c, m)'[i] = Message(c, f[m])[i + d[m]]
        /\ j + d[n] \in DOMAIN Message(c, f[n]) /\ Message(c, n)'[j] = Message(c, f[n])[j + d[n]]
    BY <1>2 DEF RestOf
  <2> QED  BY <2>1, <2>2 DEF WaitsWell
<1> QED  BY <1>1, <1>2 DEF WaitsWell, Distinct

(* What a leg was recorded by changes with a record of it only.            *)
LEMMA RecordersGrow ==
    ASSUME RowInv, [Next]_vars, NEW t \in Txns
    PROVE  \/ recorders'[t] = recorders[t]
           \/ \E c \in Consumers : /\ Record(c) /\ t = Head(work[c]).txn
                                   /\ recorders'[t] = recorders[t] \cup {c}
<1>1. PromptInv
  BY DEF RowInv
<1> QED  BY <1>1, RowSteps DEF Kept, Born, Marked, Recorded, Settled

(* What waits for a subscription is not recorded by it.                    *)
LEMMA NextWaitingInv ==
    ASSUME RowInv, [Next]_vars
    PROVE  WaitingInv'
<1>1. TypeOK /\ PromptInv /\ \A c \in Consumers : WaitsWell(c)
  BY DEF RowInv, PromptInv, PayInv, WaitingInv
<1> SUFFICES ASSUME NEW c \in Consumers PROVE WaitsWell(c)'
  BY DEF WaitingInv
<1>2. work[c] \in Seq(MessageLegs) /\ inbox[c] \in Seq(Seq(MessageLegs))
  BY <1>1 DEF PromptInv, MessagesAreComplete
<1>3. \A m \in Queue(c) : DOMAIN Message(c, m) \subseteq Nat
  BY <1>2 DEF Queue, Message
<1>4. ASSUME NEW m \in Queue(c), NEW i \in DOMAIN Message(c, m),
             Record(c) => Head(work[c]).txn # Message(c, m)[i].txn
      PROVE  c \notin recorders'[Message(c, m)[i].txn]
  <2>1. PICK t : t = Message(c, m)[i].txn
    OBVIOUS
  <2>2. t \in Txns
    BY <1>1, <2>1, WaitingLegs
  <2>3. c \notin recorders[t] /\ (Record(c) => Head(work[c]).txn # t)
    BY <1>1, <1>4, <2>1 DEF WaitsWell
  <2>4. c \notin recorders'[t]
    BY <2>2, <2>3, RecordersGrow
  <2> QED  BY <2>1, <2>4
<1>5. CASE inbox'[c] = inbox[c] /\ work'[c] = work[c]
  <2>1. ~Record(c)
    <3>1. work[c] \in Seq(MessageLegs)
      BY <1>2
    <3>2. Record(c) => work[c] # <<>> /\ work'[c] = Tail(work[c])
      BY <1>1 DEF Record, TypeOK
    <3>3. work[c] # <<>> => Tail(work[c]) # work[c]
      <4>1. work[c] # <<>> => Len(Tail(work[c])) # Len(work[c])
        BY <3>1
      <4> QED  BY <4>1
    <3> QED  BY <1>5, <3>1, <3>2, <3>3
  <2>2. Queue(c)' = Queue(c) /\ \A m : Message(c, m)' = Message(c, m)
    BY <1>5 DEF Queue, Message
  <2>3. \A m \in Queue(c) : \A i \in DOMAIN Message(c, m) : c \notin recorders'[Message(c, m)[i].txn]
    BY <1>4, <2>1
  <2> QED  BY <1>1, <2>2, <2>3 DEF WaitsWell
<1>6. CASE Take(c)
  <2>1. /\ work'[c] = inbox[c][1] /\ inbox'[c] = Tail(inbox[c]) /\ recorders' = recorders
        /\ Len(inbox[c]) \in Nat \ {0}
    BY <1>1, <1>2, <1>6 DEF Take, TypeOK, ledgerVars
  <2>2. Queue(c)' = 0 .. Len(inbox[c]) - 1 /\ \A m \in Queue(c)' : m + 1 \in Queue(c)
    BY <1>2, <2>1 DEF Queue
  <2>3. \A m \in Queue(c)' : Message(c, m)' = Message(c, m + 1)
    BY <1>2, <2>1, <2>2 DEF Message
  <2> DEFINE f == [m \in Queue(c)' |-> m + 1]
             d == [m \in Queue(c)' |-> 0]
  <2>4. \A m \in Queue(c)' : f[m] \in Queue(c) /\ d[m] \in Nat /\ RestOf(c, m, f[m], d[m])
    BY <1>3, <2>2, <2>3 DEF RestOf
  <2>5. \A m, n \in Queue(c)' : f[m] = f[n] => m = n
    BY <2>2
  <2>6. \A m \in Queue(c)' : \A i \in DOMAIN Message(c, m)' :
          c \notin recorders'[Message(c, m)'[i].txn]
    BY <1>1, <2>1, <2>2, <2>3 DEF WaitsWell
  <2> HIDE DEF f, d
  <2> QED  BY <1>1, <2>4, <2>5, <2>6, QueueShrinks
<1>7. CASE LoseMessage(c)
  <2>1. /\ work'[c] = work[c] /\ inbox'[c] = Tail(inbox[c]) /\ recorders' = recorders
        /\ Len(inbox[c]) \in Nat \ {0}
    BY <1>1, <1>2, <1>7 DEF LoseMessage, TypeOK, ledgerVars
  <2> DEFINE f == [m \in Queue(c)' |-> IF m = 0 THEN 0 ELSE m + 1]
             d == [m \in Queue(c)' |-> 0]
  <2>2. Queue(c)' = 0 .. Len(inbox[c]) - 1 /\ \A m \in Queue(c)' : f[m] \in Queue(c)
    BY <1>2, <2>1 DEF Queue
  <2>3. \A m \in Queue(c)' : Message(c, m)' = Message(c, f[m])
    BY <1>2, <2>1, <2>2 DEF Message
  <2>4. \A m \in Queue(c)' : f[m] \in Queue(c) /\ d[m] \in Nat /\ RestOf(c, m, f[m], d[m])
    <3> HIDE DEF f
    <3> QED  BY <1>3, <2>2, <2>3 DEF RestOf
  <2>5. \A m, n \in Queue(c)' : f[m] = f[n] => m = n
    BY <2>2
  <2> HIDE DEF f, d
  <2>6. \A m \in Queue(c)' : \A i \in DOMAIN Message(c, m)' :
          c \notin recorders'[Message(c, m)'[i].txn]
    BY <1>1, <2>1, <2>2, <2>3 DEF WaitsWell
  <2> QED  BY <1>1, <2>4, <2>5, <2>6, QueueShrinks
<1>8. CASE Record(c)
  <2>1. /\ work'[c] = Tail(work[c]) /\ inbox'[c] = inbox[c] /\ work[c] # <<>>
        /\ Head(work[c]) = work[c][1]
    <3>1. work'[c] = Tail(work[c]) /\ inbox'[c] = inbox[c] /\ work[c] # <<>>
      BY <1>1, <1>8 DEF Record, TypeOK
    <3> QED  BY <1>2, <3>1
  <2>2. Queue(c)' = Queue(c) /\ 0 \in Queue(c) /\ Message(c, 0) = work[c]
    BY <1>2, <2>1 DEF Queue, Message
  <2>3. /\ \A m \in Queue(c) : m # 0 => Message(c, m)' = Message(c, m)
        /\ Message(c, 0)' = Tail(work[c])
    BY <2>1 DEF Message
  <2>4. \A i \in DOMAIN Tail(work[c]) :
          i \in Nat /\ i + 1 \in DOMAIN work[c] /\ Tail(work[c])[i] = work[c][i + 1] /\ i + 1 # 1
    BY <1>2, <2>1
  <2>5. 1 \in DOMAIN work[c]
    BY <1>2, <2>1
  <2> DEFINE f == [m \in Queue(c)' |-> m]
             d == [m \in Queue(c)' |-> IF m = 0 THEN 1 ELSE 0]
  <2>6. \A m \in Queue(c)' : f[m] \in Queue(c) /\ d[m] \in Nat /\ RestOf(c, m, f[m], d[m])
    <3> SUFFICES ASSUME NEW m \in Queue(c)
                 PROVE  f[m] = m /\ d[m] \in Nat /\ RestOf(c, m, m, d[m])
      BY <2>2
    <3>1. CASE m = 0
      <4>1. d[m] = 1 /\ f[m] = m
        BY <2>2, <3>1
      <4>2. RestOf(c, m, m, 1)
        BY <2>2, <2>3, <2>4, <3>1 DEF RestOf
      <4> QED  BY <4>1, <4>2
    <3>2. CASE m # 0
      <4>1. d[m] = 0 /\ f[m] = m
        BY <2>2, <3>2
      <4>2. RestOf(c, m, m, 0)
        BY <1>3, <2>3, <3>2 DEF RestOf
      <4> QED  BY <4>1, <4>2
    <3> QED  BY <3>1, <3>2
  <2>7. \A m, n \in Queue(c)' : f[m] = f[n] => m = n
    OBVIOUS
  <2>8. ASSUME NEW m \in Queue(c)', NEW i \in DOMAIN Message(c, m)'
        PROVE  c \notin recorders'[Message(c, m)'[i].txn]
    <3>1. CASE m = 0
      <4>1. i + 1 \in DOMAIN work[c] /\ i + 1 # 1 /\ Message(c, m)'[i] = work[c][i + 1]
        BY <2>3, <2>4, <2>8, <3>1
      <4>2. work[c][i + 1].txn # work[c][1].txn
        BY <1>1, <2>2, <2>5, <4>1 DEF WaitsWell, Distinct
      <4>3. Record(c) => Head(work[c]).txn # work[c][i + 1].txn
        BY <2>1, <4>2
      <4>4. c \notin recorders'[work[c][i + 1].txn]
        BY <1>4, <2>2, <4>1, <4>3
      <4> QED  BY <4>1, <4>4
    <3>2. CASE m # 0
      <4>1. m \in Queue(c) /\ Message(c, m)' = Message(c, m)
        BY <2>2, <2>3, <2>8, <3>2
      <4>2. Message(c, m)[i].txn[1] # work[c][1].txn[1]
        BY <1>1, <2>2, <2>5, <2>8, <3>2, <4>1 DEF WaitsWell
      <4>3. Record(c) => Head(work[c]).txn # Message(c, m)[i].txn
        BY <2>1, <4>2
      <4>4. c \notin recorders'[Message(c, m)[i].txn]
        BY <1>4, <2>8, <4>1, <4>3
      <4> QED  BY <4>1, <4>4
    <3> QED  BY <3>1, <3>2
  <2> HIDE DEF f, d
  <2> QED  BY <1>1, <2>6, <2>7, <2>8, QueueShrinks
<1>9. ASSUME NEW r \in Requests, Publish(r) PROVE WaitsWell(c)'
  <2>1. /\ pc[r] = "loop" /\ work'[c] = work[c] /\ inbox'[c] = Append(inbox[c], allocs[r])
        /\ recorders' = recorders
    BY <1>1, <1>9 DEF Publish, TypeOK, ledgerVars
  <2> PICK last : last = Len(inbox[c]) + 1
    OBVIOUS
  <2>2. Queue(c)' = Queue(c) \cup {last} /\ last \notin Queue(c) /\ last # 0
    BY <1>2, <2>1 DEF Queue
  <2>3. /\ \A m \in Queue(c) : Message(c, m)' = Message(c, m)
        /\ Message(c, last)' = allocs[r]
    <3>1. inbox[c] \in Seq(Seq(MessageLegs)) /\ last = Len(inbox[c]) + 1 /\ last # 0
      BY <1>2, <2>2
    <3>2. /\ inbox'[c][last] = allocs[r]
          /\ \A m \in 1 .. Len(inbox[c]) : inbox'[c][m] = inbox[c][m]
      BY <2>1, <3>1
    <3>3. \A m \in Queue(c) : m = 0 \/ m \in 1 .. Len(inbox[c])
      BY <3>1 DEF Queue
    <3> QED  BY <2>1, <2>2, <3>2, <3>3 DEF Message
  <2>4. \A i \in DOMAIN allocs[r] :
          allocs[r][i].txn \in Stored /\ allocs[r][i].txn[1] = r /\ allocs[r][i].txn \in Txns
    <3>1. allocs[r] \in Seq(OwnLegs(r))
      BY <1>1 DEF PromptInv, MessagesAreComplete
    <3> QED  BY <3>1 DEF OwnLegs, Legs
  <2>5. Distinct(allocs[r]) /\ \A i \in DOMAIN allocs[r] : recorders[allocs[r][i].txn] = {}
    <3>1. Distinct(allocs[r])
      BY <2>1 DEF RowInv, StageInv, Booking
    <3>2. \A t \in Txns : t[1] = r => recorders[t] = {}
      BY <2>1 DEF RowInv, RecordedInv, Complete
    <3> QED  BY <2>4, <3>1, <3>2
  <2>6. \A m \in Queue(c) : \A i \in DOMAIN Message(c, m) : Message(c, m)[i].txn[1] # r
    BY <1>1, <2>1, WaitingLegs DEF Complete
  <2>7. ASSUME NEW m \in Queue(c)'
        PROVE  /\ \A i \in DOMAIN Message(c, m)' : c \notin recorders'[Message(c, m)'[i].txn]
               /\ Distinct(Message(c, m)')
    <3>1. CASE m \in Queue(c)
      <4>1. Message(c, m)' = Message(c, m)
        BY <2>3, <3>1
      <4> QED  BY <1>1, <2>1, <3>1, <4>1 DEF WaitsWell
    <3>2. CASE m = last
      <4>1. Message(c, m)' = allocs[r]
        BY <2>3, <3>2
      <4> QED  BY <2>1, <2>5, <4>1
    <3> QED  BY <2>2, <2>7, <3>1, <3>2
  <2>8. ASSUME NEW m \in Queue(c)', NEW n \in Queue(c)', m # n,
               NEW i \in DOMAIN Message(c, m)', NEW j \in DOMAIN Message(c, n)'
        PROVE  Message(c, m)'[i].txn[1] # Message(c, n)'[j].txn[1]
    <3>1. CASE m \in Queue(c) /\ n \in Queue(c)
      BY <1>1, <2>3, <2>8, <3>1 DEF WaitsWell
    <3>2. CASE m = last
      <4>1. n \in Queue(c) /\ i \in DOMAIN allocs[r] /\ j \in DOMAIN Message(c, n)
        BY <2>2, <2>3, <2>8, <3>2
      <4> QED  BY <2>3, <2>4, <2>6, <3>2, <4>1
    <3>3. CASE n = last
      <4>1. m \in Queue(c) /\ j \in DOMAIN allocs[r] /\ i \in DOMAIN Message(c, m)
        BY <2>2, <2>3, <2>8, <3>3
      <4> QED  BY <2>3, <2>4, <2>6, <3>3, <4>1
    <3> QED  BY <2>2, <3>1, <3>2, <3>3
  <2> QED  BY <2>1, <2>7, <2>8 DEF WaitsWell, Distinct
<1>10. CASE Stop \/ Crash
  <2>1. inbox'[c] = <<>> /\ work'[c] = <<>>
    BY <1>10 DEF Stop, Crash
  <2>2. Queue(c)' = {0} /\ Message(c, 0)' = <<>>
    BY <2>1 DEF Queue, Message
  <2> QED  BY <2>2 DEF WaitsWell, Distinct
<1>11. ASSUME NEW r \in Requests,
              \/ \E amount \in Amounts, mode \in Modes : Submit(r, amount, mode)
              \/ \E a \in Accounts : ReadAccount(r, a)
              \/ SaveAccount(r) \/ CreateTxn(r) \/ RefuseTxn(r) \/ EndLoop(r) \/ MarkInstant(r)
              \/ FailRequest(r)
       PROVE  UNCHANGED <<inbox, work>>
  BY <1>11 DEF Submit, ReadAccount, SaveAccount, CreateTxn, RefuseTxn, EndLoop, MarkInstant,
               FailRequest, consumerVars
<1>12. ASSUME NEW e \in Consumers, Push(e) PROVE UNCHANGED <<inbox, work>>
  BY <1>12 DEF Push
<1>13. ASSUME NEW k \in Checkouts,
              \/ \E decision \in {"paid", "declined"} : Decide(k, decision)
              \/ \E h \in Handlers : Deliver(k, h) \/ Duplicate(k, h) \/ ServeStep(k, h)
       PROVE  UNCHANGED <<inbox, work>>
  BY <1>13 DEF Decide, Deliver, Duplicate, ServeStep, Lookup, Credit, Settle, consumerVars
<1>14. UNCHANGED vars => UNCHANGED <<inbox, work>>
  BY DEF vars, consumerVars
<1>15. ASSUME NEW e \in Consumers, Take(e) \/ LoseMessage(e) \/ Record(e) PROVE WaitsWell(c)'
  <2>1. e # c => inbox'[c] = inbox[c] /\ work'[c] = work[c]
    BY <1>1, <1>15 DEF Take, LoseMessage, Record, TypeOK
  <2> QED  BY <1>5, <1>6, <1>7, <1>8, <1>15, <2>1
<1> QED
  BY <1>5, <1>9, <1>10, <1>11, <1>12, <1>13, <1>14, <1>15 DEF Next, RequestStep, ConsumerStep

(* What is known of a leg, whichever way its row changes.                  *)
LEMMA NextRecordedInv ==
    ASSUME RowInv, [Next]_vars
    PROVE  RecordedInv'
<1>1. /\ TypeOK /\ PromptInv /\ PayInv /\ OneRef /\ StageInv /\ ServedInv /\ AnswersInv /\ LoopInv
      /\ txn \in [Txns -> TxnRows] /\ CallbacksAreOwn
  BY DEF RowInv, PromptInv, PayInv, TypeOK
<1> SUFFICES ASSUME NEW t \in Txns
             PROVE  /\ recorders'[t] = {} =>
                          /\ Claims(t)' = {}
                          /\ t \in Stored' => /\ txn'[t].status = "success"
                                              /\ txn'[t].final \in {"", "instant_credited"}
                                              /\ IsPushed(t[1])' => txn'[t].final = ""
                    /\ recorders'[t] # {} => t \in Stored' /\ Complete(t[1])'
                    /\ One(recorders'[t]) =>
                          One(Claims(t)') /\ \A k \in Claims(t)' : Outcome(k, txn[t])'
  BY DEF RecordedInv
<1>2. /\ recorders[t] = {} =>
            /\ Claims(t) = {}
            /\ t \in Stored => /\ txn[t].status = "success"
                               /\ txn[t].final \in {"", "instant_credited"}
                               /\ IsPushed(t[1]) => txn[t].final = ""
      /\ recorders[t] # {} => t \in Stored /\ Complete(t[1])
      /\ One(recorders[t]) => One(Claims(t)) /\ \A k \in Claims(t) : Outcome(k, txn[t])
  BY DEF RowInv, RecordedInv
<1>3. t[1] \in Requests /\ Finders(t)' \subseteq Claims(t) /\ Claims(t)' = txn'[t].ref \cup Finders(t)'
  BY <1>1, FindersClaim DEF Txns, Claims
<1>4. Claims(t) \subseteq Checkouts
  BY <1>1 DEF Claims, Finders, TxnRows
<1>5. t \in Stored => IsPushed(t[1])' = IsPushed(t[1])
  <2> SUFFICES ASSUME t \in Stored PROVE ask'[t[1]] = ask[t[1]]
    BY DEF IsPushed
  <2>1. t = <<t[1], t[2]>> /\ t[2] \in Accounts
    BY DEF Txns
  <2>2. pc[t[1]] # "idle"
    BY <1>1, <1>3, <2>1 DEF LoopInv
  <2> QED  BY <1>1, <1>3, <2>2, AskStays
<1>6. \A k \in Claims(t) : \A row : Outcome(k, row) => Outcome(k, row)'
  BY <1>1, <1>4, OutcomeStays
<1>7. t \in Stored => t \in Stored'
  BY <1>1, AmountsStay
<1>8. recorders[t] # {} => Complete(t[1])'
  BY <1>1, <1>2, <1>3, CompleteStays
<1>9. CASE Kept(t)
  <2>1. txn'[t] = txn[t] /\ recorders'[t] = recorders[t]
    BY <1>9 DEF Kept
  <2>2. Claims(t)' \subseteq Claims(t)
    BY <1>3, <2>1 DEF Claims
  <2>3. t \in Stored' => t \in Stored
    BY <2>1 DEF Stored
  <2>4. ASSUME One(recorders'[t])
        PROVE  One(Claims(t)') /\ \A k \in Claims(t)' : Outcome(k, txn[t])'
    <3>1. One(Claims(t)) /\ \A k \in Claims(t) : Outcome(k, txn[t])
      BY <1>2, <2>1, <2>4
    <3>2. \A k \in Claims(t)' : Outcome(k, txn[t])'
      <4>1. PICK row : row = txn[t]
        OBVIOUS
      <4>2. \A k \in Claims(t)' : Outcome(k, row)'
        BY <1>6, <2>2, <3>1, <4>1
      <4> QED  BY <2>1, <4>1, <4>2 DEF Outcome
    <3> QED  BY <2>2, <3>1, <3>2 DEF One
  <2> QED  BY <1>2, <1>5, <1>7, <1>8, <2>1, <2>2, <2>3, <2>4
<1>10. CASE Born(t)
  <2>1. /\ t \notin Stored /\ txn'[t].status = "success" /\ txn'[t].final = ""
        /\ txn'[t].ref = {} /\ recorders'[t] = recorders[t]
    BY <1>10 DEF Born
  <2>2. recorders[t] = {} /\ Claims(t) = {}
    BY <1>2, <2>1
  <2>3. Claims(t)' = {}
    BY <1>3, <2>1, <2>2
  <2> QED  BY <2>1, <2>2, <2>3 DEF One
<1>11. CASE Marked(t)
  <2>1. PICK r \in Requests : t[1] = r /\ pc[r] = "mark"
    BY <1>11 DEF Marked, MarkInstant
  <2>2. recorders[t] = {} /\ recorders'[t] = recorders[t] /\ t \in Stored
    BY <1>2, <1>11, <2>1 DEF Marked, Complete
  <2>3. /\ txn'[t].status = "success" /\ txn'[t].final = "instant_credited"
        /\ txn'[t].ref = txn[t].ref
    <3> DEFINE row == Row("success", txn[t].amount, txn[t].ref, "instant_credited")
    <3>1. txn'[t].status = row.status /\ txn'[t].final = row.final /\ txn'[t].ref = row.ref
      BY <1>11 DEF Marked
    <3> QED  BY <3>1 DEF Row
  <2>4. Claims(t) = {} /\ txn[t].ref = {} /\ Claims(t)' = {}
    BY <1>2, <1>3, <2>2, <2>3 DEF Claims
  <2>5. ~IsPushed(t[1])'
    BY <1>1, <1>5, <2>1, <2>2 DEF StageInv
  <2> QED  BY <2>2, <2>3, <2>4, <2>5 DEF One
<1>12. CASE Recorded(t)
  <2>1. PICK c \in Consumers :
          /\ Record(c) /\ t = Head(work[c]).txn /\ recorders'[t] = recorders[t] \cup {c}
          /\ \E got \in answer[c] : txn'[t] = Row(got.status, txn[t].amount, got.ref, "")
    BY <1>12 DEF Recorded
  <2>2. PICK got \in answer[c] : txn'[t] = Row(got.status, txn[t].amount, got.ref, "")
    BY <2>1
  <2>3. c \notin recorders[t] /\ t \in Stored /\ Complete(t[1])
    BY <2>1, RecordsWaiting
  <2>4. recorders'[t] # {} /\ t \in Stored' /\ Complete(t[1])'
    BY <1>1, <1>3, <1>7, <2>1, <2>3, CompleteStays
  <2>5. txn'[t].status = got.status /\ txn'[t].ref = got.ref
    <3> DEFINE row == Row(got.status, txn[t].amount, got.ref, "")
    <3>1. txn'[t].status = row.status /\ txn'[t].ref = row.ref
      BY <2>2
    <3> QED  BY <3>1 DEF Row
  <2>6. ASSUME One(recorders'[t])
        PROVE  One(Claims(t)') /\ \A k \in Claims(t)' : Outcome(k, txn[t])'
    <3>1. recorders[t] = {}
      <4>1. \A d \in recorders[t] : d = c
        BY <2>1, <2>6 DEF One
      <4> QED  BY <2>3, <4>1
    <3>2. Claims(t)' = got.ref
      BY <1>2, <1>3, <2>5, <3>1
    <3>3. One(got.ref)
      BY <1>1 DEF OneRef, One
    <3>4. got.ref # {} => txn'[t].status = "initiated"
      BY <1>1, <2>5 DEF AnswersInv
    <3> QED  BY <3>2, <3>3, <3>4 DEF Outcome
  <2> QED  BY <2>4, <2>6
<1>13. CASE Settled(t)
  <2>1. PICK e \in Checkouts, g \in Handlers :
          /\ t \in cb[<<e, g>>].txn
          /\ \/ /\ cb[<<e, g>>].stage = "fail"
                /\ txn'[t] = Row("failed", txn[t].amount, txn[t].ref, txn[t].final)
             \/ /\ cb[<<e, g>>].stage = "settle"
                /\ txn'[t] = Row("success", txn[t].amount, {}, "credited")
    BY <1>13 DEF Settled
  <2>2. e \in Claims(t) /\ recorders'[t] = recorders[t]
    BY <1>13, <2>1 DEF Claims, Finders, Settled
  <2>3. recorders[t] # {}
    BY <1>2, <2>2
  <2>4. t \in Stored' /\ Complete(t[1])'
    BY <1>2, <1>7, <1>8, <2>3
  <2>5. checkout[e] = IF cb[<<e, g>>].stage = "fail" THEN "declined" ELSE "paid"
    BY <1>1, <2>1 DEF ServedInv, ServedWell
  <2>6. checkout'[e] = checkout[e]
    BY <1>1, <2>5, DecisionsStay
  <2>7. txn'[t].ref \subseteq txn[t].ref /\ Outcome(e, txn[t])'
    <3>1. CASE cb[<<e, g>>].stage = "fail"
      <4> DEFINE row == Row("failed", txn[t].amount, txn[t].ref, txn[t].final)
      <4>1. txn'[t].status = row.status /\ txn'[t].ref = row.ref
        BY <2>1, <3>1
      <4> QED  BY <2>5, <2>6, <3>1, <4>1 DEF Row, Outcome
    <3>2. CASE cb[<<e, g>>].stage = "settle"
      <4> DEFINE row == Row("success", txn[t].amount, {}, "credited")
      <4>1. txn'[t].status = row.status /\ txn'[t].final = row.final /\ txn'[t].ref = row.ref
        BY <2>1, <3>2
      <4> QED  BY <2>5, <2>6, <3>2, <4>1 DEF Row, Outcome
    <3> QED  BY <2>1, <3>1, <3>2
  <2>8. Claims(t)' \subseteq Claims(t)
    BY <1>3, <2>7 DEF Claims
  <2>9. ASSUME One(recorders'[t])
        PROVE  One(Claims(t)') /\ \A k \in Claims(t)' : Outcome(k, txn[t])'
    <3>1. One(Claims(t))
      BY <1>2, <2>2, <2>9
    <3>2. \A k \in Claims(t)' : k = e
      BY <2>2, <2>8, <3>1 DEF One
    <3>3. \A k \in Claims(t)' : Outcome(k, txn[t])'
      BY <2>7, <3>2
    <3> QED  BY <3>2, <3>3 DEF One
  <2> QED  BY <2>2, <2>3, <2>4, <2>9
<1> QED
  BY <1>1, <1>9, <1>10, <1>11, <1>12, <1>13, RowSteps

LEMMA RowInvariant == Spec => []RowInv
<1>1. RowInv /\ [Next]_vars /\ PromptInv' => RowInv'
  BY NextOneRef, NextStageInv, NextWaitingInv, NextServedInv, NextAnswersInv, NextRecordedInv
  DEF RowInv
<1> QED
  BY InitRowInv, PromptInvariant, <1>1, PTL DEF Spec

(* For any number of subscriptions, any accounts, requests, push errors,   *)
(* faults and restarts: the first record of a leg is made on a row nobody  *)
(* has touched, callbacks settle the row once, one way, until another      *)
(* subscription records its own push; each does so once, and only it opens *)
(* the row again.                                                          *)
THEOREM RowsGoForward == Spec => RowsKeepOrder
<1>1. ASSUME RowInv, [Next]_vars, NEW t \in Txns
      PROVE  RowMoves(txn[t], txn'[t]) \/ RecordsOver(t) \/ SettlesOver(t)
  <2>1. /\ txn[t] \in TxnRows /\ PromptInv
        /\ recorders[t] = {} /\ t \in Stored =>
              /\ txn[t].status = "success" /\ txn[t].final \in {"", "instant_credited"}
              /\ IsPushed(t[1]) => txn[t].final = ""
        /\ recorders[t] # {} => Complete(t[1])
        /\ One(recorders[t]) => \A k \in Claims(t) : Outcome(k, txn[t])
    BY <1>1 DEF RowInv, RecordedInv, PromptInv, PayInv, TypeOK
  <2>2. CASE Kept(t)
    BY <2>2 DEF Kept, RowMoves
  <2>3. CASE Born(t)
    BY <2>3 DEF Born, Stored, RowMoves
  <2>4. CASE Marked(t)
    <3>1. t \in Stored /\ pc[t[1]] = "mark"
      BY <2>4 DEF Marked, MarkInstant
    <3>2. txn[t].status = "success" /\ txn[t].final \in {"", "instant_credited"}
      BY <2>1, <3>1 DEF Complete
    <3>4. CASE txn[t].final = ""
      <4>1. txn'[t].final = Row("success", txn[t].amount, txn[t].ref, "instant_credited").final
        BY <2>4 DEF Marked
      <4> QED  BY <3>2, <3>4, <4>1 DEF RowMoves, Row
    <3>5. CASE txn[t].final = "instant_credited"
      <4>1. txn'[t] = txn[t]
        BY <2>1, <2>4, <3>2, <3>5 DEF Marked, Row, TxnRows
      <4> QED  BY <4>1 DEF RowMoves
    <3> QED  BY <3>2, <3>4, <3>5
  <2>5. CASE Recorded(t)
    <3>1. PICK c \in Consumers :
            /\ Record(c) /\ t = Head(work[c]).txn /\ recorders'[t] = recorders[t] \cup {c}
            /\ \E got \in answer[c] : txn'[t] = Row(got.status, txn[t].amount, got.ref, "")
      BY <2>5 DEF Recorded
    <3>2. PICK got \in answer[c] : txn'[t] = Row(got.status, txn[t].amount, got.ref, "")
      BY <3>1
    <3>3. got.status \in {"initiated", "failed"}
      BY <1>1 DEF RowInv, PromptInv, PayInv, TypeOK, Answers
    <3>4. c \notin recorders[t] /\ t \in Stored /\ Complete(t[1])
      BY <1>1, <3>1, RecordsWaiting
    <3>5. txn'[t].status \in {"initiated", "failed"}
      <4>1. txn'[t].status = Row(got.status, txn[t].amount, got.ref, "").status
        BY <3>2
      <4> QED  BY <3>3, <4>1 DEF Row
    <3>6. CASE recorders[t] = {}
      <4>1. txn[t].status = "success" /\ txn[t].final = ""
        BY <2>1, <3>4, <3>6 DEF Complete, IsPushed
      <4> QED  BY <3>5, <4>1 DEF RowMoves
    <3>7. CASE recorders[t] # {}
      BY <3>1, <3>4, <3>5, <3>7 DEF RecordsOver
    <3> QED  BY <3>6, <3>7
  <2>6. CASE Settled(t)
    <3>1. PICK k \in Checkouts, h \in Handlers :
            /\ t \in cb[<<k, h>>].txn
            /\ \/ /\ cb[<<k, h>>].stage = "fail"
                  /\ txn'[t] = Row("failed", txn[t].amount, txn[t].ref, txn[t].final)
               \/ /\ cb[<<k, h>>].stage = "settle"
                  /\ txn'[t] = Row("success", txn[t].amount, {}, "credited")
      BY <2>6 DEF Settled
    <3>2. recorders'[t] = recorders[t] /\ k \in Claims(t)
      BY <2>6, <3>1 DEF Settled, Claims, Finders
    <3>3. CASE cb[<<k, h>>].stage = "fail"
      <4>1. checkout[k] = "declined" /\ txn'[t] = Row("failed", txn[t].amount, txn[t].ref, txn[t].final)
        BY <1>1, <3>1, <3>3 DEF RowInv, ServedInv, ServedWell
      <4>2. txn'[t].status = "failed" /\ txn'[t].final = txn[t].final
        <5> DEFINE row == Row("failed", txn[t].amount, txn[t].ref, txn[t].final)
        <5>1. txn'[t].status = row.status /\ txn'[t].final = row.final
          BY <4>1
        <5> QED  BY <5>1 DEF Row
      <4>3. CASE One(recorders[t])
        <5>1. Outcome(k, txn[t])
          BY <2>1, <3>2, <4>3
        <5>2. txn[t].status = "failed" => txn'[t] = txn[t]
          BY <2>1, <4>1 DEF Row, TxnRows
        <5> QED  BY <4>1, <4>2, <5>1, <5>2 DEF Outcome, RowMoves
      <4>4. CASE ~One(recorders[t])
        BY <3>2, <4>2, <4>4 DEF One, SettlesOver
      <4> QED  BY <4>3, <4>4
    <3>4. CASE cb[<<k, h>>].stage = "settle"
      <4>1. checkout[k] = "paid" /\ txn'[t] = Row("success", txn[t].amount, {}, "credited")
        BY <1>1, <3>1, <3>4 DEF RowInv, ServedInv, ServedWell
      <4>2. txn'[t].status = "success" /\ txn'[t].final = "credited"
        <5> DEFINE row == Row("success", txn[t].amount, {}, "credited")
        <5>1. txn'[t].status = row.status /\ txn'[t].final = row.final
          BY <4>1
        <5> QED  BY <5>1 DEF Row
      <4>3. CASE One(recorders[t])
        <5>1. Outcome(k, txn[t])
          BY <2>1, <3>2, <4>3
        <5>2. txn[t].status = "success" /\ txn[t].final = "credited" /\ txn[t].ref = {}
                => txn'[t] = txn[t]
          BY <2>1, <4>1 DEF Row, TxnRows
        <5> QED  BY <4>1, <4>2, <5>1, <5>2 DEF Outcome, RowMoves
      <4>4. CASE ~One(recorders[t])
        BY <3>2, <4>2, <4>4 DEF One, SettlesOver
      <4> QED  BY <4>3, <4>4
    <3> QED  BY <3>1, <3>3, <3>4
  <2> QED  BY <2>1, <1>1, <2>2, <2>3, <2>4, <2>5, <2>6, RowSteps
<1>2. RowInv /\ [Next]_vars =>
        [\A t \in Txns : RowMoves(txn[t], txn'[t]) \/ RecordsOver(t) \/ SettlesOver(t)]_vars
  BY <1>1
<1> QED
  BY RowInvariant, <1>2, PTL DEF Spec, RowsKeepOrder
=============================================================================
