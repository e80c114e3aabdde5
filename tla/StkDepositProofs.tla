-------------------------- MODULE StkDepositProofs --------------------------
(***************************************************************************)
(* What TLAPS proves of StkDeposit, for every set of accounts, requests,   *)
(* subscriptions and callback goroutines, every opening balance, every     *)
(* amount, every schema and every bound on faults, duplicates and crashes: *)
(* its type invariant, that balances are what was posted to them, and that *)
(* it implements Payment.                                                  *)
(***************************************************************************)
EXTENDS StkDeposit, Sums

(* A typing fact the steps share: the kind of a request.                   *)
LEMMA KindType ==
    ASSUME TypeOK, NEW r \in Requests
    PROVE  Kind(r) \in Kinds
  BY DEF TypeOK, Kind, Kinds

(* The opening balances are balances.                                      *)
LEMMA OpeningType == Opening \in [Accounts -> Balances]
  BY StkDepositAssumption DEF StkDepositAssumption

(* The initial state is well typed.                                        *)
LEMMA InitTypeOK == Init => TypeOK
<1> SUFFICES ASSUME Init PROVE TypeOK
  OBVIOUS
<1> USE StkDepositAssumption DEF StkDepositAssumption, Init
<1>1. balance \in [Accounts -> Balances] /\ posted \in [Accounts -> Totals]
  BY DEF Balances, Totals
<1>2. txn \in [Txns -> TxnRows]
  BY DEF TxnRows, Row, NoRow, Statuses, Finals
<1>3. /\ pc \in [Requests -> InFlight \cup {"idle", "done", "error", "lost"}]
      /\ ask \in [Requests -> [amount : Nat, isReal : BOOLEAN, dryRun : BOOLEAN]]
      /\ plan \in [Requests -> [Accounts -> Nat]]
      /\ hold \in [Requests -> SUBSET Holds]
      /\ allocs \in [Requests -> Seq(Legs)]
  OBVIOUS
<1>4. /\ inbox \in [Consumers -> Seq(Seq(Legs))]
      /\ work \in [Consumers -> Seq(Legs)]
      /\ answer \in [Consumers -> SUBSET Answers]
  OBVIOUS
<1>5. /\ checkout \in [Checkouts -> {"none", "open", "paid", "declined"}]
      /\ asked \in [Checkouts -> Nat]
      /\ delivered \in [Checkouts -> {"no", "sent", "answered"}]
      /\ cb \in [Checkouts \X Handlers -> Served]
  BY DEF NotServed, Served
<1>6. /\ saved \subseteq Txns /\ stale \subseteq Accounts /\ credits \in [Txns -> Nat]
      /\ basis \in [Requests -> [Accounts -> Int]] /\ recorders \in [Txns -> SUBSET Consumers]
      /\ {faults, dups, crashes} \subseteq Nat
  OBVIOUS
<1> QED
  BY <1>1, <1>2, <1>3, <1>4, <1>5, <1>6 DEF TypeOK

(* Starting a request keeps the types: the plan is made of legs.           *)
LEMMA SubmitType ==
    ASSUME TypeOK, NEW r \in Requests, NEW amount \in Amounts, NEW mode \in Modes,
           Submit(r, amount, mode)
    PROVE  TypeOK'
<1> DEFINE kind == IF mode.isReal THEN "real" ELSE "fake"
           pot == TotalPot(kind)
           part(a) == IF pot = 0 THEN 1 ELSE balance[a][kind]
           whole == IF pot = 0 THEN Cardinality(Accounts) ELSE pot
<1>1. ask' \in [Requests -> [amount : Nat, isReal : BOOLEAN, dryRun : BOOLEAN]]
  BY StkDepositAssumption DEF TypeOK, Submit, StkDepositAssumption
<1>2. \/ pc' = [pc EXCEPT ![r] = "error"] /\ plan' = plan
      \/ /\ pc' = [pc EXCEPT ![r] = "loop"]
         /\ \E short \in SUBSET Accounts :
              plan' = [plan EXCEPT ![r] =
                         [a \in Accounts |-> LegAmount(amount, part(a), whole, a \in short)]]
  BY Zenon DEF Submit
<1>3. pc' \in [Requests -> InFlight \cup {"idle", "done", "error", "lost"}]
  <2>1. PICK status \in {"error", "loop"} : pc' = [pc EXCEPT ![r] = status]
    BY <1>2
  <2> QED  BY <2>1 DEF TypeOK, InFlight
<1>4. plan' \in [Requests -> [Accounts -> Nat]]
  <2>1. \A short : [a \in Accounts |-> LegAmount(amount, part(a), whole, a \in short)]
                      \in [Accounts -> Nat]
    BY LegAmountType
  <2>2. PICK legs \in [Accounts -> Nat] : plan' = plan \/ plan' = [plan EXCEPT ![r] = legs]
    <3> HIDE DEF part, whole
    <3> QED  BY <1>2, <2>1 DEF TypeOK
  <2> QED  BY <2>2 DEF TypeOK
<1>5. basis' \in [Requests -> [Accounts -> Int]]
  <2>1. \A a \in Accounts : part(a) \in Int
    BY DEF TypeOK, Balances, Kinds
  <2>2. basis' = basis \/ basis' = [basis EXCEPT ![r] = [a \in Accounts |-> part(a)]]
    BY Zenon DEF Submit
  <2>3. PICK parts \in [Accounts -> Int] : basis' = basis \/ basis' = [basis EXCEPT ![r] = parts]
    <3> HIDE DEF part
    <3> QED  BY <2>1, <2>2
  <2> QED  BY <2>3 DEF TypeOK
<1> QED
  BY <1>1, <1>3, <1>4, <1>5
  DEF TypeOK, Submit, dbVars, consumerVars, gatewayVars, ledgerVars, boundVars

(* So does each statement of SmartDeposit and BaseDeposit.                 *)
LEMMA RequestType ==
    ASSUME TypeOK, NEW r \in Requests, RequestStep(r) \/ FailRequest(r)
    PROVE  TypeOK'
<1>1. ASSUME NEW a \in Accounts, ReadAccount(r, a) PROVE TypeOK'
  BY <1>1 DEF TypeOK, InFlight, ReadAccount, Holds, dbVars, consumerVars, gatewayVars, ledgerVars, boundVars
<1>2. CASE SaveAccount(r)
  <2>1. PICK acc \in hold[r] :
          /\ balance' = [balance EXCEPT ![acc.account] =
                           [acc.row EXCEPT ![Kind(r)] = @ + plan[r][acc.account]]]
          /\ posted' = [posted EXCEPT ![acc.account][Kind(r)] = @ + plan[r][acc.account]]
          /\ saved' = saved \cup {<<r, acc.account>>}
          /\ stale' \in {stale, stale \cup {acc.account}}
    BY <1>2 DEF SaveAccount
  <2>2. /\ acc.account \in Accounts /\ acc.row \in Balances /\ plan[r][acc.account] \in Nat
        /\ Kind(r) \in Kinds
    BY <2>1, KindType DEF TypeOK, Holds
  <2>3. [acc.row EXCEPT ![Kind(r)] = @ + plan[r][acc.account]] \in Balances
    BY <2>2 DEF Balances
  <2>4. balance' \in [Accounts -> Balances]
    BY <2>1, <2>2, <2>3 DEF TypeOK
  <2>5. posted' \in [Accounts -> Totals]
    BY <2>1, <2>2 DEF TypeOK, Balances, Totals
  <2>6. saved' \subseteq Txns /\ stale' \subseteq Accounts
    BY <2>1, <2>2 DEF TypeOK, Txns
  <2> QED
    BY <1>2, <2>4, <2>5, <2>6 DEF TypeOK, InFlight, SaveAccount, consumerVars, gatewayVars, boundVars
<1>3. CASE CreateTxn(r)
  <2>1. PICK acc \in hold[r] :
          /\ txn' = [txn EXCEPT ![<<r, acc.account>>] = Row("success", plan[r][acc.account], {}, "")]
          /\ allocs' = [allocs EXCEPT ![r] =
               Append(@, [txn |-> <<r, acc.account>>, amount |-> plan[r][acc.account]])]
          /\ plan' = [plan EXCEPT ![r][acc.account] = 0]
    BY <1>3 DEF CreateTxn
  <2>2. /\ acc.account \in Accounts /\ plan[r][acc.account] \in Nat
        /\ <<r, acc.account>> \in Txns
    <3>1. acc \in Holds /\ plan[r] \in [Accounts -> Nat]
      BY <2>1 DEF TypeOK
    <3> QED  BY <3>1 DEF Holds, Txns
  <2>3. txn' \in [Txns -> TxnRows]
    BY <2>1, <2>2 DEF TypeOK, TxnRows, Row, Statuses, Finals
  <2>4. allocs' \in [Requests -> Seq(Legs)]
    <3>1. [txn |-> <<r, acc.account>>, amount |-> plan[r][acc.account]] \in Legs
      BY <2>2 DEF Legs
    <3>2. allocs \in [Requests -> Seq(Legs)]
      BY DEF TypeOK
    <3>3. Append(allocs[r], [txn |-> <<r, acc.account>>, amount |-> plan[r][acc.account]]) \in Seq(Legs)
      BY <3>1, <3>2
    <3> QED  BY <2>1, <3>2, <3>3
  <2>5. plan' \in [Requests -> [Accounts -> Nat]]
    BY <2>1, <2>2 DEF TypeOK
  <2> QED
    BY <1>3, <2>3, <2>4, <2>5
    DEF TypeOK, InFlight, CreateTxn, consumerVars, gatewayVars, ledgerVars, boundVars
<1>4. CASE RefuseTxn(r)
  BY <1>4 DEF TypeOK, InFlight, RefuseTxn, dbVars, consumerVars, gatewayVars, ledgerVars, boundVars
<1>5. CASE Publish(r)
  BY <1>5 DEF TypeOK, InFlight, Publish, dbVars, gatewayVars, ledgerVars, boundVars
<1>6. CASE EndLoop(r)
  BY <1>6 DEF TypeOK, InFlight, EndLoop, dbVars, consumerVars, gatewayVars, ledgerVars, boundVars
<1>7. CASE MarkInstant(r)
  <2>1. pc' \in [Requests -> InFlight \cup {"idle", "done", "error", "lost"}]
    BY <1>7 DEF TypeOK, InFlight, MarkInstant
  <2>2. faults' \in Nat
    BY <1>7 DEF TypeOK, MarkInstant, Executed
  <2>3. txn' \in [Txns -> TxnRows] /\ allocs' \in [Requests -> Seq(Legs)]
    <3>1. CASE allocs[r] = <<>>
      BY <1>7, <3>1 DEF TypeOK, MarkInstant
    <3>2. CASE allocs[r] # <<>>
      <4>1. Head(allocs[r]).txn \in Txns /\ Tail(allocs[r]) \in Seq(Legs)
        <5>1. Head(allocs[r]) \in Legs /\ Tail(allocs[r]) \in Seq(Legs)
          BY <3>2 DEF TypeOK
        <5> QED  BY <5>1 DEF Legs
      <4>2. Row("success", txn[Head(allocs[r]).txn].amount, txn[Head(allocs[r]).txn].ref,
                "instant_credited") \in TxnRows
        BY <4>1 DEF TypeOK, Row, TxnRows, Statuses, Finals
      <4>3. /\ \/ txn' = txn
               \/ txn' = [txn EXCEPT ![Head(allocs[r]).txn] =
                            Row("success", @.amount, @.ref, "instant_credited")]
            /\ allocs' = [allocs EXCEPT ![r] = Tail(@)]
        BY <1>7, <3>2 DEF MarkInstant
      <4> QED  BY <4>1, <4>2, <4>3 DEF TypeOK
    <3> QED  BY <3>1, <3>2
  <2> QED
    BY <1>7, <2>1, <2>2, <2>3 DEF TypeOK, MarkInstant, consumerVars, gatewayVars, ledgerVars
<1>8. CASE FailRequest(r)
  BY <1>8 DEF TypeOK, InFlight, FailRequest, Executed, dbVars, consumerVars, gatewayVars, ledgerVars
<1> QED
  BY <1>1, <1>2, <1>3, <1>4, <1>5, <1>6, <1>7, <1>8 DEF RequestStep

(* And each step of a subscription.                                        *)
LEMMA ConsumerType ==
    ASSUME TypeOK, NEW c \in Consumers, ConsumerStep(c) \/ LoseMessage(c)
    PROVE  TypeOK'
<1>0. ASSUME inbox[c] # <<>>
      PROVE  Head(inbox[c]) \in Seq(Legs) /\ Tail(inbox[c]) \in Seq(Seq(Legs))
  <2>1. inbox[c] \in Seq(Seq(Legs))
    BY DEF TypeOK
  <2> QED  BY <1>0, <2>1
<1>1. CASE Take(c)
  <2>1. inbox' \in [Consumers -> Seq(Seq(Legs))] /\ work' \in [Consumers -> Seq(Legs)]
    BY <1>0, <1>1 DEF TypeOK, Take
  <2> QED
    BY <1>1, <2>1 DEF TypeOK, Take, dbVars, requestVars, gatewayVars, ledgerVars, boundVars
<1>2. CASE LoseMessage(c)
  <2>1. inbox' \in [Consumers -> Seq(Seq(Legs))]
    BY <1>0, <1>2 DEF TypeOK, LoseMessage
  <2>2. faults' \in Nat
    BY <1>2 DEF TypeOK, LoseMessage, Executed
  <2> QED
    BY <1>2, <2>1, <2>2 DEF TypeOK, LoseMessage, dbVars, requestVars, gatewayVars, ledgerVars
<1>3. CASE Push(c)
  <2> DEFINE leg == Head(work[c])
             k == CheckoutOf(leg.txn, c)
  <2>1. leg.txn \in Txns /\ leg.amount \in Nat
    <3>1. leg \in Legs
      BY <1>3 DEF TypeOK, Push
    <3> HIDE DEF leg
    <3> QED  BY <3>1 DEF Legs
  <2>2. k \in Checkouts
    BY <2>1 DEF CheckoutOf, Checkouts
  <2>3. leg.amount \div CentsPerKES \in Nat
    BY <2>1 DEF CentsPerKES
  <2> HIDE DEF leg, k
  <2>4. PICK outcome :
          /\ answer' = [answer EXCEPT ![c] = {ReturnOf(outcome, k)}]
          /\ \/ UNCHANGED <<checkout, asked>>
             \/ /\ checkout' = [checkout EXCEPT ![k] = "open"]
                /\ asked' = [asked EXCEPT ![k] = leg.amount \div CentsPerKES]
    BY <1>3 DEF Push, leg, k
  <2>5. answer' \in [Consumers -> SUBSET Answers]
    <3>1. ReturnOf(outcome, k).status = "initiated" \/ ReturnOf(outcome, k).status = "failed"
      BY DEF ReturnOf
    <3>2. ReturnOf(outcome, k).ref \subseteq Checkouts
      BY <2>2 DEF ReturnOf
    <3>3. ReturnOf(outcome, k) \in Answers
      BY <3>1, <3>2 DEF ReturnOf, Answers
    <3> QED  BY <2>4, <3>3 DEF TypeOK
  <2>6. /\ checkout' \in [Checkouts -> {"none", "open", "paid", "declined"}]
        /\ asked' \in [Checkouts -> Nat]
    BY <2>2, <2>3, <2>4 DEF TypeOK
  <2> QED
    BY <1>3, <2>5, <2>6 DEF TypeOK, Push, dbVars, requestVars, ledgerVars, boundVars
<1>4. CASE Record(c)
  <2>1. Head(work[c]).txn \in Txns /\ Tail(work[c]) \in Seq(Legs)
    <3>1. Head(work[c]) \in Legs /\ Tail(work[c]) \in Seq(Legs)
      <4>1. work[c] # <<>>
        BY <1>4 DEF Record
      <4>2. work[c] \in Seq(Legs)
        BY DEF TypeOK
      <4> QED  BY <4>1, <4>2
    <3> QED  BY <3>1 DEF Legs
  <2>2. PICK now \in answer[c] :
          /\ \/ txn' = txn
             \/ txn' = [txn EXCEPT ![Head(work[c]).txn] = Row(now.status, @.amount, now.ref, "")]
          /\ \/ recorders' = recorders
             \/ recorders' = [recorders EXCEPT ![Head(work[c]).txn] = @ \cup {c}]
    BY <1>4 DEF Record
  <2>3. Row(now.status, txn[Head(work[c]).txn].amount, now.ref, "") \in TxnRows
    <3>1. now \in Answers /\ txn[Head(work[c]).txn] \in TxnRows
      BY <2>1, <2>2 DEF TypeOK
    <3> QED  BY <3>1 DEF Answers, TxnRows, Row, Statuses, Finals
  <2>4. txn' \in [Txns -> TxnRows]
    BY <2>1, <2>2, <2>3 DEF TypeOK
  <2>5. faults' \in Nat
    <3>1. \E ok \in BOOLEAN : Executed(ok)
      BY <1>4 DEF Record
    <3>2. faults \in Nat
      BY DEF TypeOK
    <3> QED  BY <3>1, <3>2 DEF Executed
  <2>6. recorders' \in [Txns -> SUBSET Consumers]
    <3>1. PICK t \in Txns : t = Head(work[c]).txn
      BY <2>1
    <3>2. recorders' = recorders \/ recorders' = [recorders EXCEPT ![t] = @ \cup {c}]
      BY <2>2, <3>1
    <3>3. recorders \in [Txns -> SUBSET Consumers]
      BY DEF TypeOK
    <3> QED  BY <3>2, <3>3
  <2>7. work' \in [Consumers -> Seq(Legs)] /\ answer' \in [Consumers -> SUBSET Answers]
    <3>1. work' = [work EXCEPT ![c] = Tail(@)] /\ answer' = [answer EXCEPT ![c] = {}]
      BY <1>4 DEF Record
    <3>2. work[c] # <<>> /\ work[c] \in Seq(Legs)
      BY <1>4 DEF TypeOK, Record
    <3>3. Tail(work[c]) \in Seq(Legs)
      BY <3>2
    <3> QED  BY <3>1, <3>3 DEF TypeOK
  <2>8. UNCHANGED <<balance, requestVars, inbox, gatewayVars, cb, posted, saved, stale, credits, basis,
                    dups, crashes>>
    BY <1>4 DEF Record
  <2>9. {faults, dups, crashes}' \subseteq Nat
    BY <2>5, <2>8 DEF TypeOK
  <2> QED
    BY <2>4, <2>6, <2>7, <2>8, <2>9 DEF TypeOK, requestVars, gatewayVars
<1> QED
  BY <1>1, <1>2, <1>3, <1>4 DEF ConsumerStep

(* And what the customer does with a prompt.                               *)
LEMMA DecideType ==
    ASSUME TypeOK, NEW k \in Checkouts, NEW decision \in {"paid", "declined"}, Decide(k, decision)
    PROVE  TypeOK'
  BY DEF TypeOK, Decide, dbVars, requestVars, consumerVars, ledgerVars, boundVars

(* And each posted callback and each statement that serves it.             *)
LEMMA GatewayType ==
    ASSUME TypeOK, NEW k \in Checkouts, NEW h \in Handlers,
           Deliver(k, h) \/ Duplicate(k, h) \/ ServeStep(k, h)
    PROVE  TypeOK'
<1> USE DEF Served, NotServed
<1>2. CASE Deliver(k, h)
  BY <1>2 DEF TypeOK, Deliver, StartServing, dbVars, requestVars, consumerVars, ledgerVars, boundVars
<1>3. CASE Duplicate(k, h)
  BY <1>3 DEF TypeOK, Duplicate, StartServing, dbVars, requestVars, consumerVars, gatewayVars, ledgerVars
<1>4. CASE Lookup(k, h)
  BY <1>4 DEF TypeOK, Lookup, Executed, dbVars, requestVars, consumerVars, gatewayVars, ledgerVars
<1>5. CASE Credit(k, h)
  <2>1. cb' \in [Checkouts \X Handlers -> Served]
    BY <1>5 DEF TypeOK, Credit
  <2>2. faults' \in Nat
    BY <1>5 DEF TypeOK, Credit, Executed
  <2>3. PICK t \in cb[<<k, h>>].txn :
          \/ UNCHANGED <<balance, posted, credits>>
          \/ /\ balance' = [balance EXCEPT ![t[2]]["real"] = @ + txn[t].amount]
             /\ posted' = [posted EXCEPT ![t[2]]["real"] = @ + txn[t].amount]
             /\ credits' = [credits EXCEPT ![t] = @ + 1]
    BY <1>5 DEF Credit
  <2>4. t \in Txns /\ t[2] \in Accounts /\ txn[t].amount \in Nat
    BY <2>3 DEF TypeOK, Txns, TxnRows
  <2>5. /\ balance' \in [Accounts -> Balances] /\ posted' \in [Accounts -> Totals]
        /\ credits' \in [Txns -> Nat]
    <3>1. /\ balance \in [Accounts -> Balances] /\ posted \in [Accounts -> Totals]
          /\ credits \in [Txns -> Nat]
      BY DEF TypeOK
    <3>2. /\ [balance[t[2]] EXCEPT !["real"] = @ + txn[t].amount] \in Balances
          /\ [posted[t[2]] EXCEPT !["real"] = @ + txn[t].amount] \in Totals
      BY <2>4, <3>1 DEF Balances, Totals, Kinds
    <3> QED  BY <2>3, <2>4, <3>1, <3>2
  <2> QED
    BY <1>5, <2>1, <2>2, <2>5 DEF TypeOK, Credit, requestVars, consumerVars, gatewayVars
<1>6. CASE Settle(k, h)
  <2>1. PICK t \in cb[<<k, h>>].txn :
          \/ txn' = txn
          \/ txn' = [txn EXCEPT ![t] = Row("failed", @.amount, @.ref, @.final)]
          \/ txn' = [txn EXCEPT ![t] = Row("success", @.amount, {}, "credited")]
    BY <1>6 DEF Settle
  <2>2. t \in Txns
    BY <2>1 DEF TypeOK
  <2>3. /\ Row("failed", txn[t].amount, txn[t].ref, txn[t].final) \in TxnRows
        /\ Row("success", txn[t].amount, {}, "credited") \in TxnRows
    BY <2>2 DEF TypeOK, TxnRows, Row, Statuses, Finals
  <2>4. txn' \in [Txns -> TxnRows]
    BY <2>1, <2>2, <2>3 DEF TypeOK
  <2>5. faults' \in Nat
    BY <1>6 DEF TypeOK, Settle, Executed
  <2>6. /\ cb' \in [Checkouts \X Handlers -> Served]
        /\ delivered' \in [Checkouts -> {"no", "sent", "answered"}]
    BY <1>6 DEF TypeOK, Settle
  <2> QED
    BY <1>6, <2>4, <2>5, <2>6 DEF TypeOK, Settle, requestVars, consumerVars, ledgerVars
<1> QED
  BY <1>2, <1>3, <1>4, <1>5, <1>6 DEF ServeStep

(* And a restart.                                                          *)
LEMMA CrashType ==
    ASSUME TypeOK, Crash PROVE TypeOK'
  BY DEF TypeOK, Crash, InFlight, Served, NotServed, dbVars, gatewayVars, ledgerVars

(* And a graceful stop.                                                    *)
LEMMA StopType ==
    ASSUME TypeOK, Stop PROVE TypeOK'
<1>1. faults' \in Nat
  BY DEF TypeOK, Stop, Executed
<1> QED
  BY <1>1 DEF TypeOK, Stop, dbVars, requestVars, gatewayVars, ledgerVars

(* Every step keeps the types, one lemma per actor.                        *)
LEMMA NextTypeOK == TypeOK /\ [Next]_vars => TypeOK'
<1> SUFFICES ASSUME TypeOK, [Next]_vars PROVE TypeOK'
  OBVIOUS
<1>1. CASE UNCHANGED vars
  BY <1>1 DEF TypeOK, vars, dbVars, requestVars, consumerVars, gatewayVars, ledgerVars, boundVars
<1>2. CASE Next
  BY <1>2, SubmitType, RequestType, ConsumerType, DecideType, GatewayType, CrashType, StopType
     DEF Next
<1> QED  BY <1>1, <1>2

(* Every variable of the deposit keeps its type in every behaviour: no     *)
(* rounding, failure, duplicate callback or restart makes a balance or an  *)
(* amount negative or a row refer to something that does not exist.        *)
THEOREM TypeCorrect == Spec => []TypeOK
<1>1. Init => TypeOK
  BY InitTypeOK
<1>2. TypeOK /\ [Next]_vars => TypeOK'
  BY NextTypeOK
<1> QED  BY <1>1, <1>2, PTL DEF Spec
-----------------------------------------------------------------------------
(* The row a handler holds between First and Save was right when it was    *)
(* read, so it never shows more money than was posted since: balances only *)
(* fall by a stale save, what was posted never does.  This is what makes   *)
(* BalancesArePosted inductive.                                            *)
HeldRowsArePosted ==
    \A r \in Requests : \A acc \in hold[r] : \A kind \in Kinds :
        acc.row[kind] <= Opening[acc.account][kind] + posted[acc.account][kind]

LedgerInv == TypeOK /\ BalancesArePosted /\ HeldRowsArePosted

(* Nothing is posted and no row is held at first.                          *)
LEMMA InitLedgerInv == Init => LedgerInv
<1> SUFFICES ASSUME Init PROVE LedgerInv
  OBVIOUS
<1>1. BalancesArePosted
  BY StkDepositAssumption DEF StkDepositAssumption, Init, BalancesArePosted, Balances
<1>2. HeldRowsArePosted
  BY DEF Init, HeldRowsArePosted
<1> QED  BY <1>1, <1>2, InitTypeOK DEF LedgerInv

(* A step that leaves the balances alone and reads no account keeps it.    *)
LEMMA LedgerKept ==
    ASSUME LedgerInv, TypeOK', UNCHANGED <<balance, posted, stale>>,
           \A r \in Requests : hold'[r] \subseteq hold[r]
    PROVE  LedgerInv'
  BY DEF LedgerInv, BalancesArePosted, HeldRowsArePosted

(* Posting an amount to one balance of one account keeps the held rows.    *)
LEMMA PostingKeepsHeld ==
    ASSUME LedgerInv, NEW a \in Accounts, NEW kind \in Kinds, NEW amount \in Nat,
           posted' = [posted EXCEPT ![a][kind] = @ + amount], hold' = hold
    PROVE  HeldRowsArePosted'
<1> SUFFICES ASSUME NEW r \in Requests, NEW acc \in hold[r], NEW other \in Kinds
             PROVE  acc.row[other] <= Opening[acc.account][other] + posted'[acc.account][other]
  BY DEF HeldRowsArePosted
<1>1. /\ acc \in Holds /\ posted \in [Accounts -> Totals]
      /\ acc.row[other] <= Opening[acc.account][other] + posted[acc.account][other]
  BY DEF LedgerInv, TypeOK, HeldRowsArePosted
<1>2. /\ acc.account \in Accounts /\ acc.row[other] \in Int
      /\ posted[acc.account][other] \in Nat /\ Opening[acc.account][other] \in Int
  BY <1>1, StkDepositAssumption DEF StkDepositAssumption, Holds, Balances, Totals
<1>3. posted'[acc.account][other] \in {posted[acc.account][other], posted[acc.account][other] + amount}
  BY <1>1, <1>2 DEF Balances, Totals
<1> QED  BY <1>1, <1>2, <1>3

(* Starting a request only reads the balances.                             *)
LEMMA SubmitLedger ==
    ASSUME LedgerInv, NEW r \in Requests, NEW amount \in Amounts, NEW mode \in Modes,
           Submit(r, amount, mode)
    PROVE  LedgerInv'
  BY LedgerKept, SubmitType DEF LedgerInv, Submit, dbVars, ledgerVars

(* BaseDeposit: a read holds the row as it is, a save adds to what was     *)
(* held, and only over a changed row can it lose what others posted.       *)
LEMMA RequestLedger ==
    ASSUME LedgerInv, NEW r \in Requests, RequestStep(r) \/ FailRequest(r)
    PROVE  LedgerInv'
<1>0. TypeOK /\ TypeOK'
  BY RequestType DEF LedgerInv
<1>1. ASSUME NEW a \in Accounts, ReadAccount(r, a) PROVE LedgerInv'
  <2>1. /\ UNCHANGED <<balance, posted, stale>>
        /\ hold' = [hold EXCEPT ![r] = {[account |-> a, row |-> balance[a]]}]
    BY <1>1 DEF ReadAccount, dbVars, ledgerVars
  <2>2. BalancesArePosted'
    BY <2>1 DEF LedgerInv, BalancesArePosted
  <2>3. HeldRowsArePosted'
    <3> SUFFICES ASSUME NEW q \in Requests, NEW acc \in hold'[q], NEW kind \in Kinds
                 PROVE  acc.row[kind] <= Opening[acc.account][kind] + posted[acc.account][kind]
      BY <2>1 DEF HeldRowsArePosted
    <3>1. CASE q = r
      <4>1. acc = [account |-> a, row |-> balance[a]]
        BY <1>0, <2>1, <3>1 DEF TypeOK
      <4> QED  BY <4>1 DEF LedgerInv, BalancesArePosted
    <3>2. CASE q # r
      <4>1. acc \in hold[q]
        BY <1>0, <2>1, <3>2 DEF TypeOK
      <4> QED  BY <4>1 DEF LedgerInv, HeldRowsArePosted
    <3> QED  BY <3>1, <3>2
  <2> QED  BY <1>0, <2>2, <2>3 DEF LedgerInv
<1>2. CASE SaveAccount(r)
  <2>1. PICK acc \in hold[r] :
          /\ balance' = [balance EXCEPT ![acc.account] =
                           [acc.row EXCEPT ![Kind(r)] = @ + plan[r][acc.account]]]
          /\ posted' = [posted EXCEPT ![acc.account][Kind(r)] = @ + plan[r][acc.account]]
          /\ stale' = IF acc.row = balance[acc.account] THEN stale ELSE stale \cup {acc.account}
          /\ hold' = hold
    BY <1>2 DEF SaveAccount
  <2>2. acc \in Holds /\ plan[r] \in [Accounts -> Nat] /\ Kind(r) \in Kinds
    BY <1>0, <2>1, KindType DEF TypeOK
  <2>3. acc.account \in Accounts /\ acc.row \in Balances /\ plan[r][acc.account] \in Nat
    BY <2>2 DEF Holds
  <2>4. HeldRowsArePosted'
    BY <2>1, <2>2, <2>3, PostingKeepsHeld
  <2>5. BalancesArePosted'
    <3> SUFFICES ASSUME NEW b \in Accounts, NEW kind \in Kinds
                 PROVE  /\ balance'[b][kind] <= Opening[b][kind] + posted'[b][kind]
                        /\ b \notin stale' => balance'[b][kind] = Opening[b][kind] + posted'[b][kind]
      BY DEF BalancesArePosted
    <3>1. /\ balance[b][kind] <= Opening[b][kind] + posted[b][kind]
          /\ b \notin stale => balance[b][kind] = Opening[b][kind] + posted[b][kind]
      BY DEF LedgerInv, BalancesArePosted
    <3>2. /\ balance \in [Accounts -> Balances] /\ posted \in [Accounts -> Totals]
          /\ balance[b][kind] \in Int /\ posted[b][kind] \in Nat /\ Opening[b][kind] \in Int
      <4>1. /\ balance \in [Accounts -> Balances] /\ posted \in [Accounts -> Totals]
            /\ Opening \in [Accounts -> Balances]
        BY <1>0, OpeningType DEF TypeOK
      <4>2. balance[b] \in Balances /\ posted[b] \in Totals /\ Opening[b] \in Balances
        BY <4>1
      <4> QED  BY <4>1, <4>2 DEF Balances, Totals
    <3>3. CASE b # acc.account
      <4>1. balance'[b] = balance[b] /\ posted'[b] = posted[b] /\ (b \notin stale' => b \notin stale)
        BY <2>1, <2>3, <3>2, <3>3
      <4>2. balance'[b][kind] = balance[b][kind] /\ posted'[b][kind] = posted[b][kind]
        BY <4>1
      <4>3. CASE b \notin stale'
        BY <3>1, <4>1, <4>2, <4>3
      <4>4. CASE b \in stale'
        BY <3>1, <4>2, <4>4
      <4> QED  BY <4>3, <4>4
    <3>4. CASE b = acc.account
      <4>1. acc.row[kind] <= Opening[b][kind] + posted[b][kind] /\ acc.row[kind] \in Int
        BY <2>1, <2>3, <3>4 DEF LedgerInv, HeldRowsArePosted, Balances, Totals
      <4>2. b \notin stale' => b \notin stale /\ acc.row = balance[b]
        BY <2>1, <3>4
      <4>3. \/ /\ balance'[b][kind] = acc.row[kind] + plan[r][b]
               /\ posted'[b][kind] = posted[b][kind] + plan[r][b]
            \/ balance'[b][kind] = acc.row[kind] /\ posted'[b][kind] = posted[b][kind]
        BY <2>1, <2>2, <2>3, <3>2, <3>4 DEF Balances, Totals
      <4> QED  BY <2>3, <3>1, <3>2, <3>4, <4>1, <4>2, <4>3
    <3> QED  BY <3>3, <3>4
  <2> QED  BY <1>0, <2>4, <2>5 DEF LedgerInv
<1>3. CASE \/ CreateTxn(r) \/ RefuseTxn(r) \/ Publish(r) \/ EndLoop(r) \/ MarkInstant(r)
           \/ FailRequest(r)
  <2>1. UNCHANGED <<balance, posted, stale>>
    BY <1>3 DEF CreateTxn, RefuseTxn, Publish, EndLoop, MarkInstant, FailRequest, dbVars, ledgerVars
  <2>2. hold' \in {hold, [hold EXCEPT ![r] = {}]}
    BY <1>3 DEF CreateTxn, RefuseTxn, Publish, EndLoop, MarkInstant, FailRequest
  <2>3. \A q \in Requests : hold'[q] \subseteq hold[q]
    BY <1>0, <2>2 DEF TypeOK
  <2> QED  BY <1>0, <2>1, <2>3, LedgerKept
<1> QED  BY <1>1, <1>2, <1>3 DEF RequestStep

(* The consumer changes rows of transactions only.                         *)
LEMMA ConsumerLedger ==
    ASSUME LedgerInv, NEW c \in Consumers, ConsumerStep(c) \/ LoseMessage(c)
    PROVE  LedgerInv'
<1>1. TypeOK'
  BY ConsumerType DEF LedgerInv
<1>2. UNCHANGED <<balance, posted, stale, hold>>
  BY DEF ConsumerStep, Take, Push, Record, LoseMessage, dbVars, requestVars, ledgerVars
<1> QED  BY <1>1, <1>2, LedgerKept

(* The customer changes a prompt only.                                     *)
LEMMA DecideLedger ==
    ASSUME LedgerInv, NEW k \in Checkouts, NEW decision \in {"paid", "declined"}, Decide(k, decision)
    PROVE  LedgerInv'
<1>1. TypeOK'
  BY DecideType DEF LedgerInv
<1>2. UNCHANGED <<balance, posted, stale, hold>>
  BY DEF Decide, dbVars, requestVars, ledgerVars
<1> QED  BY <1>1, <1>2, LedgerKept

(* A callback adds in the database what it posts.                          *)
LEMMA GatewayLedger ==
    ASSUME LedgerInv, NEW k \in Checkouts, NEW h \in Handlers,
           Deliver(k, h) \/ Duplicate(k, h) \/ ServeStep(k, h)
    PROVE  LedgerInv'
<1>0. TypeOK /\ TypeOK'
  BY GatewayType DEF LedgerInv
<1>1. CASE \/ Deliver(k, h) \/ Duplicate(k, h) \/ Lookup(k, h) \/ Settle(k, h)
  <2>1. UNCHANGED <<balance, posted, stale, hold>>
    BY <1>1 DEF Deliver, Duplicate, Lookup, Settle, dbVars, requestVars, ledgerVars
  <2> QED  BY <1>0, <2>1, LedgerKept
<1>2. CASE Credit(k, h)
  <2>1. PICK t \in cb[<<k, h>>].txn :
          \/ UNCHANGED <<balance, posted>>
          \/ /\ balance' = [balance EXCEPT ![t[2]]["real"] = @ + txn[t].amount]
             /\ posted' = [posted EXCEPT ![t[2]]["real"] = @ + txn[t].amount]
    BY <1>2 DEF Credit
  <2>2. stale' = stale /\ hold' = hold
    BY <1>2 DEF Credit, requestVars
  <2>3. t \in Txns /\ t[2] \in Accounts /\ txn[t].amount \in Nat /\ "real" \in Kinds
    BY <1>0, <2>1 DEF TypeOK, Served, Txns, TxnRows, Kinds
  <2>4. CASE UNCHANGED <<balance, posted>>
    BY <1>0, <2>2, <2>4, LedgerKept
  <2>5. CASE /\ balance' = [balance EXCEPT ![t[2]]["real"] = @ + txn[t].amount]
             /\ posted' = [posted EXCEPT ![t[2]]["real"] = @ + txn[t].amount]
    <3>1. HeldRowsArePosted'
      BY <2>2, <2>3, <2>5, PostingKeepsHeld
    <3>2. BalancesArePosted'
      <4> SUFFICES ASSUME NEW b \in Accounts, NEW kind \in Kinds
                   PROVE  /\ balance'[b][kind] <= Opening[b][kind] + posted'[b][kind]
                          /\ b \notin stale => balance'[b][kind] = Opening[b][kind] + posted'[b][kind]
        BY <2>2 DEF BalancesArePosted
      <4>1. /\ balance[b][kind] <= Opening[b][kind] + posted[b][kind]
            /\ b \notin stale => balance[b][kind] = Opening[b][kind] + posted[b][kind]
        BY DEF LedgerInv, BalancesArePosted
      <4>2. /\ balance \in [Accounts -> Balances] /\ posted \in [Accounts -> Totals]
            /\ balance[b][kind] \in Int /\ posted[b][kind] \in Nat /\ Opening[b][kind] \in Int
        BY <1>0, OpeningType DEF TypeOK, Balances, Totals
      <4>3. \/ /\ balance'[b][kind] = balance[b][kind] + txn[t].amount
               /\ posted'[b][kind] = posted[b][kind] + txn[t].amount
            \/ balance'[b][kind] = balance[b][kind] /\ posted'[b][kind] = posted[b][kind]
        BY <2>3, <2>5, <4>2 DEF Balances, Totals
      <4> QED  BY <2>3, <4>1, <4>2, <4>3
    <3> QED  BY <1>0, <3>1, <3>2 DEF LedgerInv
  <2> QED  BY <2>1, <2>4, <2>5
<1> QED  BY <1>1, <1>2 DEF ServeStep

(* A restart forgets the held rows and keeps the balances.                 *)
LEMMA CrashLedger ==
    ASSUME LedgerInv, Crash PROVE LedgerInv'
<1>1. TypeOK'
  BY CrashType DEF LedgerInv
<1>2. UNCHANGED <<balance, posted, stale>> /\ hold' = [r \in Requests |-> {}]
  BY DEF Crash, dbVars, ledgerVars
<1> QED  BY <1>1, <1>2, LedgerKept

(* A graceful stop keeps the balances, and no request holds a row then.    *)
LEMMA StopLedger ==
    ASSUME LedgerInv, Stop PROVE LedgerInv'
<1>1. TypeOK'
  BY StopType DEF LedgerInv
<1>2. UNCHANGED <<balance, posted, stale, hold>>
  BY DEF Stop, dbVars, requestVars, ledgerVars
<1> QED  BY <1>1, <1>2, LedgerKept

(* Money is neither made nor lost by a deposit except by the save of a     *)
(* stale row, for every number of requests, accounts and subscriptions.    *)
THEOREM BalancesCorrect == Spec => []BalancesArePosted
<1>1. Init => LedgerInv
  BY InitLedgerInv
<1>2. LedgerInv /\ [Next]_vars => LedgerInv'
  <2> SUFFICES ASSUME LedgerInv, [Next]_vars PROVE LedgerInv'
    OBVIOUS
  <2>1. CASE UNCHANGED vars
    <3>1. TypeOK'
      BY <2>1, NextTypeOK DEF LedgerInv
    <3>2. UNCHANGED <<balance, posted, stale, hold>>
      BY <2>1 DEF vars, dbVars, requestVars, ledgerVars
    <3> QED  BY <3>1, <3>2, LedgerKept
  <2>2. CASE Next
    BY <2>2, SubmitLedger, RequestLedger, ConsumerLedger, DecideLedger, GatewayLedger, CrashLedger,
       StopLedger DEF Next
  <2> QED  BY <2>1, <2>2
<1>3. LedgerInv => BalancesArePosted
  BY DEF LedgerInv
<1> QED  BY <1>1, <1>2, <1>3, PTL DEF Spec
-----------------------------------------------------------------------------
(* The deposit implements the payment.                                     *)

(* A leg on its way to a phone is booked: in the handler, in a message and *)
(* in a subscription.                                                      *)
Booked == {leg \in Legs : leg.txn \in Stored}

LegsAreBooked ==
    /\ allocs \in [Requests -> Seq(Booked)]
    /\ inbox \in [Consumers -> Seq(Seq(Booked))]
    /\ work \in [Consumers -> Seq(Booked)]

(* What a push returned is about the leg the subscription is at.           *)
AnswersAreOwn ==
    \A c \in Consumers : \A got \in answer[c] :
        work[c] # <<>> /\ \A k \in got.ref : k[1] = Head(work[c]).txn

(* A row refers to checkouts of its own leg only, once it is booked.       *)
RefsAreOwn == \A t \in Txns : \A k \in txn[t].ref : k[1] = t /\ t \in Stored

(* A callback is served for the booked leg of its checkout, and is about   *)
(* to credit it only after a payment.                                      *)
CallbacksAreOwn ==
    \A k \in Checkouts, h \in Handlers :
        /\ \A t \in cb[<<k, h>>].txn : k[1] = t /\ t \in Stored
        /\ cb[<<k, h>>].stage = "credit" => checkout[k] = "paid"

PayInv == TypeOK /\ LegsAreBooked /\ AnswersAreOwn /\ RefsAreOwn /\ CallbacksAreOwn

(* The parts of a sequence.                                                *)
LEMMA HeadAndTail ==
    ASSUME NEW S, NEW q \in Seq(S), q # <<>>
    PROVE  Head(q) \in S /\ Tail(q) \in Seq(S)
  OBVIOUS

(* Nothing is booked, pushed or served at first.                           *)
LEMMA InitPayInv == Init => PayInv
<1> SUFFICES ASSUME Init PROVE PayInv
  OBVIOUS
<1>1. LegsAreBooked
  BY DEF Init, LegsAreBooked
<1>2. AnswersAreOwn /\ RefsAreOwn
  BY DEF Init, AnswersAreOwn, RefsAreOwn, NoRow, Row
<1>3. CallbacksAreOwn
  BY DEF Init, CallbacksAreOwn, NotServed
<1> QED
  BY <1>1, <1>2, <1>3, InitTypeOK DEF PayInv

(* Creating, marking, recording and settling each write one row, which is  *)
(* then stored and refers to checkouts of its own leg; all but creating it *)
(* keep the amount of a row that was stored before.  No other step of the  *)
(* deposit changes a row.                                                  *)
Written(t, row) ==
    /\ row \in TxnRows /\ row.status # "none"
    /\ \A k \in row.ref : k[1] = t
    /\ \/ t \in Stored /\ row.amount = txn[t].amount
       \/ \E r \in Requests : CreateTxn(r) /\ \E acc \in hold[r] : t = <<r, acc.account>>
    /\ txn' = [txn EXCEPT ![t] = row]

LEMMA RowChange ==
    ASSUME PayInv, [Next]_vars
    PROVE  txn' = txn \/ \E t \in Txns, row \in TxnRows : Written(t, row)
<1> USE DEF TxnRows, Row, Statuses, Finals
<1>1. TypeOK /\ txn \in [Txns -> TxnRows] /\ \A t \in Txns : \A k \in txn[t].ref : k[1] = t
  BY DEF PayInv, TypeOK, RefsAreOwn
<1>2. ASSUME NEW r \in Requests, CreateTxn(r)
      PROVE  \E t \in Txns, row \in TxnRows : Written(t, row)
  <2>1. PICK acc \in hold[r] :
          txn' = [txn EXCEPT ![<<r, acc.account>>] = Row("success", plan[r][acc.account], {}, "")]
    BY <1>2 DEF CreateTxn
  <2>2. <<r, acc.account>> \in Txns /\ plan[r][acc.account] \in Nat
    <3>1. acc \in Holds /\ plan[r] \in [Accounts -> Nat]
      BY <1>1, <2>1 DEF TypeOK
    <3> QED  BY <3>1 DEF Holds, Txns
  <2> QED
    BY <1>2, <2>1, <2>2 DEF Written
<1>3. ASSUME NEW r \in Requests, MarkInstant(r)
      PROVE  txn' = txn \/ \E t \in Txns, row \in TxnRows : Written(t, row)
  <2>1. CASE allocs[r] = <<>>
    BY <1>3, <2>1 DEF MarkInstant
  <2>2. CASE allocs[r] # <<>>
    <3>1. Head(allocs[r]) \in Booked
      <4>1. allocs[r] \in Seq(Booked)
        BY DEF PayInv, LegsAreBooked
      <4> QED  BY <2>2, <4>1, HeadAndTail
    <3>2. PICK t \in Stored : t = Head(allocs[r]).txn
      BY <3>1 DEF Booked
    <3>5. t \in Txns
      BY DEF Stored
    <3>3. \/ txn' = txn
          \/ txn' = [txn EXCEPT ![t] = Row("success", @.amount, @.ref, "instant_credited")]
      BY <1>3, <2>2, <3>2 DEF MarkInstant
    <3>4. Row("success", txn[t].amount, txn[t].ref, "instant_credited") \in TxnRows
      BY <1>1, <3>5
    <3> QED
      BY <1>1, <3>3, <3>4, <3>5 DEF Written
  <2> QED  BY <2>1, <2>2
<1>4. ASSUME NEW c \in Consumers, Record(c)
      PROVE  txn' = txn \/ \E t \in Txns, row \in TxnRows : Written(t, row)
  <2>1. Head(work[c]) \in Booked
    <3>1. work[c] # <<>> /\ work[c] \in Seq(Booked)
      BY <1>4 DEF PayInv, LegsAreBooked, Record
    <3> QED  BY <3>1, HeadAndTail
  <2>2. PICK t \in Txns : t = Head(work[c]).txn /\ t \in Stored
    BY <2>1 DEF Booked, Stored
  <2>3. PICK got \in answer[c] :
          \/ txn' = txn
          \/ txn' = [txn EXCEPT ![t] = Row(got.status, @.amount, got.ref, "")]
    BY <1>4, <2>2 DEF Record
  <2>4. got \in Answers /\ \A k \in got.ref : k[1] = t
    BY <1>1, <2>2, <2>3 DEF TypeOK, PayInv, AnswersAreOwn
  <2>5. Row(got.status, txn[t].amount, got.ref, "") \in TxnRows /\ got.status # "none"
    BY <1>1, <2>4 DEF Answers
  <2> QED
    BY <1>1, <2>2, <2>3, <2>4, <2>5 DEF Written, Row
<1>5. ASSUME NEW k \in Checkouts, NEW h \in Handlers, Settle(k, h)
      PROVE  txn' = txn \/ \E t \in Txns, row \in TxnRows : Written(t, row)
  <2>1. PICK t \in cb[<<k, h>>].txn :
          \/ txn' = txn
          \/ txn' = [txn EXCEPT ![t] = Row("failed", @.amount, @.ref, @.final)]
          \/ txn' = [txn EXCEPT ![t] = Row("success", @.amount, {}, "credited")]
    BY <1>5 DEF Settle
  <2>2. t \in Txns /\ t \in Stored
    BY <2>1 DEF PayInv, CallbacksAreOwn, Stored
  <2>3. /\ Row("failed", txn[t].amount, txn[t].ref, txn[t].final) \in TxnRows
        /\ Row("success", txn[t].amount, {}, "credited") \in TxnRows
    BY <1>1, <2>2
  <2> QED
    BY <1>1, <2>1, <2>2, <2>3 DEF Written
<1>6. ASSUME NEW r \in Requests,
             \/ \E amount \in Amounts, mode \in Modes : Submit(r, amount, mode)
             \/ \E a \in Accounts : ReadAccount(r, a)
             \/ SaveAccount(r) \/ RefuseTxn(r) \/ Publish(r) \/ EndLoop(r) \/ FailRequest(r)
      PROVE  txn' = txn
  BY <1>6 DEF Submit, ReadAccount, SaveAccount, RefuseTxn, Publish, EndLoop, FailRequest, dbVars
<1>7. ASSUME NEW c \in Consumers, Take(c) \/ Push(c) \/ LoseMessage(c)
      PROVE  txn' = txn
  BY <1>7 DEF Take, Push, LoseMessage, dbVars
<1>8. ASSUME NEW k \in Checkouts,
             \/ \E decision \in {"paid", "declined"} : Decide(k, decision)
             \/ \E h \in Handlers : Deliver(k, h) \/ Duplicate(k, h) \/ Lookup(k, h) \/ Credit(k, h)
      PROVE  txn' = txn
  BY <1>8 DEF Decide, Deliver, Duplicate, Lookup, Credit, dbVars
<1>9. Stop \/ Crash \/ UNCHANGED vars => txn' = txn
  BY DEF Stop, Crash, vars, dbVars
<1> QED
  BY <1>2, <1>3, <1>4, <1>5, <1>6, <1>7, <1>8, <1>9
  DEF Next, RequestStep, ConsumerStep, ServeStep

(* So a leg that is booked stays booked, and one at most is booked at once. *)
LEMMA StoredGrows ==
    ASSUME PayInv, [Next]_vars
    PROVE  /\ Stored' = Stored \/ \E t \in Txns : Stored' = Stored \cup {t}
           /\ Booked \subseteq Booked'
<1>1. txn \in [Txns -> TxnRows]
  BY DEF PayInv, TypeOK
<1>2. CASE txn' = txn
  BY <1>2 DEF Stored, Booked
<1>3. ASSUME NEW t \in Txns, NEW row \in TxnRows, Written(t, row)
      PROVE  Stored' = Stored \cup {t}
  BY <1>1, <1>3 DEF Written, Stored
<1>4. Stored' = Stored \/ \E t \in Txns : Stored' = Stored \cup {t}
  BY <1>2, <1>3, RowChange DEF Stored
<1> QED
  BY <1>4 DEF Booked

(* Messages carry the legs their request has booked.                       *)
LEMMA NextLegsAreBooked ==
    ASSUME PayInv, [Next]_vars
    PROVE  LegsAreBooked'
<1>1. /\ allocs \in [Requests -> Seq(Booked)]
      /\ inbox \in [Consumers -> Seq(Seq(Booked))]
      /\ work \in [Consumers -> Seq(Booked)]
  BY DEF PayInv, LegsAreBooked
<1>2. Seq(Booked) \subseteq Seq(Booked') /\ Seq(Seq(Booked)) \subseteq Seq(Seq(Booked'))
  <2>1. ASSUME NEW S, NEW T, S \subseteq T PROVE Seq(S) \subseteq Seq(T)
    BY <2>1
  <2> QED  BY <2>1, StoredGrows
<1>3. CASE UNCHANGED <<allocs, inbox, work>>
  BY <1>1, <1>2, <1>3 DEF LegsAreBooked
<1>4. ASSUME NEW r \in Requests, CreateTxn(r) PROVE LegsAreBooked'
  <2>1. PICK acc \in hold[r] :
          /\ txn' = [txn EXCEPT ![<<r, acc.account>>] = Row("success", plan[r][acc.account], {}, "")]
          /\ allocs' = [allocs EXCEPT ![r] =
               Append(@, [txn |-> <<r, acc.account>>, amount |-> plan[r][acc.account]])]
    BY <1>4 DEF CreateTxn
  <2>2. <<r, acc.account>> \in Txns /\ plan[r][acc.account] \in Nat
    <3>1. acc \in Holds /\ plan[r] \in [Accounts -> Nat]
      BY <2>1 DEF PayInv, TypeOK
    <3> QED  BY <3>1 DEF Holds, Txns
  <2>3. <<r, acc.account>> \in Stored'
    BY <2>1, <2>2 DEF PayInv, TypeOK, Stored, Row
  <2>4. [txn |-> <<r, acc.account>>, amount |-> plan[r][acc.account]] \in Booked'
    BY <2>2, <2>3 DEF Booked, Legs
  <2>5. allocs' \in [Requests -> Seq(Booked')]
    <3>1. allocs[r] \in Seq(Booked')
      BY <1>1, <1>2
    <3>2. Append(allocs[r], [txn |-> <<r, acc.account>>, amount |-> plan[r][acc.account]])
            \in Seq(Booked')
      BY <2>4, <3>1
    <3>3. allocs \in [Requests -> Seq(Booked')]
      BY <1>1, <1>2
    <3> QED  BY <2>1, <3>2, <3>3
  <2> QED
    BY <1>1, <1>2, <1>4, <2>5 DEF LegsAreBooked, CreateTxn, consumerVars
<1>5. ASSUME NEW r \in Requests, MarkInstant(r) PROVE LegsAreBooked'
  <2>1. allocs' = allocs \/ (allocs[r] # <<>> /\ allocs' = [allocs EXCEPT ![r] = Tail(@)])
    BY <1>5 DEF MarkInstant
  <2>2. allocs' \in [Requests -> Seq(Booked)]
    <3>1. allocs[r] # <<>> => Tail(allocs[r]) \in Seq(Booked)
      BY <1>1, HeadAndTail
    <3> QED  BY <1>1, <2>1, <3>1
  <2> QED
    BY <1>1, <1>2, <1>5, <2>2 DEF LegsAreBooked, MarkInstant, consumerVars
<1>6. ASSUME NEW r \in Requests, Publish(r) PROVE LegsAreBooked'
  <2>1. inbox' \in [Consumers -> Seq(Seq(Booked))]
    <3>1. \A c \in Consumers : Append(inbox[c], allocs[r]) \in Seq(Seq(Booked))
      BY <1>1
    <3> QED  BY <1>6, <3>1 DEF Publish
  <2> QED
    BY <1>1, <1>2, <1>6, <2>1 DEF LegsAreBooked, Publish
<1>7. ASSUME NEW c \in Consumers, Take(c) \/ LoseMessage(c) PROVE LegsAreBooked'
  <2>1. Head(inbox[c]) \in Seq(Booked) /\ Tail(inbox[c]) \in Seq(Seq(Booked))
    <3>1. inbox[c] # <<>>
      BY <1>7 DEF Take, LoseMessage
    <3> QED  BY <1>1, <3>1, HeadAndTail
  <2>2. inbox' \in [Consumers -> Seq(Seq(Booked))] /\ work' \in [Consumers -> Seq(Booked)]
    BY <1>1, <1>7, <2>1 DEF Take, LoseMessage
  <2>3. allocs' = allocs
    BY <1>7 DEF Take, LoseMessage, requestVars
  <2> QED
    BY <1>1, <1>2, <2>2, <2>3 DEF LegsAreBooked
<1>8. ASSUME NEW c \in Consumers, Record(c) PROVE LegsAreBooked'
  <2>1. Tail(work[c]) \in Seq(Booked)
    BY <1>1, <1>8, HeadAndTail DEF Record
  <2> QED
    BY <1>1, <1>2, <1>8, <2>1 DEF LegsAreBooked, Record, requestVars
<1>9. CASE Stop \/ Crash
  <2>1. /\ inbox' = [c \in Consumers |-> <<>>] /\ work' = [c \in Consumers |-> <<>>]
        /\ allocs' = allocs
    BY <1>9 DEF Stop, Crash, requestVars
  <2> QED
    BY <1>1, <1>2, <2>1 DEF LegsAreBooked
<1>10. ASSUME NEW r \in Requests,
              \/ \E amount \in Amounts, mode \in Modes : Submit(r, amount, mode)
              \/ \E a \in Accounts : ReadAccount(r, a)
              \/ SaveAccount(r) \/ RefuseTxn(r) \/ EndLoop(r) \/ FailRequest(r)
       PROVE  UNCHANGED <<allocs, inbox, work>>
  BY <1>10 DEF Submit, ReadAccount, SaveAccount, RefuseTxn, EndLoop, FailRequest, consumerVars
<1>11. ASSUME NEW c \in Consumers, Push(c) PROVE UNCHANGED <<allocs, inbox, work>>
  BY <1>11 DEF Push, requestVars
<1>12. ASSUME NEW k \in Checkouts,
              \/ \E decision \in {"paid", "declined"} : Decide(k, decision)
              \/ \E h \in Handlers : Deliver(k, h) \/ Duplicate(k, h) \/ ServeStep(k, h)
       PROVE  UNCHANGED <<allocs, inbox, work>>
  BY <1>12 DEF Decide, Deliver, Duplicate, ServeStep, Lookup, Credit, Settle, requestVars, consumerVars
<1>13. UNCHANGED vars => UNCHANGED <<allocs, inbox, work>>
  BY DEF vars, requestVars, consumerVars
<1> QED
  BY <1>3, <1>4, <1>5, <1>6, <1>7, <1>8, <1>9, <1>10, <1>11, <1>12, <1>13
  DEF Next, RequestStep, ConsumerStep

(* The answer a subscription holds is about the leg it is at, until it is  *)
(* recorded on the row of that leg.                                        *)
LEMMA NextRefsAreOwn ==
    ASSUME PayInv, [Next]_vars
    PROVE  AnswersAreOwn' /\ RefsAreOwn'
<1>1. TypeOK /\ AnswersAreOwn /\ RefsAreOwn /\ txn \in [Txns -> TxnRows]
  BY DEF PayInv, TypeOK
<1>2. RefsAreOwn'
  <2>1. CASE txn' = txn
    BY <1>1, <2>1 DEF RefsAreOwn, Stored
  <2>2. ASSUME NEW t \in Txns, NEW row \in TxnRows, Written(t, row)
        PROVE  RefsAreOwn'
    BY <1>1, <2>2 DEF Written, RefsAreOwn, Stored
  <2> QED  BY <2>1, <2>2, RowChange
<1>4. ASSUME NEW c \in Consumers, Take(c) PROVE AnswersAreOwn'
  <2>1. work[c] = <<>> /\ answer[c] = {} /\ answer' = answer
    BY <1>1, <1>4 DEF Take, AnswersAreOwn
  <2>2. \A d \in Consumers : d # c => work'[d] = work[d]
    BY <1>1, <1>4 DEF Take, TypeOK
  <2> QED  BY <1>1, <2>1, <2>2 DEF AnswersAreOwn
<1>5. ASSUME NEW c \in Consumers, Push(c) PROVE AnswersAreOwn'
  <2> DEFINE k == CheckoutOf(Head(work[c]).txn, c)
  <2>1. k[1] = Head(work[c]).txn
    BY DEF CheckoutOf
  <2>2. work[c] # <<>> /\ work' = work
    BY <1>5 DEF Push
  <2> HIDE DEF k
  <2>3. PICK outcome : answer' = [answer EXCEPT ![c] = {ReturnOf(outcome, k)}]
    BY <1>5 DEF Push, k
  <2> QED
    BY <1>1, <2>1, <2>2, <2>3 DEF AnswersAreOwn, ReturnOf, TypeOK
<1>6. ASSUME NEW c \in Consumers, Record(c) PROVE AnswersAreOwn'
  <2>1. answer' = [answer EXCEPT ![c] = {}] /\ work' = [work EXCEPT ![c] = Tail(@)]
    BY <1>6 DEF Record
  <2>2. answer'[c] = {}
    BY <1>1, <2>1 DEF TypeOK
  <2>3. \A d \in Consumers : d # c => work'[d] = work[d] /\ answer'[d] = answer[d]
    BY <1>1, <2>1 DEF TypeOK
  <2> QED  BY <1>1, <2>2, <2>3 DEF AnswersAreOwn
<1>7. ASSUME Stop \/ Crash PROVE AnswersAreOwn'
  <2>1. answer' = [c \in Consumers |-> {}]
    BY <1>7 DEF Stop, Crash
  <2>2. \A c \in Consumers : answer'[c] = {}
    BY <2>1
  <2> QED  BY <2>2 DEF AnswersAreOwn
<1>8. ASSUME UNCHANGED <<answer, work>> PROVE AnswersAreOwn'
  BY <1>1, <1>8 DEF AnswersAreOwn
<1>9. ASSUME NEW r \in Requests,
             \/ \E amount \in Amounts, mode \in Modes : Submit(r, amount, mode)
             \/ RequestStep(r) \/ FailRequest(r)
      PROVE  UNCHANGED <<answer, work>>
  BY <1>9 DEF Submit, RequestStep, ReadAccount, SaveAccount, CreateTxn, RefuseTxn, Publish, EndLoop,
              MarkInstant, FailRequest, consumerVars
<1>10. ASSUME NEW c \in Consumers, LoseMessage(c) PROVE UNCHANGED <<answer, work>>
  BY <1>10 DEF LoseMessage
<1>11. ASSUME NEW k \in Checkouts,
              \/ \E decision \in {"paid", "declined"} : Decide(k, decision)
              \/ \E h \in Handlers : Deliver(k, h) \/ Duplicate(k, h) \/ ServeStep(k, h)
       PROVE  UNCHANGED <<answer, work>>
  BY <1>11 DEF Decide, Deliver, Duplicate, ServeStep, Lookup, Credit, Settle, consumerVars
<1>12. UNCHANGED vars => UNCHANGED <<answer, work>>
  BY DEF vars, consumerVars
<1>13. AnswersAreOwn'
  BY <1>4, <1>5, <1>6, <1>7, <1>8, <1>9, <1>10, <1>11, <1>12 DEF Next, ConsumerStep
<1> QED
  BY <1>2, <1>13

(* A callback finds the leg of its checkout and looks at the result before *)
(* it goes on to the credit; a payment is never undone.                    *)
LEMMA NextCallbacksAreOwn ==
    ASSUME PayInv, [Next]_vars
    PROVE  CallbacksAreOwn'
<1>1. /\ TypeOK /\ RefsAreOwn /\ CallbacksAreOwn
      /\ \A t : t \in Stored => t \in Stored'
  BY StoredGrows DEF PayInv
<1>0. ASSUME NEW k \in Checkouts, NEW h \in Handlers
      PROVE  /\ \A t \in cb[<<k, h>>].txn : k[1] = t /\ t \in Stored /\ t \in Stored'
             /\ cb[<<k, h>>].stage = "credit" => checkout[k] = "paid"
  BY <1>1 DEF CallbacksAreOwn
<1>3. ASSUME cb' = cb, \A k \in Checkouts : checkout[k] = "paid" => checkout'[k] = "paid"
      PROVE  CallbacksAreOwn'
  <2> SUFFICES ASSUME NEW k \in Checkouts, NEW h \in Handlers
               PROVE  /\ \A t \in cb[<<k, h>>].txn : k[1] = t /\ t \in Stored'
                      /\ cb[<<k, h>>].stage = "credit" => checkout'[k] = "paid"
    BY <1>3, Zenon DEF CallbacksAreOwn
  <2> QED  BY <1>0, <1>3
<1>2. CASE UNCHANGED <<cb, checkout>>
  BY <1>2, <1>3
<1>4. ASSUME NEW c \in Consumers, Push(c) PROVE CallbacksAreOwn'
  <2> DEFINE k == CheckoutOf(Head(work[c]).txn, c)
  <2>1. \/ checkout' = checkout
        \/ checkout[k] = "none" /\ checkout' = [checkout EXCEPT ![k] = "open"]
    BY <1>4 DEF Push
  <2> HIDE DEF k
  <2>2. \A e \in Checkouts : checkout[e] = "paid" => checkout'[e] = "paid"
    BY <1>1, <2>1 DEF TypeOK
  <2> QED  BY <1>3, <1>4, <2>2 DEF Push
<1>5. ASSUME NEW k \in Checkouts, NEW decision \in {"paid", "declined"}, Decide(k, decision)
      PROVE  CallbacksAreOwn'
  <2>1. \A e \in Checkouts : checkout[e] = "paid" => checkout'[e] = "paid"
    BY <1>1, <1>5 DEF Decide, TypeOK
  <2> QED  BY <1>3, <1>5, <2>1 DEF Decide
<1>6. ASSUME NEW k \in Checkouts, NEW h \in Handlers, NEW now \in Served,
             cb' = [cb EXCEPT ![<<k, h>>] = now], checkout' = checkout,
             \A t \in now.txn : k[1] = t /\ t \in Stored,
             now.stage = "credit" => checkout[k] = "paid"
      PROVE  CallbacksAreOwn'
  <2>1. ASSUME NEW e \in Checkouts, NEW g \in Handlers
        PROVE  \/ cb'[<<e, g>>] = now /\ e = k
               \/ cb'[<<e, g>>] = cb[<<e, g>>]
    BY <1>1, <1>6 DEF TypeOK
  <2>2. ASSUME NEW e \in Checkouts, NEW g \in Handlers
        PROVE  /\ \A t \in cb'[<<e, g>>].txn : e[1] = t /\ t \in Stored'
               /\ cb'[<<e, g>>].stage = "credit" => checkout'[e] = "paid"
    BY <1>0, <1>1, <1>6, <2>1
  <2> QED  BY <2>2, Zenon DEF CallbacksAreOwn
<1>7. ASSUME NEW k \in Checkouts, NEW h \in Handlers, Deliver(k, h) \/ Duplicate(k, h)
      PROVE  CallbacksAreOwn'
  <2>1. cb' = [cb EXCEPT ![<<k, h>>] = [stage |-> "find", txn |-> {}]] /\ checkout' = checkout
    BY <1>7 DEF Deliver, Duplicate, StartServing, gatewayVars
  <2>2. [stage |-> "find", txn |-> {}] \in Served
    BY DEF Served
  <2> QED  BY <1>6, <2>1, <2>2
<1>8. ASSUME NEW k \in Checkouts, NEW h \in Handlers, Lookup(k, h)
      PROVE  CallbacksAreOwn'
  <2>1. PICK ok \in BOOLEAN :
          LET found == {t \in Txns : ok /\ k \in txn[t].ref}
              next == IF checkout[k] = "paid" THEN "credit" ELSE "fail"
          IN  cb' = [cb EXCEPT ![<<k, h>>] = IF found = {} THEN NotServed
                                         ELSE [stage |-> next, txn |-> found]]
    BY <1>8 DEF Lookup
  <2>2. checkout' = checkout
    BY <1>8 DEF Lookup, gatewayVars
  <2>3. \A t \in Txns : k \in txn[t].ref => k[1] = t /\ t \in Stored
    BY <1>1 DEF RefsAreOwn
  <2> DEFINE found == {t \in Txns : ok /\ k \in txn[t].ref}
             now == IF found = {} THEN NotServed
                    ELSE [stage |-> IF checkout[k] = "paid" THEN "credit" ELSE "fail",
                          txn |-> found]
  <2>4. cb' = [cb EXCEPT ![<<k, h>>] = now]
    BY <2>1
  <2>5. now \in Served /\ (now.stage = "credit" => checkout[k] = "paid")
    BY DEF Served, NotServed
  <2>6. \A t \in now.txn : k[1] = t /\ t \in Stored
    BY <2>3 DEF NotServed
  <2> HIDE DEF now
  <2> QED  BY <1>6, <2>2, <2>4, <2>5, <2>6
<1>9. ASSUME NEW k \in Checkouts, NEW h \in Handlers, Credit(k, h) \/ Settle(k, h)
      PROVE  CallbacksAreOwn'
  <2>1. \/ cb' = [cb EXCEPT ![<<k, h>>] = [stage |-> "settle", txn |-> @.txn]]
        \/ cb' = [cb EXCEPT ![<<k, h>>] = NotServed]
    BY <1>9 DEF Credit, Settle
  <2>2. checkout' = checkout
    BY <1>9 DEF Credit, Settle, gatewayVars
  <2>3. cb[<<k, h>>] \in Served /\ \A t \in cb[<<k, h>>].txn : k[1] = t /\ t \in Stored
    BY <1>1 DEF TypeOK, CallbacksAreOwn
  <2>4. [stage |-> "settle", txn |-> cb[<<k, h>>].txn] \in Served /\ NotServed \in Served
    BY <2>3 DEF Served, NotServed
  <2> QED  BY <1>1, <1>6, <2>1, <2>2, <2>3, <2>4 DEF NotServed, TypeOK
<1>10. CASE Crash
  <2>1. cb' = [s \in Checkouts \X Handlers |-> NotServed]
    BY <1>10 DEF Crash
  <2> QED  BY <2>1 DEF CallbacksAreOwn, NotServed
<1>11. CASE Stop
  BY <1>2, <1>11 DEF Stop, gatewayVars
<1>12. ASSUME NEW r \in Requests,
              \/ \E amount \in Amounts, mode \in Modes : Submit(r, amount, mode)
              \/ RequestStep(r) \/ FailRequest(r)
       PROVE  UNCHANGED <<cb, checkout>>
  BY <1>12 DEF Submit, RequestStep, ReadAccount, SaveAccount, CreateTxn, RefuseTxn, Publish, EndLoop,
               MarkInstant, FailRequest, gatewayVars
<1>13. ASSUME NEW c \in Consumers, Take(c) \/ LoseMessage(c) \/ Record(c)
       PROVE  UNCHANGED <<cb, checkout>>
  BY <1>13 DEF Take, LoseMessage, Record, gatewayVars
<1>14. UNCHANGED vars => UNCHANGED <<cb, checkout>>
  BY DEF vars, gatewayVars
<1> QED
  BY <1>2, <1>4, <1>5, <1>7, <1>8, <1>9, <1>10, <1>11, <1>12, <1>13, <1>14
  DEF Next, ConsumerStep, ServeStep

(* The invariant that the refinement rests on.                             *)
LEMMA PayInvariant == Spec => []PayInv
<1>1. PayInv /\ [Next]_vars => PayInv'
  BY NextTypeOK, NextLegsAreBooked, NextRefsAreOwn, NextCallbacksAreOwn DEF PayInv
<1> QED
  BY InitPayInv, <1>1, PTL DEF Spec
-----------------------------------------------------------------------------
(* Each write of a row books a leg or nothing.                             *)
LEMMA WriteBooks ==
    ASSUME PayInv, [Next]_vars, UNCHANGED <<checkout, credits>>
    PROVE  Promise!Next \/ UNCHANGED <<Stored, checkout, credits>>
<1>1. CASE Stored' = Stored
  BY <1>1
<1>2. ASSUME NEW t \in Txns, Stored' = Stored \cup {t}, Stored' # Stored
      PROVE  Promise!Next
  <2>1. Promise!Book(t)
    BY <1>2 DEF Promise!Book
  <2> QED  BY <2>1 DEF Promise!Next
<1> QED
  BY <1>1, <1>2, StoredGrows

(* A push asks for a leg that is booked, and opens one prompt at most.     *)
LEMMA PushAsks ==
    ASSUME PayInv, NEW c \in Consumers, Push(c)
    PROVE  Promise!Next \/ UNCHANGED <<Stored, checkout, credits>>
<1> DEFINE t == Head(work[c]).txn
           k == CheckoutOf(t, c)
<1>1. UNCHANGED <<Stored, credits>>
  BY DEF Push, dbVars, ledgerVars, Stored
<1>2. t \in Txns /\ t \in Stored
  <2>1. work[c] # <<>> /\ work[c] \in Seq(Booked)
    BY DEF Push, PayInv, LegsAreBooked
  <2>2. Head(work[c]) \in Booked
    BY <2>1, HeadAndTail
  <2> QED  BY <2>2 DEF Booked, Legs
<1>3. k \in Checkouts /\ k[1] = t
  BY <1>2 DEF CheckoutOf, Checkouts
<1>4. \/ checkout' = checkout
      \/ checkout[k] = "none" /\ checkout' = [checkout EXCEPT ![k] = "open"]
  BY DEF Push
<1> HIDE DEF t, k
<1>5. CASE checkout' = checkout
  BY <1>1, <1>5
<1>6. CASE checkout[k] = "none" /\ checkout' = [checkout EXCEPT ![k] = "open"]
  <2>1. Promise!Ask(k)
    BY <1>1, <1>2, <1>3, <1>6 DEF Promise!Ask
  <2> QED  BY <1>3, <2>1 DEF Promise!Next
<1> QED  BY <1>4, <1>5, <1>6

(* The callback credits a leg whose prompt was paid.                       *)
LEMMA CallbackCredits ==
    ASSUME PayInv, NEW k \in Checkouts, NEW h \in Handlers, Credit(k, h)
    PROVE  Promise!Next \/ UNCHANGED <<Stored, checkout, credits>>
<1>1. UNCHANGED <<Stored, checkout>> /\ cb[<<k, h>>].stage = "credit"
  BY DEF Credit, gatewayVars, Stored
<1>2. PICK t \in cb[<<k, h>>].txn :
        credits' = credits \/ credits' = [credits EXCEPT ![t] = @ + 1]
  BY DEF Credit
<1>3. t \in Txns /\ k[1] = t /\ checkout[k] = "paid"
  BY <1>1, <1>2 DEF PayInv, TypeOK, Served, CallbacksAreOwn
<1>4. CASE credits' = [credits EXCEPT ![t] = @ + 1]
  <2>1. Promise!Credit(t)
    BY <1>1, <1>3, <1>4 DEF Promise!Credit
  <2> QED  BY <1>3, <2>1 DEF Promise!Next
<1> QED  BY <1>1, <1>2, <1>4

(* The deposit implements the payment: however requests, subscriptions,    *)
(* callbacks, faults, restarts and stops interleave, a leg once booked     *)
(* stays booked, only booked legs are prompted for, and a leg is credited  *)
(* only when one of its prompts was paid.                                  *)
THEOREM ImplementsPayment == Spec => PaymentSpec
<1>1. Init => Promise!Init
  <2> SUFFICES ASSUME Init PROVE Promise!Init
    OBVIOUS
  <2>1. \A t \in Txns : txn[t].status = "none"
    BY DEF Init, NoRow, Row
  <2>2. Stored = {}
    BY <2>1 DEF Stored
  <2> QED  BY <2>2 DEF Init, Promise!Init
<1>2. PayInv /\ [Next]_vars => [Promise!Next]_<<Stored, checkout, credits>>
  <2> SUFFICES ASSUME PayInv, [Next]_vars
               PROVE  Promise!Next \/ UNCHANGED <<Stored, checkout, credits>>
    OBVIOUS
  <2>1. CASE UNCHANGED <<checkout, credits>>
    BY <2>1, WriteBooks
  <2>2. ASSUME NEW r \in Requests,
               \/ \E amount \in Amounts, mode \in Modes : Submit(r, amount, mode)
               \/ RequestStep(r) \/ FailRequest(r)
        PROVE  UNCHANGED <<checkout, credits>>
    BY <2>2 DEF Submit, RequestStep, ReadAccount, SaveAccount, CreateTxn, RefuseTxn, Publish,
                EndLoop, MarkInstant, FailRequest, gatewayVars, ledgerVars
  <2>3. ASSUME NEW c \in Consumers, Take(c) \/ LoseMessage(c) \/ Record(c)
        PROVE  UNCHANGED <<checkout, credits>>
    BY <2>3 DEF Take, LoseMessage, Record, gatewayVars, ledgerVars
  <2>4. ASSUME NEW k \in Checkouts, NEW decision \in {"paid", "declined"}, Decide(k, decision)
        PROVE  Promise!Next
    <3>1. Promise!Decide(k, decision)
      BY <2>4 DEF Decide, Promise!Decide, Stored, dbVars, ledgerVars
    <3> QED  BY <2>4, <3>1 DEF Promise!Next
  <2>5. ASSUME NEW k \in Checkouts, NEW h \in Handlers,
               Deliver(k, h) \/ Duplicate(k, h) \/ Lookup(k, h) \/ Settle(k, h)
        PROVE  UNCHANGED <<checkout, credits>>
    BY <2>5 DEF Deliver, Duplicate, Lookup, Settle, gatewayVars, ledgerVars
  <2>6. Stop \/ Crash \/ UNCHANGED vars => UNCHANGED <<checkout, credits>>
    BY DEF Stop, Crash, vars, gatewayVars, ledgerVars
  <2> QED
    BY <2>1, <2>2, <2>3, <2>4, <2>5, <2>6, PushAsks, CallbackCredits
    DEF Next, ConsumerStep, ServeStep
<1> QED
  BY PayInvariant, <1>1, <1>2, PTL DEF Spec, PaymentSpec, Promise!Spec
=============================================================================
