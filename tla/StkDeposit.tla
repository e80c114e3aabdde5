----------------------------- MODULE StkDeposit -----------------------------
(***************************************************************************)
(* A smart deposit from the HTTP request to the settled transaction:       *)
(*   SmartDeposit and BaseDeposit   api/handlers/smart-mpesa-depo.go       *)
(*   the mpesa.stk.sequence topic   core NATS, no queue group (external)   *)
(*   StartStkSequenceConsumer       api/handlers/depo_seqncr.go            *)
(*   SendSTKPush                    service/mpesa/client.go                *)
(*   the M-Pesa gateway             external                               *)
(*   STKCallbackHandler             service/mpesa/callback.go              *)
(* No handler opens a database transaction around its work, so an action   *)
(* is one database statement, one NATS call or one HTTP exchange, and the  *)
(* goroutines interleave between them.                                     *)
(***************************************************************************)
EXTENDS Transactions, Split, Sequences, SequencesExt, Functions

CONSTANTS
    Accounts,        \* the active bookie accounts of one customer
    Requests,        \* calls of SmartDeposit
    Consumers,       \* subscriptions of StartStkSequenceConsumer in the process
    Handlers,        \* goroutines that may serve callbacks of one checkout at once
    Opening,         \* balances before the first request, per account and kind
    Amounts,         \* values of amount_cents
    Modes,           \* values of is_real and dry_run
    PushErrors,      \* what can go wrong in SendSTKPush
    GatewayDedups,   \* does the gateway answer a repeated transaction_id with
                     \* the checkout it already opened?
    Redelivers,      \* does the gateway repeat a callback that was not answered 200?
    MaxDuplicates,   \* callbacks repeated although they were answered or are served
    MaxFaults,       \* failed statements and lost messages
    MaxCrashes       \* restarts of the process

Kinds == {"real", "fake"}
Txns == Requests \X Accounts             \* the leg of a request on an account
Checkouts == Txns \X Consumers           \* a prompt the gateway sent for a leg
Balances == [Kinds -> Int]               \* SmartWithdraw and FakeTopup can overdraw
Totals == [Kinds -> Nat]

ASSUME StkDepositAssumption ==
    /\ Accounts # {} /\ IsFiniteSet(Accounts) /\ IsFiniteSet(Requests)
    /\ Opening \in [Accounts -> Balances]
    /\ Amounts \subseteq Nat
    /\ Modes \subseteq [isReal : BOOLEAN, dryRun : BOOLEAN]
    /\ {GatewayDedups, Redelivers} \subseteq BOOLEAN
    /\ PushErrors \subseteq {"refused", "timeout", "garbled"}
    /\ {MaxDuplicates, MaxFaults, MaxCrashes} \subseteq Nat

CentsPerKES == 100

VARIABLES
    \* the database
    balance,    \* real_balance_cents and fake_balance_cents of each account
    txn,        \* the transactions table
    \* SmartDeposit, per request
    pc,         \* where the handler is
    ask,        \* amount, is_real and dry_run
    plan,       \* amountToSend of the accounts the loop has not reached
    hold,       \* the account row BaseDeposit has read and not yet saved, if any
    allocs,     \* the legs booked (and, while marking, not yet marked)
    \* StartStkSequenceConsumer, per subscription
    inbox,      \* messages NATS has delivered to the subscription
    work,       \* legs of the current message still to be pushed
    answer,     \* what SendSTKPush returned and was not yet recorded, if anything
    \* the gateway and STKCallbackHandler, per checkout
    checkout,   \* what the customer did with the prompt
    asked,      \* KES the prompt asks for
    delivered,  \* was the callback sent, and was it answered 200?
    cb,         \* the goroutines serving the callback
    \* history and bounds
    posted,     \* what saves and credits meant to add to each balance
    saved,      \* legs whose BaseDeposit saved the account
    stale,      \* accounts on which a save wrote back a row that had changed
    credits,    \* how often a callback credited a leg
    basis,      \* the balances (or ones) each request was split by
    recorders,  \* the subscriptions that recorded a push of each leg
    faults, dups, crashes

dbVars       == <<balance, txn>>
requestVars  == <<pc, ask, plan, hold, allocs>>
consumerVars == <<inbox, work, answer>>
gatewayVars  == <<checkout, asked, delivered>>
ledgerVars   == <<posted, saved, stale, credits, basis, recorders>>
boundVars    == <<faults, dups, crashes>>
vars == <<dbVars, requestVars, consumerVars, gatewayVars, cb, ledgerVars, boundVars>>

Statuses == {"none", "success", "initiated", "failed"}
Finals   == {"", "instant_credited", "credited"}

(* A row of transactions; "none" before the row exists.  Its metadata is   *)
(* kept as far as someone reads it: third_party_ref and final_status.      *)
TxnRows == [status : Statuses, amount : Nat, ref : SUBSET Checkouts, final : Finals]
Row(status, amount, ref, final) ==
    [status |-> status, amount |-> amount, ref |-> ref, final |-> final]
NoRow   == Row("none", 0, {}, "")

Legs    == [txn : Txns, amount : Nat]
Holds   == [account : Accounts, row : Balances]
Answers == [status : {"initiated", "failed"}, ref : SUBSET Checkouts]
Served  == [stage : {"idle", "find", "credit", "settle", "fail"}, txn : SUBSET Txns]
NotServed == [stage |-> "idle", txn |-> {}]

Kind(r)      == IF ask[r].isReal THEN "real" ELSE "fake"
IsReal(r)    == ask[r].isReal            \* variant of IsPushed: dry runs too
IsPushed(r)  == ask[r].isReal /\ ~ask[r].dryRun
Stored       == {t \in Txns : txn[t].status # "none"}
InFlight     == {"loop", "save", "create", "mark"}
Outstanding(k) == \E h \in Handlers : cb[<<k, h>>].stage # "idle"

(* A statement either runs or fails; failures are bounded.                 *)
Executed(ok) ==
    /\ ok \/ faults < MaxFaults
    /\ faults' = IF ok THEN faults ELSE faults + 1

Init ==
    /\ balance = Opening
    /\ txn = [t \in Txns |-> NoRow]
    /\ pc = [r \in Requests |-> "idle"]
    /\ ask = [r \in Requests |-> [amount |-> 0, isReal |-> FALSE, dryRun |-> FALSE]]
    /\ plan = [r \in Requests |-> [a \in Accounts |-> 0]]
    /\ hold = [r \in Requests |-> {}]
    /\ allocs = [r \in Requests |-> <<>>]
    /\ inbox = [c \in Consumers |-> <<>>]
    /\ work = [c \in Consumers |-> <<>>]
    /\ answer = [c \in Consumers |-> {}]
    /\ checkout = [k \in Checkouts |-> "none"]
    /\ asked = [k \in Checkouts |-> 0]
    /\ delivered = [k \in Checkouts |-> "no"]
    /\ cb = [s \in Checkouts \X Handlers |-> NotServed]
    /\ posted = [a \in Accounts |-> [kind \in Kinds |-> 0]]
    /\ saved = {}
    /\ stale = {}
    /\ credits = [t \in Txns |-> 0]
    /\ basis = [r \in Requests |-> [a \in Accounts |-> 0]]
    /\ recorders = [t \in Txns |-> {}]
    /\ faults = 0 /\ dups = 0 /\ crashes = 0
-----------------------------------------------------------------------------
(* SmartDeposit *)

(* The pot: the balances of the kind the request is about.                 *)
TotalPot(kind) == SumFunction([a \in Accounts |-> balance[a][kind]])

(* The request is parsed, the accounts are read once, and the amount is    *)
(* split over them by balance, or evenly for a dry run on an empty pot.    *)
Submit(r, amount, mode) ==
    /\ pc[r] = "idle"
    /\ ask' = [ask EXCEPT ![r] = [amount |-> amount, isReal |-> mode.isReal,
                                  dryRun |-> mode.dryRun]]
    /\ LET kind == IF mode.isReal THEN "real" ELSE "fake"
           pot == TotalPot(kind)
           part(a) == IF pot = 0 THEN 1 ELSE balance[a][kind]
           whole == IF pot = 0 THEN Cardinality(Accounts) ELSE pot
       IN  IF amount = 0 \/ (pot = 0 /\ ~mode.dryRun)
           THEN pc' = [pc EXCEPT ![r] = "error"] /\ UNCHANGED <<plan, basis>>
           ELSE /\ pc' = [pc EXCEPT ![r] = "loop"]
                /\ basis' = [basis EXCEPT ![r] = [a \in Accounts |-> part(a)]]
                /\ \E short \in SUBSET Accounts :
                     plan' = [plan EXCEPT ![r] = [a \in Accounts |->
                                LegAmount(amount, part(a), whole, a \in short)]]
    /\ UNCHANGED <<dbVars, hold, allocs, consumerVars, gatewayVars, cb, posted, saved, stale, credits,
                   recorders, boundVars>>

(* BaseDeposit "bookie", First(&acc): the whole account row is read.       *)
ReadAccount(r, a) ==
    /\ pc[r] = "loop" /\ plan[r][a] > 0
    /\ pc' = [pc EXCEPT ![r] = "save"]
    /\ hold' = [hold EXCEPT ![r] = {[account |-> a, row |-> balance[a]]}]
    /\ UNCHANGED <<dbVars, ask, plan, allocs, consumerVars, gatewayVars, cb, ledgerVars, boundVars>>

(* Variant of SaveAccount: the amount is added to both balances.           *)
SaveBothKinds(r) ==
    /\ pc[r] = "save"
    /\ \E acc \in hold[r] :
         LET a == acc.account IN
         /\ balance' = [balance EXCEPT ![a] =
                          [kind \in Kinds |-> acc.row[kind] + plan[r][a]]]
         /\ posted' = [posted EXCEPT ![a][Kind(r)] = @ + plan[r][a]]
         /\ saved' = saved \cup {<<r, a>>}
         /\ stale' = IF acc.row = balance[a] THEN stale ELSE stale \cup {a}
    /\ pc' = [pc EXCEPT ![r] = "create"]
    /\ UNCHANGED <<txn, ask, plan, hold, allocs, consumerVars, gatewayVars, cb, credits, basis,
                   recorders, boundVars>>

(* BaseDeposit, Save(&acc): the whole row is written back, both balances.  *)
SaveAccount(r) ==
    /\ pc[r] = "save"
    /\ \E acc \in hold[r] :
         LET a == acc.account IN
         /\ balance' = [balance EXCEPT ![a] = [acc.row EXCEPT ![Kind(r)] = @ + plan[r][a]]]
         /\ posted' = [posted EXCEPT ![a][Kind(r)] = @ + plan[r][a]]
         /\ saved' = saved \cup {<<r, a>>}
         /\ stale' = IF acc.row = balance[a] THEN stale ELSE stale \cup {a}
    /\ pc' = [pc EXCEPT ![r] = "create"]
    /\ UNCHANGED <<txn, ask, plan, hold, allocs, consumerVars, gatewayVars, cb, credits, basis,
                   recorders, boundVars>>

(* What the row BaseDeposit is about to store shows to the hook and the    *)
(* indexes: the parent reference shared by all legs, no idempotency key.   *)
NewRow(r, a) ==
    [reference |-> r, idempotency_key |-> "", columns |-> {"bookie"}, amount |-> plan[r][a]]

StoredRows == {[reference |-> t[1], idempotency_key |-> ""] : t \in Stored}

(* BaseDeposit, Create(&tx): the row is born "success", the leg is         *)
(* appended to allocs and the loop goes on.                                *)
CreateTxn(r) ==
    /\ pc[r] = "create"
    /\ \E acc \in hold[r] :
         LET a == acc.account IN
         /\ CanInsert(StoredRows, NewRow(r, a))
         /\ txn' = [txn EXCEPT ![<<r, a>>] = Row("success", plan[r][a], {}, "")]
         /\ allocs' = [allocs EXCEPT ![r] =
                         Append(@, [txn |-> <<r, a>>, amount |-> plan[r][a]])]
         /\ plan' = [plan EXCEPT ![r][a] = 0]
    /\ hold' = [hold EXCEPT ![r] = {}]
    /\ pc' = [pc EXCEPT ![r] = "loop"]
    /\ UNCHANGED <<balance, ask, consumerVars, gatewayVars, cb, ledgerVars, boundVars>>

(* Variant of RefuseTxn: the refused leg is skipped.                        *)
RefuseAndContinue(r) ==
    /\ pc[r] = "create"
    /\ \E acc \in hold[r] :
         /\ ~CanInsert(StoredRows, NewRow(r, acc.account))
         /\ plan' = [plan EXCEPT ![r][acc.account] = 0]
    /\ hold' = [hold EXCEPT ![r] = {}]
    /\ pc' = [pc EXCEPT ![r] = "loop"]
    /\ UNCHANGED <<dbVars, ask, allocs, consumerVars, gatewayVars, cb, ledgerVars, boundVars>>

(* BaseDeposit, Create(&tx) refused by the hook or an index: SmartDeposit  *)
(* answers 500 and leaves everything it saved.                             *)
RefuseTxn(r) ==
    /\ pc[r] = "create"
    /\ \E acc \in hold[r] : ~CanInsert(StoredRows, NewRow(r, acc.account))
    /\ hold' = [hold EXCEPT ![r] = {}]
    /\ pc' = [pc EXCEPT ![r] = "error"]
    /\ UNCHANGED <<dbVars, ask, plan, allocs, consumerVars, gatewayVars, cb, ledgerVars, boundVars>>

(* Variant of FailRequest: the leg that failed is skipped.                  *)
FailAndContinue(r) ==
    /\ pc[r] \in {"loop", "save", "create"}
    /\ Executed(FALSE)
    /\ plan' = [plan EXCEPT ![r] = [a \in Accounts |->
                  IF \E acc \in hold[r] : acc.account = a THEN 0 ELSE @[a]]]
    /\ hold' = [hold EXCEPT ![r] = {}]
    /\ pc' = [pc EXCEPT ![r] = "loop"]
    /\ UNCHANGED <<dbVars, ask, allocs, consumerVars, gatewayVars, cb, ledgerVars, dups, crashes>>

(* A statement of the loop or the publish fails: 500, nothing is undone.   *)
FailRequest(r) ==
    /\ pc[r] \in {"loop", "save", "create"}
    /\ Executed(FALSE)
    /\ hold' = [hold EXCEPT ![r] = {}]
    /\ pc' = [pc EXCEPT ![r] = "error"]
    /\ UNCHANGED <<dbVars, ask, plan, allocs, consumerVars, gatewayVars, cb, ledgerVars, dups, crashes>>

(* nc.Publish("mpesa.stk.sequence"): every subscription gets the message.  *)
Publish(r) ==
    /\ pc[r] = "loop" /\ \A a \in Accounts : plan[r][a] = 0
    /\ IsPushed(r) /\ allocs[r] # <<>>
    /\ inbox' = [c \in Consumers |-> Append(inbox[c], allocs[r])]
    /\ pc' = [pc EXCEPT ![r] = "done"]
    /\ UNCHANGED <<dbVars, ask, plan, hold, allocs, work, answer, gatewayVars, cb, ledgerVars, boundVars>>

(* The loop is over and there is nothing to publish.                       *)
EndLoop(r) ==
    /\ pc[r] = "loop" /\ \A a \in Accounts : plan[r][a] = 0
    /\ ~(IsPushed(r) /\ allocs[r] # <<>>)
    /\ pc' = [pc EXCEPT ![r] = IF IsPushed(r) THEN "done" ELSE "mark"]
    /\ UNCHANGED <<dbVars, ask, plan, hold, allocs, consumerVars, gatewayVars, cb, ledgerVars, boundVars>>

(* Fake or dry: each leg is marked instant_credited, in a statement of its *)
(* own (they go to db, not to the transaction around them), whose error is *)
(* dropped; then the empty transaction commits.                            *)
MarkInstant(r) ==
    /\ pc[r] = "mark"
    /\ IF allocs[r] = <<>>
       THEN /\ \E ok \in BOOLEAN :
                 /\ Executed(ok)
                 /\ pc' = [pc EXCEPT ![r] = IF ok THEN "done" ELSE "error"]
            /\ UNCHANGED <<txn, allocs>>
       ELSE /\ \E ok \in BOOLEAN :
                 /\ Executed(ok)
                 /\ LET t == Head(allocs[r]).txn IN
                    txn' = IF ok THEN [txn EXCEPT ![t] =
                                         Row("success", @.amount, @.ref, "instant_credited")]
                                 ELSE txn
            /\ allocs' = [allocs EXCEPT ![r] = Tail(@)]
            /\ UNCHANGED pc
    /\ UNCHANGED <<balance, ask, plan, hold, consumerVars, gatewayVars, cb, ledgerVars, dups, crashes>>
-----------------------------------------------------------------------------
(* StartStkSequenceConsumer and SendSTKPush *)

(* NATS hands the subscription its next message; the callback of one       *)
(* subscription runs on one goroutine, message by message.                 *)
Take(c) ==
    /\ work[c] = <<>> /\ inbox[c] # <<>>
    /\ work' = [work EXCEPT ![c] = Head(inbox[c])]
    /\ inbox' = [inbox EXCEPT ![c] = Tail(@)]
    /\ UNCHANGED <<dbVars, requestVars, answer, gatewayVars, cb, ledgerVars, boundVars>>

(* Core NATS delivers at most once: a message may be dropped.              *)
LoseMessage(c) ==
    /\ inbox[c] # <<>>
    /\ Executed(FALSE)
    /\ inbox' = [inbox EXCEPT ![c] = Tail(@)]
    /\ UNCHANGED <<dbVars, requestVars, work, answer, gatewayVars, cb, ledgerVars, dups, crashes>>

(* The checkout the gateway uses for a push of leg t by subscription c.    *)
CheckoutOf(t, c) ==
    LET known == {k \in Checkouts : k[1] = t /\ checkout[k] # "none"}
    IN  IF GatewayDedups /\ known # {} THEN CHOOSE k \in known : TRUE ELSE <<t, c>>

(* Variant of ReturnOf: a status the model does not declare.               *)
ReturnUndeclared(outcome, k) == [status |-> "accepted", ref |-> {k}]

(* What SendSTKPush makes of the gateway's answer.  A refusal opens no     *)
(* prompt; after a timeout the prompt may be open although an error is     *)
(* returned; a body that does not decode gives an empty CheckoutRequestID. *)
ReturnOf(outcome, k) ==
    [status |-> IF outcome \in {"refused", "timeout"} THEN "failed" ELSE "initiated",
     ref |-> IF outcome = "ok" THEN {k} ELSE {}]

(* SendSTKPush for the next leg: the prompt asks for whole shillings.      *)
Push(c) ==
    /\ work[c] # <<>> /\ answer[c] = {}
    /\ LET leg == Head(work[c])
           k == CheckoutOf(leg.txn, c)
       IN  \E outcome \in {"ok"} \cup PushErrors :
             /\ answer' = [answer EXCEPT ![c] = {ReturnOf(outcome, k)}]
             /\ IF outcome = "refused" \/ checkout[k] # "none"
                THEN UNCHANGED <<checkout, asked>>
                ELSE /\ checkout' = [checkout EXCEPT ![k] = "open"]
                     /\ asked' = [asked EXCEPT ![k] = leg.amount \div CentsPerKES]
    /\ UNCHANGED <<dbVars, requestVars, inbox, work, delivered, cb, ledgerVars, boundVars>>

(* Variants of Record: a failed push ends the message ("return" written    *)
(* for "continue"); a leg whose push failed is tried again.                *)
RecordAndStop(c) ==
    /\ work[c] # <<>> /\ answer[c] # {}
    /\ \E now \in answer[c] :
         LET t == Head(work[c]).txn IN
         /\ txn' = [txn EXCEPT ![t] = Row(now.status, @.amount, now.ref, "")]
         /\ recorders' = [recorders EXCEPT ![t] = @ \cup {c}]
         /\ work' = [work EXCEPT ![c] = IF now.status = "failed" THEN <<>> ELSE Tail(@)]
    /\ answer' = [answer EXCEPT ![c] = {}]
    /\ UNCHANGED <<balance, requestVars, inbox, gatewayVars, cb, posted, saved, stale, credits, basis,
                   boundVars>>

RecordAndRetry(c) ==
    /\ work[c] # <<>> /\ answer[c] # {}
    /\ \E now \in answer[c] :
         LET t == Head(work[c]).txn IN
         /\ txn' = [txn EXCEPT ![t] = Row(now.status, @.amount, now.ref, "")]
         /\ recorders' = [recorders EXCEPT ![t] = @ \cup {c}]
         /\ work' = [work EXCEPT ![c] = IF now.status = "failed" THEN @ ELSE Tail(@)]
    /\ answer' = [answer EXCEPT ![c] = {}]
    /\ UNCHANGED <<balance, requestVars, inbox, gatewayVars, cb, posted, saved, stale, credits, basis,
                   boundVars>>

(* updateTxStatus: status and the whole metadata column are replaced       *)
(* whatever the row is by now; a failed update is not noticed.  After the  *)
(* last leg m.Ack() has no effect on a core NATS message.                  *)
Record(c) ==
    /\ work[c] # <<>> /\ answer[c] # {}
    /\ \E now \in answer[c], ok \in BOOLEAN :
         /\ Executed(ok)
         /\ LET t == Head(work[c]).txn IN
            IF ok THEN /\ txn' = [txn EXCEPT ![t] = Row(now.status, @.amount, now.ref, "")]
                       /\ recorders' = [recorders EXCEPT ![t] = @ \cup {c}]
                  ELSE UNCHANGED <<txn, recorders>>
    /\ work' = [work EXCEPT ![c] = Tail(@)]
    /\ answer' = [answer EXCEPT ![c] = {}]
    /\ UNCHANGED <<balance, requestVars, inbox, gatewayVars, cb, posted, saved, stale, credits, basis,
                   dups, crashes>>
-----------------------------------------------------------------------------
(* The gateway and STKCallbackHandler *)

(* The customer enters the PIN, or cancels, or lets the prompt lapse.      *)
Decide(k, decision) ==
    /\ checkout[k] = "open"
    /\ checkout' = [checkout EXCEPT ![k] = decision]
    /\ UNCHANGED <<dbVars, requestVars, consumerVars, asked, delivered, cb, ledgerVars, boundVars>>

(* The handler decodes the post.  What is posted is the struct it decodes, *)
(* with the CheckoutRequestID the gateway answered to the push and the     *)
(* result of the prompt; posts without an id are left out.                 *)
StartServing(k, h) ==
    /\ cb[<<k, h>>].stage = "idle"
    /\ cb' = [cb EXCEPT ![<<k, h>>] = [stage |-> "find", txn |-> {}]]

(* The gateway posts the result of a prompt, and posts it again while it   *)
(* is not answered 200, if it does that at all.                            *)
Deliver(k, h) ==
    /\ checkout[k] \in {"paid", "declined"}
    /\ delivered[k] = "no" \/ (delivered[k] = "sent" /\ Redelivers /\ ~Outstanding(k))
    /\ StartServing(k, h)
    /\ delivered' = [delivered EXCEPT ![k] = "sent"]
    /\ UNCHANGED <<dbVars, requestVars, consumerVars, checkout, asked, ledgerVars, boundVars>>

(* A callback is posted twice, or its 200 was lost on the way back.        *)
Duplicate(k, h) ==
    /\ delivered[k] # "no" /\ dups < MaxDuplicates
    /\ StartServing(k, h)
    /\ dups' = dups + 1
    /\ UNCHANGED <<dbVars, requestVars, consumerVars, gatewayVars, ledgerVars, faults, crashes>>

(* Variants of Lookup: the ResultCode is not looked at; a callback without *)
(* a transaction is answered 200.                                          *)
LookupAnyResult(k, h) ==
    /\ cb[<<k, h>>].stage = "find"
    /\ LET found == {t \in Txns : k \in txn[t].ref}
       IN  cb' = [cb EXCEPT ![<<k, h>>] = IF found = {} THEN NotServed
                                      ELSE [stage |-> "credit", txn |-> found]]
    /\ UNCHANGED <<dbVars, requestVars, consumerVars, gatewayVars, ledgerVars, boundVars>>

LookupAlwaysOk(k, h) ==
    /\ cb[<<k, h>>].stage = "find"
    /\ LET found == {t \in Txns : k \in txn[t].ref}
           next == IF checkout[k] = "paid" THEN "credit" ELSE "fail"
       IN  /\ cb' = [cb EXCEPT ![<<k, h>>] = IF found = {} THEN NotServed
                                         ELSE [stage |-> next, txn |-> found]]
           /\ delivered' = [delivered EXCEPT ![k] = IF found = {} THEN "answered" ELSE @]
    /\ UNCHANGED <<dbVars, requestVars, consumerVars, checkout, asked, ledgerVars, boundVars>>

(* The transaction is searched by third_party_ref and, for a payment, its  *)
(* account is read.  Nothing found, or a failed read: 404.  A failure      *)
(* stands for a body cut off on its way as well, which does not decode and *)
(* is answered 400: neither changes anything, and the gateway may repeat.  *)
Lookup(k, h) ==
    /\ cb[<<k, h>>].stage = "find"
    /\ \E ok \in BOOLEAN :
         /\ Executed(ok)
         /\ LET found == {t \in Txns : ok /\ k \in txn[t].ref}
                next == IF checkout[k] = "paid" THEN "credit" ELSE "fail"
            IN  cb' = [cb EXCEPT ![<<k, h>>] = IF found = {} THEN NotServed
                                           ELSE [stage |-> next, txn |-> found]]
    /\ UNCHANGED <<dbVars, requestVars, consumerVars, gatewayVars, ledgerVars, dups, crashes>>

(* UPDATE ... SET real_balance_cents = real_balance_cents + amount, whose  *)
(* error is dropped.                                                       *)
Credit(k, h) ==
    /\ cb[<<k, h>>].stage = "credit"
    /\ cb' = [cb EXCEPT ![<<k, h>>] = [stage |-> "settle", txn |-> @.txn]]
    /\ \E t \in cb[<<k, h>>].txn, ok \in BOOLEAN :
         /\ Executed(ok)
         /\ IF ok
            THEN /\ balance' = [balance EXCEPT ![t[2]]["real"] = @ + txn[t].amount]
                 /\ posted' = [posted EXCEPT ![t[2]]["real"] = @ + txn[t].amount]
                 /\ credits' = [credits EXCEPT ![t] = @ + 1]
            ELSE UNCHANGED <<balance, posted, credits>>
    /\ UNCHANGED <<txn, requestVars, consumerVars, gatewayVars, saved, stale, basis, recorders,
                   dups, crashes>>

(* The result is written to the row (a payment also replaces the metadata, *)
(* and with it third_party_ref), errors are dropped, and 200 is answered.  *)
Settle(k, h) ==
    /\ cb[<<k, h>>].stage \in {"settle", "fail"}
    /\ \E t \in cb[<<k, h>>].txn, ok \in BOOLEAN :
         /\ Executed(ok)
         /\ txn' = IF ~ok THEN txn
                   ELSE IF cb[<<k, h>>].stage = "fail"
                   THEN [txn EXCEPT ![t] = Row("failed", @.amount, @.ref, @.final)]
                   ELSE [txn EXCEPT ![t] = Row("success", @.amount, {}, "credited")]
    /\ cb' = [cb EXCEPT ![<<k, h>>] = NotServed]
    /\ delivered' = [delivered EXCEPT ![k] = "answered"]
    /\ UNCHANGED <<balance, requestVars, consumerVars, checkout, asked, ledgerVars, dups, crashes>>
-----------------------------------------------------------------------------
(* The process restarts: requests, callbacks and queued messages are gone, *)
(* the database and the gateway are not.                                   *)
Crash ==
    /\ crashes < MaxCrashes
    /\ crashes' = crashes + 1
    /\ pc' = [r \in Requests |-> IF pc[r] \in InFlight THEN "lost" ELSE pc[r]]
    /\ hold' = [r \in Requests |-> {}]
    /\ inbox' = [c \in Consumers |-> <<>>]
    /\ work' = [c \in Consumers |-> <<>>]
    /\ answer' = [c \in Consumers |-> {}]
    /\ cb' = [s \in Checkouts \X Handlers |-> NotServed]
    /\ UNCHANGED <<dbVars, ask, plan, allocs, gatewayVars, ledgerVars, faults, dups>>

(* SIGTERM: Server.Shutdown waits for the requests and callbacks that are  *)
(* served, NATS.Drain is asked for and not waited for, and main returns:   *)
(* messages, and a push under way, are lost.  Counted as a lost message.   *)
Stop ==
    /\ \A r \in Requests : pc[r] \notin InFlight
    /\ \A s \in Checkouts \X Handlers : cb[s].stage = "idle"
    /\ Executed(FALSE)
    /\ inbox' = [c \in Consumers |-> <<>>]
    /\ work' = [c \in Consumers |-> <<>>]
    /\ answer' = [c \in Consumers |-> {}]
    /\ UNCHANGED <<dbVars, requestVars, gatewayVars, cb, ledgerVars, dups, crashes>>

RequestStep(r) ==
    \/ \E a \in Accounts : ReadAccount(r, a)
    \/ SaveAccount(r) \/ CreateTxn(r) \/ RefuseTxn(r)
    \/ Publish(r) \/ EndLoop(r) \/ MarkInstant(r)

ConsumerStep(c) == Take(c) \/ Push(c) \/ Record(c)

ServeStep(k, h) == Lookup(k, h) \/ Credit(k, h) \/ Settle(k, h)

Next ==
    \/ \E r \in Requests : \/ \E amount \in Amounts, mode \in Modes : Submit(r, amount, mode)
                           \/ RequestStep(r)
                           \/ FailRequest(r)
    \/ \E c \in Consumers : ConsumerStep(c) \/ LoseMessage(c)
    \/ \E k \in Checkouts : \E decision \in {"paid", "declined"} : Decide(k, decision)
    \/ \E k \in Checkouts, h \in Handlers :
         Deliver(k, h) \/ Duplicate(k, h) \/ ServeStep(k, h)
    \/ Stop \/ Crash

Spec == Init /\ [][Next]_vars

(* What a started goroutine does next it does eventually, and the gateway  *)
(* posts what it owes; nobody has to submit, to pay, or to fail.           *)
Fairness ==
    /\ \A r \in Requests : WF_vars(RequestStep(r))
    /\ \A c \in Consumers : WF_vars(ConsumerStep(c))
    /\ \A k \in Checkouts, h \in Handlers : WF_vars(Deliver(k, h)) /\ WF_vars(ServeStep(k, h))

FairSpec == Spec /\ Fairness
-----------------------------------------------------------------------------
TypeOK ==
    /\ balance \in [Accounts -> Balances]
    /\ txn \in [Txns -> TxnRows]
    /\ pc \in [Requests -> InFlight \cup {"idle", "done", "error", "lost"}]
    /\ ask \in [Requests -> [amount : Nat, isReal : BOOLEAN, dryRun : BOOLEAN]]
    /\ plan \in [Requests -> [Accounts -> Nat]]
    /\ hold \in [Requests -> SUBSET Holds]
    /\ allocs \in [Requests -> Seq(Legs)]
    /\ inbox \in [Consumers -> Seq(Seq(Legs))]
    /\ work \in [Consumers -> Seq(Legs)]
    /\ answer \in [Consumers -> SUBSET Answers]
    /\ checkout \in [Checkouts -> {"none", "open", "paid", "declined"}]
    /\ asked \in [Checkouts -> Nat]
    /\ delivered \in [Checkouts -> {"no", "sent", "answered"}]
    /\ cb \in [Checkouts \X Handlers -> Served]
    /\ posted \in [Accounts -> Totals]
    /\ saved \subseteq Txns
    /\ stale \subseteq Accounts
    /\ credits \in [Txns -> Nat]
    /\ basis \in [Requests -> [Accounts -> Int]]
    /\ recorders \in [Txns -> SUBSET Consumers]
    /\ {faults, dups, crashes} \subseteq Nat

(* Money is neither made nor lost except by a save of a stale row: however *)
(* saves, credits, faults, refused rows and restarts interleave, a balance *)
(* never exceeds its opening plus what BaseDeposit and the callback meant  *)
(* to add, and it is exactly that on an account no stale row was saved to. *)
BalancesArePosted ==
    \A a \in Accounts, kind \in Kinds :
        /\ balance[a][kind] <= Opening[a][kind] + posted[a][kind]
        /\ a \notin stale => balance[a][kind] = Opening[a][kind] + posted[a][kind]

(* A prompt on a phone has a transaction behind it: it belongs to a real   *)
(* request that is not a dry run, its row was stored before, and it asks   *)
(* for no more than the row says and for less than a shilling less.        *)
PromptsAreBooked ==
    \A k \in Checkouts : checkout[k] # "none" =>
        LET t == k[1] IN
        /\ ask[t[1]].isReal /\ ~ask[t[1]].dryRun
        /\ txn[t].status # "none"
        /\ 100 * asked[k] <= txn[t].amount /\ txn[t].amount < 100 * asked[k] + 100

(* No prompt is sent for part of a request: when a customer is prompted    *)
(* for one leg, every leg of the request whose account was saved has its   *)
(* transaction, so a refused, failed or interrupted request asks for       *)
(* nothing although its first legs were saved.                             *)
PromptsAreComplete ==
    \A k \in Checkouts : checkout[k] # "none" =>
        LET r == k[1][1] IN
        \A a \in Accounts : /\ plan[r][a] = 0
                            /\ <<r, a>> \in saved => txn[<<r, a>>].status # "none"

(* What was already booked on the legs of a request and what the loop has  *)
(* still to book, whatever the rounding, the restarts and the changes of   *)
(* balance under the loop: it is within amount_cents when no balance the   *)
(* request was split by has another sign than the pot.  An overdrawn       *)
(* account makes the pot smaller than the balances of the others, whose    *)
(* shares are then above one in all; the legs exceed the amount, but never *)
(* by more than those balances exceed the pot.  Without a pot there is no  *)
(* leg.                                                                    *)
SplitWithinRequest ==
    \A r \in Requests :
        LET pot == SumFunction(basis[r])
            shares == SumFunction([a \in Accounts |-> Share(basis[r][a], pot)])
            legs == SumFunction([a \in Accounts |-> txn[<<r, a>>].amount + plan[r][a]])
        IN  /\ legs # 0 => pot # 0
            /\ legs * Magnitude(pot) <= ask[r].amount * shares
            /\ (\A a \in Accounts : basis[r][a] * pot >= 0) => legs <= ask[r].amount

(* A callback credits a leg only against a payment: the credits of a leg   *)
(* are at most its paid prompts, plus one for each callback posted twice   *)
(* and for each restart between the credit and the settlement.             *)
EveryCreditIsPaid ==
    \A t \in Txns :
        credits[t] <= Cardinality({k \in Checkouts : k[1] = t /\ checkout[k] = "paid"})
                      + dups + crashes

(* How a row changes while one subscription works on it: it is born        *)
(* "success", the consumer records the push once, the callback settles an  *)
(* initiated row, and a row that was credited, marked or failed keeps its  *)
(* status.                                                                 *)
RowMoves(old, new) ==
    \/ old = new
    \/ old.status = "none" /\ new.status = "success" /\ new.final = ""
    \/ /\ old.status = "success" /\ old.final = ""
       /\ new.status \in {"initiated", "failed"} \/ new.final = "instant_credited"
    \/ /\ old.status = "initiated"
       /\ new.status = "failed" \/ new.final = "credited"

(* A further subscription records its own push of the leg over whatever    *)
(* the row was, settled or not: each subscription does so at most once.    *)
RecordsOver(t) ==
    \E c \in Consumers \ recorders[t] :
        /\ recorders[t] # {} /\ recorders'[t] = recorders[t] \cup {c}
        /\ txn'[t].status \in {"initiated", "failed"}

(* A callback that found the row under another push settles it after that. *)
SettlesOver(t) ==
    /\ \E c, d \in recorders[t] : c # d
    /\ recorders'[t] = recorders[t]
    /\ \/ txn'[t].status = "failed" /\ txn'[t].final = txn[t].final
       \/ txn'[t].status = "success" /\ txn'[t].final = "credited"

(* With any number of subscriptions a row goes forward as long as one of   *)
(* them has recorded it.  The second one, and each further one, opens the  *)
(* row again at most once; only after that a settled row can be settled    *)
(* another way, and nothing but a record opens it.                         *)
RowsKeepOrder ==
    [][\A t \in Txns : RowMoves(txn[t], txn'[t]) \/ RecordsOver(t) \/ SettlesOver(t)]_vars

(* Every leg of a published request is pushed and its outcome recorded,    *)
(* even when pushes of other legs fail, unless a statement fails, a        *)
(* message is lost or the process stops.                                   *)
PublishedIsRecorded ==
    \A r \in Requests :
        (pc[r] = "done" /\ ask[r].isReal /\ ~ask[r].dryRun) ~>
            \/ \A a \in Accounts : LET row == txn[<<r, a>>] IN
                 row.status \in {"none", "initiated", "failed"} \/ row.final = "credited"
            \/ faults + crashes > 0

(* A payment ends in a credit: the callback may come before the consumer   *)
(* has stored the CheckoutRequestID and be answered 404, but a gateway     *)
(* that repeats it gets it through.  Without a fault, the only payments    *)
(* that are never credited are those whose push timed out or was answered  *)
(* with something that did not decode.                                     *)
PaidIsCredited ==
    \A k \in Checkouts :
        (checkout[k] = "paid") ~>
            \/ credits[k[1]] > 0
            \/ txn[k[1]].status \in {"initiated", "failed"} /\ k \notin txn[k[1]].ref
            \/ faults + crashes > 0

(* A deposit keeps what a payment promises, through overlaps, refused      *)
(* rows, faults, restarts and callbacks in any order: a prompt is for a    *)
(* booked leg, is decided once, and only a paid prompt is credited.        *)
Promise == INSTANCE Payment WITH booked <- Stored, prompt <- checkout
PaymentSpec == Promise!Spec
-----------------------------------------------------------------------------
(* What the repository says of the deposit, and the code does not do       *)

(* "true = MPESA for smart": the real money of a pushed deposit is the     *)
(* money paid through M-Pesa, so what was posted to the real balances is   *)
(* no more than the customer paid.                                         *)
RealIsPaid ==
    SumFunction([a \in Accounts |-> posted[a]["real"]]) <=
        SumFunction([k \in Checkouts |->
            IF checkout[k] = "paid" THEN txn[k[1]].amount ELSE 0])
=============================================================================
