------------------------------ MODULE Withdraw ------------------------------
(***************************************************************************)
(* A withdrawal from the HTTP request to the execution engine:             *)
(*   SmartWithdraw          service/dd_rr/foreman.go                       *)
(*   bets.cashout.withdraw  core NATS, every subscription gets a message   *)
(*   StartExecutionEngine   service/natsAnish/server.go                    *)
(*   TestWithdrawal         main.go                                        *)
(* The handler begins a database transaction but runs its updates on db    *)
(* and not on it: each debit is final at once, and Rollback and Commit     *)
(* change nothing.                                                         *)
(***************************************************************************)
EXTENDS Transactions, Split, Sequences, FiniteSetsExt, Functions

CONSTANTS
    Accounts,      \* the active sports accounts of one customer
    Requests,      \* calls of SmartWithdraw
    Engines,       \* subscriptions to bets.cashout.withdraw in the process
    Opening,       \* balances before the first request, per account and kind
    Amounts,       \* values of amount, which the client may send negative
    Development,   \* ENV=dev: main runs TestWithdrawal
    MaxFaults      \* failed statements and publishes

Kinds == {"real", "fake"}
Txns == Requests \X Accounts

ASSUME WithdrawAssumption ==
    /\ Accounts # {} /\ IsFiniteSet(Accounts) /\ IsFiniteSet(Requests)
    /\ Opening \in [Accounts -> [Kinds -> Nat]]
    /\ Amounts \subseteq Int
    /\ Development \in BOOLEAN /\ MaxFaults \in Nat

VARIABLES
    balance,    \* real_balance_cents and fake_balance_cents of each account
    journal,    \* the withdrawal rows of the transactions table
    pc,         \* where each handler is
    ask,        \* amount and kind of each request that passed the checks
    plan,       \* the debits the loop still has to make
    leg,        \* the account the loop is at, if any
    legs,       \* the legs collected for the execution engine
    inbox,      \* messages delivered to each subscription
    tested,     \* has TestWithdrawal published since the process started?
    \* history and bounds
    debited,    \* cents debited for each leg
    sent,       \* legs that were published
    faults

tables == <<balance, journal>>
history == <<debited, sent>>
locals == <<pc, ask, plan, leg, legs>>
vars == <<tables, locals, inbox, tested, history, faults>>

InFlight == {"debit", "create"}

Init ==
    /\ balance = Opening /\ journal = {}
    /\ pc = [r \in Requests |-> "idle"]
    /\ ask = [r \in Requests |-> [amount |-> 0, kind |-> "fake"]]
    /\ plan = [r \in Requests |-> [a \in Accounts |-> 0]]
    /\ leg = [r \in Requests |-> {}] /\ legs = [r \in Requests |-> {}]
    /\ inbox = [e \in Engines |-> <<>>]
    /\ tested = FALSE
    /\ debited = [t \in Txns |-> 0] /\ sent = {}
    /\ faults = 0

Goto(r, stage) == pc' = [pc EXCEPT ![r] = stage]

(* A statement or a publish either runs or fails; failures are bounded.    *)
Executed(ok) ==
    /\ ok \/ faults < MaxFaults
    /\ faults' = IF ok THEN faults ELSE faults + 1

NotZero(amount) == amount # 0      \* variant of IsPositive: the check of SmartDeposit
IsPositive(amount) == amount > 0

LegAtLeast(amount, part, pot, short) ==     \* variant of Leg: the larger of the two
    IF part > 0 THEN Max({part, LegAmount(amount, part, pot, short)}) ELSE 0

(* The share of an account, capped at its balance; an overdrawn account    *)
(* has none.                                                               *)
Leg(amount, part, pot, short) ==
    IF part > 0 THEN Min({part, LegAmount(amount, part, pot, short)}) ELSE 0

(* The amount, the code, the signature and the pot are checked, and the    *)
(* accounts are read once for the pot and the plan.  A request can also be *)
(* turned away for its code or its signature, whatever the amount.         *)
Submit(r, amount, kind) ==
    /\ pc[r] = "idle"
    /\ LET pot == SumFunction([a \in Accounts |-> balance[a][kind]]) IN
       /\ IsPositive(amount) /\ pot >= amount
       /\ \E short \in SUBSET Accounts :
            plan' = [plan EXCEPT ![r] = [a \in Accounts |->
                       Leg(amount, balance[a][kind], pot, a \in short)]]
    /\ ask' = [ask EXCEPT ![r] = [amount |-> amount, kind |-> kind]]
    /\ Goto(r, "debit")
    /\ UNCHANGED <<tables, leg, legs, inbox, tested, history, faults>>

Reject(r) ==
    /\ pc[r] = "idle"
    /\ Goto(r, "rejected")
    /\ UNCHANGED <<tables, ask, plan, leg, legs, inbox, tested, history, faults>>

(* Variant of Debit: the amount of the request instead of the leg.         *)
DebitWhole(r, a) ==
    /\ pc[r] = "debit" /\ plan[r][a] > 0
    /\ balance' = [balance EXCEPT ![a][ask[r].kind] = @ - ask[r].amount]
    /\ debited' = [debited EXCEPT ![<<r, a>>] = ask[r].amount]
    /\ leg' = [leg EXCEPT ![r] = {a}]
    /\ Goto(r, "create")
    /\ UNCHANGED <<journal, ask, plan, legs, inbox, tested, sent, faults>>

(* db.Model(&acct).Update("balance - ?"), computed by the database.        *)
Debit(r, a) ==
    /\ pc[r] = "debit" /\ plan[r][a] > 0
    /\ balance' = [balance EXCEPT ![a][ask[r].kind] = @ - plan[r][a]]
    /\ debited' = [debited EXCEPT ![<<r, a>>] = plan[r][a]]
    /\ leg' = [leg EXCEPT ![r] = {a}]
    /\ Goto(r, "create")
    /\ UNCHANGED <<journal, ask, plan, legs, inbox, tested, sent, faults>>

(* The row of a leg carries the parent reference of the request, a fresh   *)
(* idempotency key, and the amount with a minus sign.                      *)
NewRow(r, a) ==
    [reference |-> r, idempotency_key |-> <<r, a>>, columns |-> {"sports"},
     amount |-> -plan[r][a]]

StoredRows == {[reference |-> t[1], idempotency_key |-> t] : t \in journal}

(* db.Create(&txn), then the leg is collected; a refused row is answered   *)
(* 500 after a Rollback that undoes nothing.                               *)
CreateTxn(r) ==
    /\ pc[r] = "create"
    /\ \E a \in leg[r] :
         IF CanInsert(StoredRows, NewRow(r, a))
         THEN /\ journal' = journal \cup {<<r, a>>}
              /\ legs' = [legs EXCEPT ![r] = @ \cup {<<r, a>>}]
              /\ plan' = [plan EXCEPT ![r][a] = 0]
              /\ Goto(r, "debit")
         ELSE Goto(r, "error") /\ UNCHANGED <<journal, legs, plan>>
    /\ leg' = [leg EXCEPT ![r] = {}]
    /\ UNCHANGED <<balance, ask, inbox, tested, history, faults>>

(* Commit and Publish("bets.cashout.withdraw"), whose error is logged and  *)
(* dropped: the request is answered 202 "smart_withdraw_queued".           *)
Publish(r) ==
    /\ pc[r] = "debit" /\ \A a \in Accounts : plan[r][a] = 0
    /\ \E ok \in BOOLEAN :
         /\ Executed(ok)
         /\ inbox' = IF ok THEN [e \in Engines |-> Append(inbox[e], legs[r])] ELSE inbox
         /\ sent' = IF ok THEN sent \cup legs[r] ELSE sent
    /\ Goto(r, "accepted")
    /\ UNCHANGED <<tables, ask, plan, leg, legs, tested, debited>>

(* A statement fails: 500, again after a Rollback that undoes nothing.     *)
FailRequest(r) ==
    /\ pc[r] \in InFlight
    /\ Executed(FALSE)
    /\ leg' = [leg EXCEPT ![r] = {}]
    /\ Goto(r, "error")
    /\ UNCHANGED <<tables, ask, plan, legs, inbox, tested, history>>

(* The message of TestWithdrawal is msgpack, of which the engine's JSON    *)
(* decoder makes no withdrawals.                                           *)
TestWithdrawal ==
    /\ Development /\ ~tested
    /\ tested' = TRUE
    /\ inbox' = [e \in Engines |-> Append(inbox[e], {})]
    /\ UNCHANGED <<tables, locals, history, faults>>

(* payload["withdrawals"].([]any) on a message without withdrawals, whose  *)
(* field is null or absent: the goroutine panics and the process with it.  *)
(* It is started again, and main tests again.  A message with legs would   *)
(* start a goroutine for each; NothingIsPaidOut says that there is none.   *)
Take(e) ==
    /\ inbox[e] # <<>> /\ Head(inbox[e]) = {}
    /\ pc' = [r \in Requests |-> IF pc[r] \in InFlight THEN "lost" ELSE pc[r]]
    /\ leg' = [r \in Requests |-> {}]
    /\ inbox' = [d \in Engines |-> <<>>]
    /\ tested' = FALSE
    /\ UNCHANGED <<tables, ask, plan, legs, debited, sent, faults>>

Next ==
    \/ \E r \in Requests :
         \/ \E amount \in Amounts, kind \in Kinds : Submit(r, amount, kind)
         \/ \E a \in Accounts : Debit(r, a)
         \/ Reject(r) \/ CreateTxn(r) \/ Publish(r) \/ FailRequest(r)
    \/ \E e \in Engines : Take(e)
    \/ TestWithdrawal

Spec == Init /\ [][Next]_vars
-----------------------------------------------------------------------------
TypeOK ==
    /\ balance \in [Accounts -> [Kinds -> Int]] /\ journal \subseteq Txns
    /\ pc \in [Requests -> InFlight \cup {"idle", "accepted", "rejected", "error", "lost"}]
    /\ ask \in [Requests -> [amount : Nat, kind : Kinds]]
    /\ plan \in [Requests -> [Accounts -> Nat]]
    /\ leg \in [Requests -> SUBSET Accounts] /\ legs \in [Requests -> SUBSET Txns]
    /\ inbox \in [Engines -> Seq(SUBSET Txns)]
    /\ tested \in BOOLEAN /\ sent \subseteq Txns
    /\ debited \in [Txns -> Nat]
    /\ faults \in Nat

(* One request alone never overdraws an account: a balance below zero was  *)
(* debited by at least two requests.                                       *)
OverdrawnOnlyByOverlap ==
    \A a \in Accounts, kind \in Kinds : balance[a][kind] < 0 =>
        Cardinality({r \in Requests : ask[r].kind = kind /\ debited[<<r, a>>] > 0}) > 1

(* A request takes no more than it was asked for, through rounding, caps,  *)
(* failures and restarts.  Only when an account is overdrawn the others'   *)
(* shares of the smaller pot can add up to more.                           *)
DebitsWithinRequest ==
    \A r \in Requests :
        \/ SumFunction([a \in Accounts |-> debited[<<r, a>>]]) <= ask[r].amount
        \/ \E a \in Accounts : balance[a][ask[r].kind] < 0

(* The hook refuses every withdrawal row, so a request that debited an     *)
(* account never gets past it: no row is stored, no second account is      *)
(* debited, no message has legs, and an accepted request took nothing.     *)
NothingIsPaidOut ==
    /\ journal = {} /\ sent = {}
    /\ \A r \in Requests :
         LET taken == {a \in Accounts : debited[<<r, a>>] > 0} IN
         Cardinality(taken) <= 1 /\ (pc[r] = "accepted" => taken = {})
-----------------------------------------------------------------------------
(* "proportional debit + send to Execution Engine": what a request has     *)
(* debited when it ends was sent.                                          *)
DebitsAreSent ==
    \A r \in Requests, a \in Accounts :
        pc[r] \in {"accepted", "error"} /\ debited[<<r, a>>] > 0 => <<r, a>> \in sent
=============================================================================
