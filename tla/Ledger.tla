------------------------------- MODULE Ledger -------------------------------
(***************************************************************************)
(* The handlers that change one account row and the trading profile beside *)
(* it:                                                                     *)
(*   AccountDeposit, BaseDeposit   api/handlers/smart-mpesa-depo.go        *)
(*   PlaceTrade                    api/handlers/trade.go                   *)
(*   FakeTopup                     api/handlers/fake-topup.go              *)
(*   SmartWithdraw                 service/dd_rr/foreman.go, of a customer *)
(*                                 whose one active account this is        *)
(* The five account types run the same statements on their own tables, so  *)
(* the module has one account, of the type AccountType.  Every statement   *)
(* is an action; none of the handlers runs its statements in a database    *)
(* transaction.                                                            *)
(***************************************************************************)
EXTENDS Transactions, Functions

CONSTANTS
    Calls,           \* HTTP requests
    AccountType,     \* account_type of the token
    Opening,         \* the balances before the first call
    Amounts,         \* amount_cents of deposits and trades, amount of withdrawals
    TopUpAmounts,    \* amount_cents of top-ups, which nobody checks
    MaxFaults        \* statements that fail

Kinds == {"real", "fake"}
Balances == [Kinds -> Int]
Ops == {"deposit", "trade", "withdraw", "topup"}

ASSUME LedgerAssumption ==
    /\ AccountType \in CountedColumns
    /\ Opening \in [Kinds -> Nat]
    /\ Amounts \subseteq Nat /\ TopUpAmounts \subseteq Int
    /\ MaxFaults \in Nat

VARIABLES
    account,   \* real_balance_cents and fake_balance_cents
    volume,    \* real_trade_volume and fake_trade_volume of the profile
    journal,   \* calls whose transaction is stored
    pc,        \* where each handler is
    call,      \* operation, amount and kind of each call
    row,       \* the account row the handler has read
    profile,   \* the profile row PlaceTrade has read
    \* history and bounds
    applied,   \* calls that have changed the account
    counted,   \* calls that have changed the profile
    stale,     \* what was saved, or debited, on a row that had changed since it was read
    faults

tables  == <<account, volume, journal>>
locals  == <<pc, call, row, profile>>
history == <<applied, counted, stale>>
vars == <<tables, locals, history, faults>>

Zero == [kind \in Kinds |-> 0]
InFlight == {"profile", "account", "save", "debit", "volume", "create", "increment"}
Stages == InFlight \cup {"idle", "done", "rejected", "error"}

Init ==
    /\ account = Opening /\ volume = Zero /\ journal = {}
    /\ pc = [c \in Calls |-> "idle"]
    /\ call = [c \in Calls |-> [op |-> "deposit", amount |-> 0, kind |-> "fake"]]
    /\ row = [c \in Calls |-> Zero] /\ profile = [c \in Calls |-> Zero]
    /\ applied = {} /\ counted = {} /\ stale = {}
    /\ faults = 0

Goto(c, stage) == pc' = [pc EXCEPT ![c] = stage]

(* A request is parsed and checked: amounts must be positive, except that  *)
(* a top-up is taken as it comes; it is always of fake money.  Withdrawals *)
(* are made from sports accounts.                                          *)
Submit(c, op, amount, kind) ==
    /\ pc[c] = "idle"
    /\ op = "withdraw" => AccountType = "sports"
    /\ IF op = "topup" THEN amount \in TopUpAmounts /\ kind = "fake" ELSE amount \in Amounts
    /\ call' = [call EXCEPT ![c] = [op |-> op, amount |-> amount, kind |-> kind]]
    /\ Goto(c, IF op # "topup" /\ amount <= 0 THEN "rejected"
               ELSE IF op = "trade" THEN "profile" ELSE "account")
    /\ UNCHANGED <<tables, row, profile, history, faults>>

(* PlaceTrade, First(&profile): found for the five asset classes only.     *)
ReadProfile(c) ==
    /\ pc[c] = "profile"
    /\ profile' = [profile EXCEPT ![c] = volume]
    /\ Goto(c, IF AccountType \in AccountColumns THEN "account" ELSE "rejected")
    /\ UNCHANGED <<tables, call, row, history, faults>>

IsSpending(c) == call[c].op \in {"trade", "withdraw"}

(* Where each handler goes on once it has read the account.                *)
NextStage == [deposit |-> "save", trade |-> "save", withdraw |-> "debit", topup |-> "increment"]

(* PlaceTrade: "Insufficient real balance", "Insufficient fake balance".   *)
Unchecked(funds, amount) == TRUE       \* variant of Covered: the check dropped
Covered(funds, amount) == funds >= amount

(* First(&acc) of each handler, or Find(&accounts); what is to be spent is *)
(* checked against what was read.  The pot of one account is its balance,  *)
(* and its share of the withdrawal is the whole.                           *)
ReadAccount(c) ==
    /\ pc[c] = "account"
    /\ row' = [row EXCEPT ![c] = account]
    /\ Goto(c, IF IsSpending(c) /\ ~Covered(account[call[c].kind], call[c].amount)
               THEN "rejected" ELSE NextStage[call[c].op])
    /\ UNCHANGED <<tables, call, profile, history, faults>>

(* What a call is to add to the account.                                   *)
Delta(c) == IF IsSpending(c) THEN -call[c].amount ELSE call[c].amount

(* Save(&acc): the row that was read, changed in memory, is written back.  *)
SaveAccount(c) ==
    /\ pc[c] = "save"
    /\ account' = [row[c] EXCEPT ![call[c].kind] = @ + Delta(c)]
    /\ applied' = applied \cup {c}
    /\ stale' = IF row[c] = account THEN stale ELSE stale \cup {"account"}
    /\ Goto(c, IF call[c].op = "trade" THEN "volume" ELSE "create")
    /\ UNCHANGED <<volume, journal, call, row, profile, counted, faults>>

(* Variant of SaveProfile: every trade counts as real volume.              *)
SaveRealVolume(c) ==
    /\ pc[c] = "volume"
    /\ volume' = [profile[c] EXCEPT !["real"] = @ + call[c].amount]
    /\ counted' = counted \cup {c}
    /\ stale' = IF profile[c] = volume THEN stale ELSE stale \cup {"profile"}
    /\ Goto(c, "create")
    /\ UNCHANGED <<account, journal, call, row, profile, applied, faults>>

(* Variant of SaveProfile: what the account loses is added.                *)
SaveSignedVolume(c) ==
    /\ pc[c] = "volume"
    /\ volume' = [profile[c] EXCEPT ![call[c].kind] = @ + Delta(c)]
    /\ counted' = counted \cup {c}
    /\ stale' = IF profile[c] = volume THEN stale ELSE stale \cup {"profile"}
    /\ Goto(c, "create")
    /\ UNCHANGED <<account, journal, call, row, profile, applied, faults>>

(* PlaceTrade, Save(&profile).                                             *)
SaveProfile(c) ==
    /\ pc[c] = "volume"
    /\ volume' = [profile[c] EXCEPT ![call[c].kind] = @ + call[c].amount]
    /\ counted' = counted \cup {c}
    /\ stale' = IF profile[c] = volume THEN stale ELSE stale \cup {"profile"}
    /\ Goto(c, "create")
    /\ UNCHANGED <<account, journal, call, row, profile, applied, faults>>

(* Variant of Debit: computed in the process from the row that was read.   *)
DebitRead(c) ==
    /\ pc[c] = "debit"
    /\ account' = [account EXCEPT ![call[c].kind] = row[c][call[c].kind] - call[c].amount]
    /\ applied' = applied \cup {c}
    /\ stale' = IF row[c] = account THEN stale ELSE stale \cup {"debit"}
    /\ Goto(c, "create")
    /\ UNCHANGED <<volume, journal, call, row, profile, counted, faults>>

(* SmartWithdraw: SET balance = balance - amount.                          *)
Debit(c) ==
    /\ pc[c] = "debit"
    /\ account' = [account EXCEPT ![call[c].kind] = @ - call[c].amount]
    /\ applied' = applied \cup {c}
    /\ stale' = IF row[c] = account THEN stale ELSE stale \cup {"debit"}
    /\ Goto(c, "create")
    /\ UNCHANGED <<volume, journal, call, row, profile, counted, faults>>

(* What the row of a call shows to the hook and the indexes: a reference   *)
(* of its own, and no idempotency key but for a withdrawal, whose amount   *)
(* has a minus sign.                                                       *)
NewRow(c) ==
    LET withdraws == call[c].op = "withdraw" IN
    [reference |-> <<c>>, idempotency_key |-> IF withdraws THEN <<c>> ELSE <<>>,
     columns |-> {AccountType}, amount |-> IF withdraws THEN -call[c].amount ELSE call[c].amount]

(* Create(&transaction).  A refusal is answered 500 after the saves, which *)
(* stay: SmartWithdraw rolls back a transaction it ran nothing in.         *)
CreateTxn(c) ==
    /\ pc[c] = "create"
    /\ IF CanInsert({NewRow(d) : d \in journal}, NewRow(c))
       THEN journal' = journal \cup {c} /\ Goto(c, "done")
       ELSE Goto(c, "error") /\ UNCHANGED journal
    /\ UNCHANGED <<account, volume, call, row, profile, history, faults>>

(* Variant of Increment: the balance that was read is written back.        *)
WriteBack(c) ==
    /\ pc[c] = "increment"
    /\ account' = [row[c] EXCEPT !["fake"] = @ + call[c].amount]
    /\ applied' = applied \cup {c}
    /\ Goto(c, "done")
    /\ UNCHANGED <<volume, journal, call, row, profile, counted, stale, faults>>

(* FakeTopup: SET fake_balance_cents = fake_balance_cents + amount.        *)
Increment(c) ==
    /\ pc[c] = "increment"
    /\ account' = [account EXCEPT !["fake"] = @ + call[c].amount]
    /\ applied' = applied \cup {c}
    /\ Goto(c, "done")
    /\ UNCHANGED <<volume, journal, call, row, profile, counted, stale, faults>>

(* A statement fails.  Only FakeTopup drops the error, and answers 200     *)
(* although nothing was added.                                             *)
Fail(c) ==
    /\ pc[c] \in InFlight /\ faults < MaxFaults
    /\ faults' = faults + 1
    /\ Goto(c, IF pc[c] = "increment" THEN "done" ELSE "error")
    /\ UNCHANGED <<tables, call, row, profile, history>>

Step(c) ==
    \/ ReadProfile(c) \/ ReadAccount(c) \/ SaveAccount(c) \/ SaveProfile(c)
    \/ CreateTxn(c) \/ Increment(c) \/ Debit(c)

Next ==
    \E c \in Calls :
        \/ \E op \in Ops, amount \in Amounts \cup TopUpAmounts, kind \in Kinds :
             Submit(c, op, amount, kind)
        \/ Step(c)
        \/ Fail(c)

Spec == Init /\ [][Next]_vars
-----------------------------------------------------------------------------
TypeOK ==
    /\ account \in Balances /\ volume \in [Kinds -> Nat] /\ journal \subseteq Calls
    /\ pc \in [Calls -> Stages]
    /\ call \in [Calls -> [op : Ops, amount : Int, kind : Kinds]]
    /\ row \in [Calls -> Balances] /\ profile \in [Calls -> [Kinds -> Nat]]
    /\ applied \subseteq Calls /\ counted \subseteq Calls
    /\ stale \subseteq {"account", "profile", "debit"}
    /\ faults \in Nat

(* However calls race, fail and write back stale rows, the real balance    *)
(* never falls below zero: each save writes a row whose check it passed.   *)
(* Only a withdrawal that debits money others have changed since it looked *)
(* can overdraw, and a negative top-up the fake balance.                   *)
NeverOverdrawn ==
    "debit" \notin stale =>
        /\ account["real"] >= 0
        /\ TopUpAmounts \subseteq Nat => account["fake"] >= 0

Total(kind, calls, value(_)) ==
    SumFunction([c \in {d \in calls : call[d].kind = kind} |-> value(c)])

(* Money and volume go wrong only by a stale save: as long as no row was   *)
(* saved over a change, the balances are the opening plus what the calls   *)
(* were to add, and the volumes are the trades that were counted, through  *)
(* refused transactions and failed statements.                             *)
ExactUnlessStale ==
    \A kind \in Kinds :
        /\ "account" \notin stale =>
              account[kind] = Opening[kind] + Total(kind, applied, Delta)
        /\ "profile" \notin stale =>
              volume[kind] = Total(kind, counted, LAMBDA c : call[c].amount)

(* Between calls the three tables agree, as long as no statement failed    *)
(* and no row was saved over a change: the account is the opening plus its *)
(* journal plus the top-ups plus what was answered with an error, since a  *)
(* refused row leaves its saves behind; the profile's volume is the trades *)
(* among them, of each kind.                                               *)
TablesAgree ==
    LET ended(stage) == {c \in Calls : pc[c] = stage}
        topups == {c \in ended("done") : call[c].op = "topup"}
        booked == journal \cup topups \cup ended("error")
    IN  ended("idle") \cup ended("done") \cup ended("rejected") \cup ended("error") = Calls
        /\ faults = 0 /\ stale \subseteq {"debit"} =>
        \A kind \in Kinds :
            /\ account[kind] = Opening[kind] + Total(kind, booked, Delta)
            /\ volume[kind] = Total(kind, {c \in booked : call[c].op = "trade"},
                                    LAMBDA c : call[c].amount)

(* The handlers implement the atomic account: the save, the debit or the   *)
(* increment is where a call takes effect, once and covered by the funds   *)
(* of that moment.  Only a save or a debit planned on a row that has       *)
(* changed since is none of its steps; a top-up always is one.             *)
Atomic == INSTANCE AtomicAccount WITH funds <- account, done <- applied

StaleEffect == \E c \in applied' \ applied : row[c] # account /\ call[c].op # "topup"

AtomicUnlessStale == Atomic!Init /\ [][Atomic!Next \/ StaleEffect]_<<account, applied>>
=============================================================================
