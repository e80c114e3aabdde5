---------------------------- MODULE LedgerProofs ----------------------------
(***************************************************************************)
(* What TLAPS proves of Ledger, for any calls, opening balances, amounts   *)
(* and faults, however calls overlap and whatever rows the indexes refuse: *)
(* its type invariant, that no balance falls below zero, that its calls    *)
(* are steps of the atomic account, and that its tables agree with them.   *)
(***************************************************************************)
EXTENDS Ledger, Sums

(* What Submit has checked is true of a call as long as it is in progress. *)
CheckedInput(c) ==
    /\ pc[c] \in InFlight => call[c].op \in Ops
    /\ pc[c] \in InFlight /\ call[c].op = "topup" =>
          /\ pc[c] \in {"account", "increment"}
          /\ call[c].amount \in TopUpAmounts /\ call[c].kind = "fake"
    /\ pc[c] \in InFlight /\ call[c].op # "topup" =>
          pc[c] # "increment" /\ call[c].amount \in Amounts /\ call[c].amount > 0
    /\ pc[c] = "debit" => call[c].op = "withdraw"
    /\ pc[c] = "save" => call[c].op \in {"deposit", "trade"}

(* A call that has still to change the account has not changed it yet.     *)
NotYetApplied(c) ==
    pc[c] \in {"idle", "profile", "account", "save", "debit", "increment"} => c \notin applied

(* The bounds on a row, in the table or in a handler.                      *)
Kept(funds) ==
    /\ funds["real"] >= 0
    /\ TopUpAmounts \subseteq Nat => funds["fake"] >= 0

(* A handler that is about to spend has checked the row it holds.          *)
CheckedRow(c) ==
    /\ "debit" \notin stale => Kept(row[c])
    /\ pc[c] \in {"save", "debit"} /\ IsSpending(c) =>
          row[c][call[c].kind] >= call[c].amount

Checked(c) == CheckedInput(c) /\ NotYetApplied(c) /\ CheckedRow(c)

FundsInv ==
    /\ TypeOK
    /\ NeverOverdrawn
    /\ \A c \in Calls : Checked(c)

(* A step of c leaves what is local to the other calls alone.              *)
LEMMA OthersKept ==
    ASSUME NEW d \in Calls, Checked(d), stale \subseteq stale',
           pc'[d] = pc[d], call'[d] = call[d], row'[d] = row[d],
           d \in applied' => d \in applied
    PROVE  Checked(d)'
  BY DEF Checked, CheckedInput, NotYetApplied, CheckedRow, IsSpending, Kept

(* A request is parsed and checked.                                        *)
LEMMA SubmitKeeps ==
    ASSUME FundsInv, NEW c \in Calls, NEW op \in Ops,
           NEW amount \in Amounts \cup TopUpAmounts, NEW kind \in Kinds,
           Submit(c, op, amount, kind)
    PROVE  FundsInv'
<1> USE DEF FundsInv, Goto, tables, history
<1>1. amount \in Int
  BY LedgerAssumption DEF LedgerAssumption
<1>2. TypeOK'
  BY <1>1 DEF TypeOK, Submit, InFlight, Stages
<1>3. ASSUME NEW d \in Calls PROVE Checked(d)'
  <2>1. CASE d = c
    BY <1>1, <2>1 DEF TypeOK, Submit, Checked, CheckedInput, NotYetApplied, CheckedRow, Kept,
                      InFlight, Ops
  <2>2. CASE d # c
    <3>1. pc'[d] = pc[d] /\ call'[d] = call[d] /\ row'[d] = row[d]
      BY <2>2 DEF TypeOK, Submit
    <3>2. UNCHANGED <<stale, applied>>
      BY DEF Submit
    <3> QED
      BY <3>1, <3>2, OthersKept
  <2> QED
    BY <2>1, <2>2
<1>4. NeverOverdrawn'
  BY DEF Submit, NeverOverdrawn
<1> QED
  BY <1>2, <1>3, <1>4

(* The profile and the account are read, and what is spent is checked.     *)
LEMMA ReadKeeps ==
    ASSUME FundsInv, NEW c \in Calls, ReadProfile(c) \/ ReadAccount(c)
    PROVE  FundsInv'
<1> USE DEF FundsInv, Goto, tables, history
<1>0. call[c].op \in Ops
  BY DEF TypeOK
<1>1. TypeOK'
  <2>1. CASE ReadProfile(c)
    BY <2>1 DEF TypeOK, ReadProfile, InFlight, Stages
  <2>2. CASE ReadAccount(c)
    <3>1. NextStage[call[c].op] \in Stages
      BY <1>0 DEF NextStage, Ops, Stages, InFlight
    <3>2. row' \in [Calls -> Balances] /\ pc' \in [Calls -> Stages]
      BY <2>2, <3>1 DEF TypeOK, ReadAccount, InFlight, Stages
    <3> QED
      BY <2>2, <3>2 DEF TypeOK, ReadAccount
  <2> QED
    BY <2>1, <2>2
<1>2. NeverOverdrawn'
  BY DEF ReadProfile, ReadAccount, NeverOverdrawn
<1>3. ASSUME NEW d \in Calls PROVE Checked(d)'
  <2>1. CASE d = c /\ ReadProfile(c)
    BY <2>1 DEF TypeOK, ReadProfile, Checked, CheckedInput, NotYetApplied, CheckedRow, Kept, InFlight
  <2>2. CASE d = c /\ ReadAccount(c)
    <3>1. /\ row'[c] = account /\ call' = call /\ applied' = applied /\ stale' = stale
          /\ pc[c] = "account" /\ Checked(c)
      BY <2>2 DEF TypeOK, ReadAccount
    <3>2. \/ pc'[c] = "rejected"
          \/ /\ pc'[c] = NextStage[call[c].op]
             /\ IsSpending(c) => account[call[c].kind] >= call[c].amount
      BY <2>2 DEF TypeOK, ReadAccount, Covered
    <3>3. /\ pc'[c] \in {"save", "debit", "increment", "rejected"}
          /\ pc'[c] = "increment" => call[c].op = "topup"
          /\ pc'[c] = "debit" => call[c].op = "withdraw"
          /\ pc'[c] = "save" => call[c].op \in {"deposit", "trade"}
      BY <1>0, <3>2 DEF NextStage, Ops
    <3>4. CheckedInput(c)'
      BY <1>0, <3>1, <3>3 DEF Checked, CheckedInput, InFlight
    <3>5. NotYetApplied(c)' /\ CheckedRow(c)'
      BY <3>1, <3>2, <3>3 DEF Checked, NotYetApplied, CheckedRow, IsSpending, NeverOverdrawn, Kept
    <3> QED
      BY <2>2, <3>4, <3>5 DEF Checked
  <2>3. CASE d # c
    <3>1. pc'[d] = pc[d] /\ call'[d] = call[d] /\ row'[d] = row[d]
      BY <2>3 DEF TypeOK, ReadProfile, ReadAccount
    <3>2. UNCHANGED <<stale, applied>>
      BY DEF ReadProfile, ReadAccount
    <3> QED
      BY <3>1, <3>2, OthersKept
  <2> QED
    BY <2>1, <2>2, <2>3
<1> QED
  BY <1>1, <1>2, <1>3

(* What the three ways to change the account have in common.              *)
LEMMA OthersUnapplied ==
    ASSUME FundsInv, NEW c \in Calls, NEW d \in Calls, d # c,
           SaveAccount(c) \/ Debit(c) \/ Increment(c)
    PROVE  Checked(d)'
<1>1. pc'[d] = pc[d] /\ call'[d] = call[d] /\ row'[d] = row[d]
  BY DEF FundsInv, TypeOK, SaveAccount, Debit, Increment, Goto
<1>2. stale \subseteq stale' /\ applied' = applied \cup {c}
  BY DEF SaveAccount, Debit, Increment
<1> QED
  BY <1>1, <1>2, OthersKept DEF FundsInv

(* The save writes a row whose check it passed, or adds to it.             *)
LEMMA SaveKeeps ==
    ASSUME FundsInv, NEW c \in Calls, SaveAccount(c)
    PROVE  FundsInv'
<1> USE DEF FundsInv, Goto
<1>1. /\ row[c] \in [Kinds -> Int] /\ call[c].kind \in Kinds /\ call[c].amount \in Int
      /\ call[c].op \in {"deposit", "trade"} /\ call[c].amount > 0
  BY DEF TypeOK, Balances, SaveAccount, Checked, CheckedInput, InFlight, Ops
<1>2. account' = [row[c] EXCEPT ![call[c].kind] = row[c][call[c].kind] + Delta(c)]
  BY DEF SaveAccount
<1>3. Delta(c) \in Int /\ row[c][call[c].kind] + Delta(c) \in Int
  BY <1>1 DEF Delta
<1>4. account' \in Balances
  BY <1>1, <1>2, <1>3 DEF Balances
<1>5. TypeOK'
  BY <1>4 DEF TypeOK, SaveAccount, InFlight, Stages
<1>6. NeverOverdrawn'
  <2> SUFFICES ASSUME "debit" \notin stale' PROVE Kept(account')
    BY DEF NeverOverdrawn, Kept
  <2>1. row[c][call[c].kind] >= 0 => row[c][call[c].kind] + Delta(c) >= 0
    <3>1. CASE call[c].op = "trade"
      BY <1>1, <3>1 DEF SaveAccount, Checked, CheckedRow, Delta, IsSpending
    <3>2. CASE call[c].op = "deposit"
      BY <1>1, <3>2 DEF Delta, IsSpending
    <3> QED
      BY <1>1, <3>1, <3>2
  <2>2. Kept(row[c])
    BY DEF SaveAccount, Checked, CheckedRow
  <2>3. CASE call[c].kind = "real"
    BY <1>1, <1>2, <2>1, <2>2, <2>3 DEF Kept, Kinds
  <2>4. CASE call[c].kind = "fake"
    BY <1>1, <1>2, <2>1, <2>2, <2>4 DEF Kept, Kinds
  <2> QED
    BY <1>1, <2>3, <2>4 DEF Kinds
<1>7. Checked(c)'
  BY DEF TypeOK, SaveAccount, Checked, CheckedInput, NotYetApplied, CheckedRow, Kept, InFlight
<1> QED
  BY <1>5, <1>6, <1>7, OthersUnapplied

(* The database takes a withdrawal from whatever balance there is; if it   *)
(* is the balance that was checked, that is enough.                        *)
LEMMA DebitKeeps ==
    ASSUME FundsInv, NEW c \in Calls, Debit(c)
    PROVE  FundsInv'
<1> USE DEF FundsInv, Goto
<1>1. /\ account \in [Kinds -> Int] /\ row[c] \in [Kinds -> Int]
      /\ call[c].kind \in Kinds /\ call[c].amount \in Int /\ call[c].op = "withdraw"
  BY DEF TypeOK, Balances, Debit, Checked, CheckedInput
<1>2. account' = [account EXCEPT ![call[c].kind] = account[call[c].kind] - call[c].amount]
  BY DEF Debit
<1>3. account' \in Balances
  BY <1>1, <1>2 DEF Balances
<1>4. TypeOK'
  BY <1>3 DEF TypeOK, Debit, InFlight, Stages
<1>5. NeverOverdrawn'
  <2> SUFFICES ASSUME "debit" \notin stale' PROVE Kept(account')
    BY DEF NeverOverdrawn, Kept
  <2>1. row[c] = account /\ Kept(account)
    BY DEF Debit, NeverOverdrawn, Kept
  <2>2. account[call[c].kind] >= call[c].amount
    BY <1>1, <2>1 DEF Debit, Checked, CheckedRow, IsSpending
  <2> QED
    BY <1>1, <1>2, <2>1, <2>2 DEF Kept, Kinds
<1>6. Checked(c)'
  BY <1>1 DEF TypeOK, Debit, Checked, CheckedInput, NotYetApplied, CheckedRow, Kept, InFlight
<1> QED
  BY <1>4, <1>5, <1>6, OthersUnapplied

(* The volume of a trade is added to the profile, the transaction is       *)
(* stored or refused, a statement fails: the account is left alone.        *)
LEMMA RestKeeps ==
    ASSUME FundsInv, NEW c \in Calls, SaveProfile(c) \/ CreateTxn(c) \/ Fail(c)
    PROVE  FundsInv'
<1> USE DEF FundsInv, Goto, tables, history
<1>1. TypeOK'
  <2>1. CASE SaveProfile(c)
    <3>1. /\ call[c].kind \in Kinds /\ call[c].amount \in Nat
          /\ profile[c] \in [Kinds -> Nat]
      BY <2>1 DEF TypeOK, SaveProfile, Checked, CheckedInput, InFlight
    <3>2. volume' \in [Kinds -> Nat]
      BY <2>1, <3>1 DEF SaveProfile
    <3> QED
      BY <2>1, <3>2 DEF TypeOK, SaveProfile, InFlight, Stages
  <2>2. CASE CreateTxn(c)
    BY <2>2 DEF TypeOK, CreateTxn, InFlight, Stages
  <2>3. CASE Fail(c)
    BY <2>3 DEF TypeOK, Fail, InFlight, Stages
  <2> QED
    BY <2>1, <2>2, <2>3
<1>2. UNCHANGED <<account, row, call, applied>> /\ stale \subseteq stale'
  BY DEF SaveProfile, CreateTxn, Fail
<1>3. ASSUME NEW d \in Calls PROVE Checked(d)'
  <2>1. CASE d = c /\ SaveProfile(c)
    BY <1>2, <2>1 DEF TypeOK, SaveProfile, Checked, CheckedInput, NotYetApplied, CheckedRow, Kept,
                      InFlight
  <2>2. CASE d = c /\ ~SaveProfile(c)
    <3>1. pc'[c] \in {"done", "error"}
      BY <2>2 DEF TypeOK, CreateTxn, Fail
    <3> QED
      BY <1>2, <2>2, <3>1 DEF Checked, CheckedInput, NotYetApplied, CheckedRow, Kept, InFlight
  <2>3. CASE d # c
    <3>1. pc'[d] = pc[d]
      BY <2>3 DEF TypeOK, SaveProfile, CreateTxn, Fail
    <3> QED
      BY <1>2, <3>1, OthersKept
  <2> QED
    BY <2>1, <2>2, <2>3
<1>4. NeverOverdrawn'
  BY <1>2 DEF NeverOverdrawn
<1> QED
  BY <1>1, <1>3, <1>4

(* The database adds a top-up to whatever fake balance there is.           *)
LEMMA IncrementKeeps ==
    ASSUME FundsInv, NEW c \in Calls, Increment(c)
    PROVE  FundsInv'
<1> USE DEF FundsInv, Goto
<1>1. call[c].amount \in Int /\ call[c].amount \in TopUpAmounts /\ account \in [Kinds -> Int]
  BY DEF TypeOK, Balances, Increment, Checked, CheckedInput, InFlight
<1>2. account' = [account EXCEPT !["fake"] = account["fake"] + call[c].amount]
  BY DEF Increment
<1>3. account' \in Balances
  BY <1>1, <1>2 DEF Balances, Kinds
<1>4. TypeOK'
  BY <1>3 DEF TypeOK, Increment, InFlight, Stages
<1>5. NeverOverdrawn'
  BY <1>1, <1>2 DEF NeverOverdrawn, Increment, Kinds
<1>6. Checked(c)'
  BY DEF TypeOK, Increment, Checked, CheckedInput, NotYetApplied, CheckedRow, Kept, InFlight
<1> QED
  BY <1>4, <1>5, <1>6, OthersUnapplied

(* The account opens without debts and nothing is in progress.             *)
LEMMA InitFundsInv == Init => FundsInv
<1> SUFFICES ASSUME Init PROVE FundsInv
  OBVIOUS
<1>1. Opening \in [Kinds -> Nat] /\ Zero \in [Kinds -> Nat]
  BY LedgerAssumption DEF LedgerAssumption, Zero
<1>2. Opening \in Balances /\ Zero \in Balances
  BY <1>1 DEF Balances
<1>3. [op |-> "deposit", amount |-> 0, kind |-> "fake"] \in [op : Ops, amount : Int, kind : Kinds]
  BY DEF Ops, Kinds
<1>4. TypeOK
  BY <1>1, <1>2, <1>3 DEF Init, TypeOK, Stages
<1>5. NeverOverdrawn /\ Kept(Zero)
  BY <1>1 DEF Init, NeverOverdrawn, Kept, Kinds, Zero
<1>6. ASSUME NEW c \in Calls PROVE Checked(c)
  BY <1>5 DEF Init, Checked, CheckedInput, NotYetApplied, CheckedRow, InFlight
<1> QED
  BY <1>4, <1>5, <1>6 DEF FundsInv

(* Every row that was read or written keeps the bounds.                    *)
THEOREM FundsInvariant == Spec => []FundsInv
<1>1. FundsInv /\ [Next]_vars => FundsInv'
  <2> SUFFICES ASSUME FundsInv, [Next]_vars PROVE FundsInv'
    OBVIOUS
  <2>1. CASE UNCHANGED vars
    BY <2>1 DEF vars, tables, locals, history, FundsInv, TypeOK, NeverOverdrawn, Checked,
                CheckedInput, NotYetApplied, CheckedRow, IsSpending, Kept
  <2> QED
    BY <2>1, SubmitKeeps, ReadKeeps, SaveKeeps, DebitKeeps, RestKeeps, IncrementKeeps
       DEF Next, Step
<1> QED
  BY InitFundsInv, <1>1, PTL DEF Spec

(* Balances, volumes, rows and calls keep their types; a volume never      *)
(* falls below zero.                                                       *)
THEOREM TypeCorrect == Spec => []TypeOK
<1>1. FundsInv => TypeOK
  BY DEF FundsInv
<1> QED
  BY FundsInvariant, <1>1, PTL

(* However calls race and fail, the real balance never falls below zero    *)
(* unless a withdrawal debits a row that changed since it was checked, nor *)
(* does the fake one unless a top-up is negative besides.                  *)
THEOREM FundsStayPositive == Spec => []NeverOverdrawn
<1>1. FundsInv => NeverOverdrawn
  BY DEF FundsInv
<1> QED
  BY FundsInvariant, <1>1, PTL
-----------------------------------------------------------------------------
(* A deposit, a trade or a withdrawal that finds the row as it read it is  *)
(* one step of the atomic account, and a top-up always is.                 *)
LEMMA EffectIsAtomic ==
    ASSUME FundsInv, NEW c \in Calls, SaveAccount(c) \/ Debit(c) \/ Increment(c), ~StaleEffect
    PROVE  Atomic!Next
<1> USE DEF FundsInv
<1>1. c \notin applied /\ applied' = applied \cup {c}
  BY DEF SaveAccount, Debit, Increment, Checked, NotYetApplied
<1>2. row[c] = account \/ call[c].op = "topup"
  BY <1>1 DEF StaleEffect
<1>3. account \in [Kinds -> Int] /\ call[c].kind \in Kinds /\ call[c].amount \in Int
  BY DEF TypeOK, Balances
<1>4. CASE SaveAccount(c)
  <2>1. /\ call[c].op \in {"deposit", "trade"} /\ call[c].amount \in Amounts
        /\ row[c] = account
    BY <1>2, <1>4 DEF SaveAccount, Checked, CheckedInput, InFlight
  <2>2. account' = [account EXCEPT ![call[c].kind] = @ + Delta(c)]
    BY <1>4, <2>1 DEF SaveAccount
  <2>3. CASE call[c].op = "deposit"
    <3>1. Atomic!Deposit(c)
      BY <1>1, <1>3, <2>1, <2>2, <2>3 DEF Atomic!Deposit, Atomic!Change, Delta, IsSpending, Kinds
    <3> QED
      BY <3>1 DEF Atomic!Next
  <2>4. CASE call[c].op = "trade"
    <3>1. account[call[c].kind] >= call[c].amount
      BY <1>4, <2>1, <2>4 DEF SaveAccount, Checked, CheckedRow, IsSpending
    <3>2. Atomic!Spend(c)
      BY <1>1, <1>3, <2>1, <2>2, <2>4, <3>1 DEF Atomic!Spend, Atomic!Change, Delta, IsSpending, Kinds
    <3> QED
      BY <3>2 DEF Atomic!Next
  <2> QED
    BY <2>1, <2>3, <2>4
<1>5. CASE Debit(c)
  <2>1. call[c].op = "withdraw" /\ call[c].amount \in Amounts /\ row[c] = account
    BY <1>2, <1>5 DEF Debit, Checked, CheckedInput, InFlight
  <2>2. account[call[c].kind] >= call[c].amount
    BY <1>5, <2>1 DEF Debit, Checked, CheckedRow, IsSpending
  <2>3. account' = [account EXCEPT ![call[c].kind] = @ + (-call[c].amount)]
    BY <1>3, <1>5 DEF Debit
  <2>4. Atomic!Spend(c)
    BY <1>1, <1>3, <2>1, <2>2, <2>3 DEF Atomic!Spend, Atomic!Change, Kinds
  <2> QED
    BY <2>4 DEF Atomic!Next
<1>6. CASE Increment(c)
  <2>1. call[c].amount \in TopUpAmounts
    BY <1>6 DEF Increment, Checked, CheckedInput, InFlight
  <2>2. Atomic!TopUp(c)
    BY <1>1, <1>6, <2>1 DEF Increment, Atomic!TopUp, Atomic!Change
  <2> QED
    BY <2>2 DEF Atomic!Next
<1> QED
  BY <1>4, <1>5, <1>6

(* The handlers implement the atomic account up to stale effects, for any  *)
(* calls, overlaps, refused rows and failures.                             *)
THEOREM ImplementsAtomicAccount == Spec => AtomicUnlessStale
<1>1. Init => Atomic!Init
  BY DEF Init, Atomic!Init
<1>2. FundsInv /\ [Next]_vars => [Atomic!Next \/ StaleEffect]_<<account, applied>>
  <2> SUFFICES ASSUME FundsInv, [Next]_vars
               PROVE  Atomic!Next \/ StaleEffect \/ UNCHANGED <<account, applied>>
    OBVIOUS
  <2>1. ASSUME NEW c \in Calls, SaveAccount(c) \/ Debit(c) \/ Increment(c)
        PROVE  Atomic!Next \/ StaleEffect
    BY <2>1, EffectIsAtomic
  <2>2. ASSUME NEW c \in Calls,
               \/ \E op \in Ops, amount \in Amounts \cup TopUpAmounts, kind \in Kinds :
                    Submit(c, op, amount, kind)
               \/ ReadProfile(c) \/ ReadAccount(c) \/ SaveProfile(c) \/ CreateTxn(c) \/ Fail(c)
        PROVE  UNCHANGED <<account, applied>>
    BY <2>2 DEF Submit, ReadProfile, ReadAccount, SaveProfile, CreateTxn, Fail, tables, history
  <2>3. UNCHANGED vars => UNCHANGED <<account, applied>>
    BY DEF vars, tables, history
  <2> QED
    BY <2>1, <2>2, <2>3 DEF Next, Step
<1> QED
  BY FundsInvariant, <1>1, <1>2, PTL DEF Spec, AtomicUnlessStale
-----------------------------------------------------------------------------
(* The books: how far a call is tells what it has changed.  With every     *)
(* statement done, its money is in the account once it is past the save,   *)
(* the debit or the increment, and its volume past the profile's save.     *)
Effect == {"volume", "create", "done", "error"}

Settled(c) ==
    /\ pc[c] = "volume" => call[c].op = "trade"
    /\ c \in journal <=> pc[c] = "done" /\ call[c].op # "topup"
    /\ c \in counted => pc[c] \in Effect \ {"volume"}
    /\ c \in applied => pc[c] \in Effect
    /\ faults = 0 =>
          /\ c \in applied <=> pc[c] \in Effect
          /\ c \in counted <=> call[c].op = "trade" /\ pc[c] \in Effect \ {"volume"}

(* What calls of a kind were to add to the account, and to the volume.     *)
Money(kind, calls) ==
    SumFunctionOnSet([c \in Calls |-> Delta(c)], {d \in calls : call[d].kind = kind})

Traded(kind, calls) ==
    SumFunctionOnSet([c \in Calls |-> call[c].amount], {d \in calls : call[d].kind = kind})

Finite == IsFiniteSet(applied) /\ IsFiniteSet(counted)

(* Account and profile against the calls that changed them.                *)
ExactInv ==
    \A kind \in Kinds :
        /\ "account" \notin stale => account[kind] = Opening[kind] + Money(kind, applied)
        /\ "profile" \notin stale => volume[kind] = Traded(kind, counted)

BooksInv == Finite /\ ExactInv /\ \A c \in Calls : Settled(c)

(* The totals of the properties are these sums.                            *)
LEMMA TotalsAreSums ==
    ASSUME TypeOK, NEW kind \in Kinds, NEW calls \in SUBSET Calls, IsFiniteSet(calls)
    PROVE  /\ Total(kind, calls, Delta) = Money(kind, calls)
           /\ Total(kind, calls, LAMBDA c : call[c].amount) = Traded(kind, calls)
<1> DEFINE D == {d \in calls : call[d].kind = kind}
           deltas == [c \in Calls |-> Delta(c)]
           amounts == [c \in Calls |-> call[c].amount]
           f == [c \in D |-> Delta(c)]
           g == [c \in D |-> call[c].amount]
<1>1. IsFiniteSet(D)
  BY FS_Subset
<1>2. \A c \in D : f[c] \in Int /\ f[c] = deltas[c]
  BY DEF TypeOK, Delta
<1>3. \A c \in D : g[c] \in Int /\ g[c] = amounts[c]
  BY DEF TypeOK
<1>4. SumFunctionOnSet(f, D) = SumFunctionOnSet(deltas, D)
  <2> HIDE DEF D, deltas, f
  <2> QED  BY <1>1, <1>2, SumSame
<1>5. SumFunctionOnSet(g, D) = SumFunctionOnSet(amounts, D)
  <2> HIDE DEF D, amounts, g
  <2> QED  BY <1>1, <1>3, SumSame
<1>6. Total(kind, calls, Delta) = SumFunctionOnSet(f, D)
  BY DEF Total, SumFunction
<1>7. Total(kind, calls, LAMBDA c : call[c].amount) = SumFunctionOnSet(g, D)
  BY DEF Total, SumFunction
<1> QED
  BY <1>4, <1>5, <1>6, <1>7 DEF Money, Traded

(* One more call adds its money and its amount to the sums of its kind.    *)
LEMMA SumsGrow ==
    ASSUME TypeOK, NEW kind \in Kinds, NEW calls \in SUBSET Calls, IsFiniteSet(calls),
           NEW c \in Calls, c \notin calls
    PROVE  /\ Money(kind, calls \cup {c})
                 = Money(kind, calls) + (IF call[c].kind = kind THEN Delta(c) ELSE 0)
           /\ Traded(kind, calls \cup {c})
                 = Traded(kind, calls) + (IF call[c].kind = kind THEN call[c].amount ELSE 0)
           /\ Money(kind, calls) \in Int /\ Traded(kind, calls) \in Int
<1> DEFINE D == {d \in calls : call[d].kind = kind}
           E == {d \in calls \cup {c} : call[d].kind = kind}
           deltas == [d \in Calls |-> Delta(d)]
           amounts == [d \in Calls |-> call[d].amount]
<1>1. IsFiniteSet(D) /\ D \subseteq Calls /\ c \notin D
  BY FS_Subset
<1>2. \A d \in Calls : deltas[d] \in Int /\ amounts[d] \in Int
  BY DEF TypeOK, Delta
<1>3. /\ call[c].kind = kind => E = D \cup {c}
      /\ call[c].kind # kind => E = D
  OBVIOUS
<1>4. /\ SumFunctionOnSet(deltas, D \cup {c}) = SumFunctionOnSet(deltas, D) + deltas[c]
      /\ SumFunctionOnSet(amounts, D \cup {c}) = SumFunctionOnSet(amounts, D) + amounts[c]
      /\ SumFunctionOnSet(deltas, D) \in Int /\ SumFunctionOnSet(amounts, D) \in Int
  <2>1. /\ \A d \in D : deltas[d] \in Int
        /\ \A d \in D : amounts[d] \in Int
        /\ deltas[c] \in Int
        /\ amounts[c] \in Int
    BY <1>1, <1>2
  <2> HIDE DEF D, deltas, amounts
  <2> QED  BY <1>1, <2>1, SumAdd
<1>5. deltas[c] = Delta(c) /\ amounts[c] = call[c].amount
  OBVIOUS
<1>6. /\ Money(kind, calls) = SumFunctionOnSet(deltas, D)
      /\ Traded(kind, calls) = SumFunctionOnSet(amounts, D)
      /\ Money(kind, calls \cup {c}) = SumFunctionOnSet(deltas, E)
      /\ Traded(kind, calls \cup {c}) = SumFunctionOnSet(amounts, E)
  BY DEF Money, Traded
<1> HIDE DEF D, E, deltas, amounts
<1>7. CASE call[c].kind = kind
  BY <1>3, <1>4, <1>5, <1>6, <1>7
<1>8. CASE call[c].kind # kind
  BY <1>3, <1>4, <1>6, <1>8
<1> QED
  BY <1>7, <1>8

(* A new call leaves the sums over the calls in progress alone.            *)
LEMMA SumsStay ==
    ASSUME TypeOK, NEW kind \in Kinds, NEW calls \in SUBSET Calls, IsFiniteSet(calls),
           \A d \in calls : call'[d] = call[d]
    PROVE  Money(kind, calls)' = Money(kind, calls) /\ Traded(kind, calls)' = Traded(kind, calls)
<1> DEFINE D == {d \in calls : call[d].kind = kind}
           deltas == [c \in Calls |-> Delta(c)]
           amounts == [c \in Calls |-> call[c].amount]
<1>1. PICK E, del, am : E = D /\ del = deltas /\ am = amounts
  OBVIOUS
<1>2. PICK del2, am2 : del2 = deltas' /\ am2 = amounts'
  OBVIOUS
<1>3. IsFiniteSet(E) /\ D' = E
  BY <1>1, FS_Subset
<1>4. \A c \in E : del2[c] \in Int /\ del2[c] = del[c]
  BY <1>1, <1>2 DEF TypeOK, Delta, IsSpending
<1>5. \A c \in E : am2[c] \in Int /\ am2[c] = am[c]
  BY <1>1, <1>2 DEF TypeOK
<1>6. SumFunctionOnSet(del2, E) = SumFunctionOnSet(del, E)
  BY <1>3, <1>4, SumSame
<1>7. SumFunctionOnSet(am2, E) = SumFunctionOnSet(am, E)
  BY <1>3, <1>5, SumSame
<1>8. /\ Money(kind, calls) = SumFunctionOnSet(del, E)
      /\ Traded(kind, calls) = SumFunctionOnSet(am, E)
  BY <1>1 DEF Money, Traded
<1>9. /\ Money(kind, calls)' = SumFunctionOnSet(del2, E)
      /\ Traded(kind, calls)' = SumFunctionOnSet(am2, E)
  BY <1>2, <1>3 DEF Money, Traded
<1> QED
  BY <1>6, <1>7, <1>8, <1>9

(* What a step leaves of the books when it changes neither of the two      *)
(* tables, nor a call that has changed them.                               *)
LEMMA ExactKept ==
    ASSUME TypeOK, Finite, ExactInv, UNCHANGED <<account, volume, applied, counted, stale>>,
           \A d \in applied \cup counted : call'[d] = call[d]
    PROVE  Finite' /\ ExactInv'
<1>1. PICK A, C : A = applied /\ C = counted
  OBVIOUS
<1>2. Finite' /\ A \in SUBSET Calls /\ C \in SUBSET Calls /\ IsFiniteSet(A) /\ IsFiniteSet(C)
  BY <1>1 DEF Finite, TypeOK
<1>3. ASSUME NEW kind \in Kinds
      PROVE  /\ Money(kind, applied)' = Money(kind, applied)
             /\ Traded(kind, counted)' = Traded(kind, counted)
  <2>1. Money(kind, A)' = Money(kind, A)
    BY <1>1, <1>2, SumsStay
  <2>2. Traded(kind, C)' = Traded(kind, C)
    BY <1>1, <1>2, SumsStay
  <2>3. Money(kind, applied)' = Money(kind, A)' /\ Traded(kind, counted)' = Traded(kind, C)'
    BY <1>1
  <2> QED
    BY <1>1, <2>1, <2>2, <2>3
<1> QED
  BY <1>2, <1>3 DEF ExactInv

(* The save, the debit and the increment add the money of the call to the  *)
(* account, unless a stale row was saved.                                  *)
LEMMA AccountStaysExact ==
    ASSUME FundsInv, Finite, ExactInv, NEW c \in Calls, SaveAccount(c) \/ Debit(c) \/ Increment(c)
    PROVE  Finite' /\ ExactInv'
<1> USE DEF FundsInv
<1>1. PICK A, C : A = applied /\ C = counted
  OBVIOUS
<1>2. /\ c \notin A /\ applied' = A \cup {c} /\ counted' = C
      /\ call' = call /\ volume' = volume
      /\ A \in SUBSET Calls /\ C \in SUBSET Calls /\ IsFiniteSet(A) /\ IsFiniteSet(C)
  BY <1>1 DEF SaveAccount, Debit, Increment, Checked, NotYetApplied, TypeOK, Finite
<1>3. Finite'
  BY <1>2, FS_AddElement DEF Finite
<1>4. "profile" \in stale' => "profile" \in stale
  BY DEF SaveAccount, Debit, Increment
<1>4a. "profile" \in stale => "profile" \in stale'
  BY DEF SaveAccount, Debit, Increment
<1>5. /\ call[c].kind \in Kinds /\ call[c].amount \in Int /\ Delta(c) \in Int
      /\ account \in [Kinds -> Int] /\ row[c] \in [Kinds -> Int] /\ Opening \in [Kinds -> Int]
  BY LedgerAssumption DEF LedgerAssumption, TypeOK, Balances, Delta
<1>6. "account" \notin stale' =>
        /\ "account" \notin stale
        /\ account' = [account EXCEPT ![call[c].kind] = @ + Delta(c)]
  <2>1. CASE SaveAccount(c)
    BY <2>1 DEF SaveAccount
  <2>2. CASE Debit(c)
    <3>1. call[c].op = "withdraw" /\ Delta(c) = -call[c].amount
      BY <2>2 DEF Debit, Checked, CheckedInput, Delta, IsSpending
    <3>2. account[call[c].kind] - call[c].amount = account[call[c].kind] + Delta(c)
      BY <1>5, <3>1
    <3> QED
      BY <2>2, <3>2 DEF Debit
  <2>3. CASE Increment(c)
    <3>1. call[c].op = "topup" /\ call[c].kind = "fake" /\ Delta(c) = call[c].amount
      BY <2>3 DEF Increment, Checked, CheckedInput, InFlight, Delta, IsSpending
    <3> QED
      BY <2>3, <3>1 DEF Increment
  <2> QED
    BY <2>1, <2>2, <2>3
<1>7. ASSUME NEW kind \in Kinds
      PROVE  /\ Money(kind, applied)'
                   = Money(kind, A) + (IF call[c].kind = kind THEN Delta(c) ELSE 0)
             /\ Traded(kind, counted)' = Traded(kind, C)
             /\ Money(kind, A) \in Int
  <2>1. PICK B : B = A \cup {c}
    OBVIOUS
  <2>2. Money(kind, applied)' = Money(kind, B)'
    BY <1>2, <2>1
  <2>3. Money(kind, B)' = Money(kind, B)
    BY <1>2 DEF Money, Delta, IsSpending
  <2>4. Traded(kind, counted)' = Traded(kind, C)
    BY <1>2 DEF Traded
  <2>5. /\ Money(kind, B) = Money(kind, A) + (IF call[c].kind = kind THEN Delta(c) ELSE 0)
        /\ Money(kind, A) \in Int
    BY <1>2, <2>1, SumsGrow
  <2> QED
    BY <2>2, <2>3, <2>4, <2>5
<1>8. ASSUME NEW kind \in Kinds, "account" \notin stale'
      PROVE  account'[kind] = Opening[kind] + Money(kind, applied)'
  <2>1. account[kind] = Opening[kind] + Money(kind, A)
    BY <1>1, <1>6, <1>8 DEF ExactInv
  <2>2. account'[kind] = account[kind] + (IF call[c].kind = kind THEN Delta(c) ELSE 0)
    BY <1>5, <1>6, <1>8
  <2>3. Opening[kind] \in Int /\ Money(kind, A) \in Int /\ Delta(c) \in Int
    BY <1>5, <1>7
  <2> QED
    BY <1>7, <2>1, <2>2, <2>3
<1>9. ASSUME NEW kind \in Kinds, "profile" \notin stale'
      PROVE  volume'[kind] = Traded(kind, counted)'
  BY <1>1, <1>2, <1>4a, <1>7, <1>9 DEF ExactInv
<1> QED
  BY <1>3, <1>8, <1>9 DEF ExactInv

(* The save of the profile adds the amount of the trade to the volume.     *)
LEMMA ProfileStaysExact ==
    ASSUME FundsInv, BooksInv, NEW c \in Calls, SaveProfile(c)
    PROVE  Finite' /\ ExactInv'
<1> USE DEF FundsInv, BooksInv
<1>1. PICK A, C : A = applied /\ C = counted
  OBVIOUS
<1>2. /\ c \notin C /\ applied' = A /\ counted' = C \cup {c}
      /\ call' = call /\ account' = account
      /\ A \in SUBSET Calls /\ C \in SUBSET Calls /\ IsFiniteSet(A) /\ IsFiniteSet(C)
  BY <1>1 DEF SaveProfile, Settled, TypeOK, Finite
<1>3. Finite'
  BY <1>2, FS_AddElement DEF Finite
<1>4. "account" \in stale => "account" \in stale'
  BY DEF SaveProfile
<1>5. /\ call[c].kind \in Kinds /\ call[c].amount \in Int /\ volume \in [Kinds -> Int]
  BY DEF TypeOK
<1>6. "profile" \notin stale' =>
        /\ "profile" \notin stale
        /\ volume' = [volume EXCEPT ![call[c].kind] = @ + call[c].amount]
  BY DEF SaveProfile
<1>7. ASSUME NEW kind \in Kinds
      PROVE  /\ Traded(kind, counted)'
                   = Traded(kind, C) + (IF call[c].kind = kind THEN call[c].amount ELSE 0)
             /\ Money(kind, applied)' = Money(kind, A)
             /\ Traded(kind, C) \in Int
  <2>1. PICK B : B = C \cup {c}
    OBVIOUS
  <2>2. Traded(kind, counted)' = Traded(kind, B)'
    BY <1>2, <2>1
  <2>3. Traded(kind, B)' = Traded(kind, B)
    BY <1>2 DEF Traded
  <2>4. Money(kind, applied)' = Money(kind, A)
    BY <1>2 DEF Money, Delta, IsSpending
  <2>5. /\ Traded(kind, B) = Traded(kind, C) + (IF call[c].kind = kind THEN call[c].amount ELSE 0)
        /\ Traded(kind, C) \in Int
    BY <1>2, <2>1, SumsGrow
  <2> QED
    BY <2>2, <2>3, <2>4, <2>5
<1>8. ASSUME NEW kind \in Kinds, "profile" \notin stale'
      PROVE  volume'[kind] = Traded(kind, counted)'
  <2>1. volume[kind] = Traded(kind, C)
    BY <1>1, <1>6, <1>8 DEF ExactInv
  <2>2. volume'[kind] = volume[kind] + (IF call[c].kind = kind THEN call[c].amount ELSE 0)
    BY <1>5, <1>6, <1>8
  <2> QED
    BY <1>5, <1>7, <2>1, <2>2
<1>9. ASSUME NEW kind \in Kinds, "account" \notin stale'
      PROVE  account'[kind] = Opening[kind] + Money(kind, applied)'
  BY <1>1, <1>2, <1>4, <1>7, <1>9 DEF ExactInv
<1> QED
  BY <1>3, <1>8, <1>9 DEF ExactInv

(* The stage of a call and what it has changed move together.              *)
LEMMA StepSettles ==
    ASSUME FundsInv, \A d \in Calls : Settled(d), NEW c \in Calls,
           \/ \E op \in Ops, amount \in Amounts \cup TopUpAmounts, kind \in Kinds :
                Submit(c, op, amount, kind)
           \/ Step(c) \/ Fail(c),
           NEW d \in Calls
    PROVE  Settled(d)'
<1> USE DEF FundsInv, Goto, tables, history
<1>0. faults \in Nat /\ pc \in [Calls -> Stages] /\ call[c].op \in Ops
  BY DEF TypeOK
<1>1. CASE d # c
  <2>1. pc'[d] = pc[d] /\ call'[d] = call[d]
    BY <1>1 DEF TypeOK, Submit, Step, ReadProfile, ReadAccount, SaveAccount, SaveProfile,
                CreateTxn, Increment, Debit, Fail
  <2>2. /\ d \in journal' <=> d \in journal
        /\ d \in applied' <=> d \in applied
        /\ d \in counted' <=> d \in counted
    BY <1>1 DEF Submit, Step, ReadProfile, ReadAccount, SaveAccount, SaveProfile,
                CreateTxn, Increment, Debit, Fail
  <2>3. faults' = faults \/ faults' # 0
    BY <1>0 DEF Submit, Step, ReadProfile, ReadAccount, SaveAccount, SaveProfile,
                CreateTxn, Increment, Debit, Fail
  <2>4. faults' = 0 => faults = 0
    BY <1>0, <2>3 DEF Submit, Step, ReadProfile, ReadAccount, SaveAccount, SaveProfile,
                CreateTxn, Increment, Debit, Fail
  <2> QED
    BY <2>1, <2>2, <2>4 DEF Settled
<1>2. CASE d = c
  <2> USE <1>2
  <2>1. ASSUME NEW op \in Ops, NEW amount \in Amounts \cup TopUpAmounts, NEW kind \in Kinds,
               Submit(c, op, amount, kind)
        PROVE  Settled(c)'
    <3>1. /\ pc[c] = "idle" /\ pc'[c] \in {"rejected", "profile", "account"}
          /\ UNCHANGED <<journal, applied, counted, faults>>
      BY <2>1 DEF TypeOK, Submit
    <3> QED
      BY <3>1 DEF Settled, Effect
  <2>2. CASE ReadProfile(c) \/ ReadAccount(c)
    <3>1. /\ pc[c] \in {"profile", "account"}
          /\ pc'[c] \in {"account", "rejected", "save", "debit", "increment"}
          /\ UNCHANGED <<journal, applied, counted, faults>>
      BY <1>0, <2>2 DEF TypeOK, ReadProfile, ReadAccount, NextStage, Ops
    <3> QED
      BY <3>1 DEF Settled, Effect
  <2>3. CASE SaveAccount(c)
    <3>1. /\ pc[c] = "save" /\ pc'[c] = (IF call[c].op = "trade" THEN "volume" ELSE "create")
          /\ applied' = applied \cup {c}
          /\ UNCHANGED <<journal, counted, faults, call>>
      BY <2>3 DEF TypeOK, SaveAccount
    <3> QED
      BY <3>1 DEF Settled, Effect
  <2>4. CASE Debit(c)
    <3>1. /\ pc[c] = "debit" /\ pc'[c] = "create" /\ call[c].op = "withdraw"
          /\ applied' = applied \cup {c}
          /\ UNCHANGED <<journal, counted, faults, call>>
      BY <2>4 DEF TypeOK, Debit, Checked, CheckedInput
    <3> QED
      BY <3>1 DEF Settled, Effect
  <2>5. CASE Increment(c)
    <3>1. /\ pc[c] = "increment" /\ pc'[c] = "done" /\ call[c].op = "topup"
          /\ applied' = applied \cup {c}
          /\ UNCHANGED <<journal, counted, faults, call>>
      BY <2>5 DEF TypeOK, Increment, Checked, CheckedInput, InFlight
    <3> QED
      BY <3>1 DEF Settled, Effect
  <2>6. CASE SaveProfile(c)
    <3>1. /\ pc[c] = "volume" /\ pc'[c] = "create"
          /\ counted' = counted \cup {c}
          /\ UNCHANGED <<journal, applied, faults, call>>
      BY <2>6 DEF TypeOK, SaveProfile
    <3> QED
      BY <3>1 DEF Settled, Effect
  <2>7. CASE CreateTxn(c)
    <3>1. /\ pc[c] = "create" /\ call[c].op # "topup"
          /\ \/ pc'[c] = "done" /\ journal' = journal \cup {c}
             \/ pc'[c] = "error" /\ journal' = journal
          /\ UNCHANGED <<applied, counted, faults, call>>
      BY <2>7 DEF TypeOK, CreateTxn, Checked, CheckedInput, InFlight
    <3> QED
      BY <3>1 DEF Settled, Effect
  <2>8. CASE Fail(c)
    <3>1. /\ pc[c] \in InFlight /\ faults' # 0 /\ UNCHANGED <<journal, applied, counted, call>>
          /\ pc[c] = "increment" => call[c].op = "topup"
          /\ pc'[c] = (IF pc[c] = "increment" THEN "done" ELSE "error")
      BY <1>0, <2>8 DEF TypeOK, Fail, Checked, CheckedInput, InFlight
    <3> QED
      BY <3>1 DEF Settled, Effect, InFlight
  <2> QED
    BY <2>1, <2>2, <2>3, <2>4, <2>5, <2>6, <2>7, <2>8 DEF Step
<1> QED
  BY <1>1, <1>2

(* Nothing has been changed when the handlers start.                       *)
LEMMA InitBooksInv == Init => BooksInv
<1> SUFFICES ASSUME Init PROVE BooksInv
  OBVIOUS
<1>1. Finite
  BY FS_EmptySet DEF Init, Finite
<1>2. ASSUME NEW kind \in Kinds
      PROVE  Money(kind, applied) = 0 /\ Traded(kind, counted) = 0
  <2>1. {d \in applied : call[d].kind = kind} = {} /\ {d \in counted : call[d].kind = kind} = {}
    BY DEF Init
  <2> QED
    BY <2>1, SumEmpty DEF Money, Traded
<1>3. ExactInv
  BY <1>2, LedgerAssumption DEF LedgerAssumption, Init, ExactInv, Zero
<1>4. \A c \in Calls : Settled(c)
  BY DEF Init, Settled, Effect
<1> QED
  BY <1>1, <1>3, <1>4 DEF BooksInv

(* The books are kept by every step, whatever races and fails.             *)
THEOREM BooksInvariant == Spec => []BooksInv
<1>1. FundsInv /\ BooksInv /\ [Next]_vars => BooksInv'
  <2> SUFFICES ASSUME FundsInv, BooksInv, [Next]_vars PROVE BooksInv'
    OBVIOUS
  <2> USE DEF FundsInv, BooksInv
  <2>1. CASE UNCHANGED vars
    <3>1. Finite' /\ ExactInv'
      BY <2>1, ExactKept DEF vars, tables, history, locals
    <3>2. \A c \in Calls : Settled(c)'
      BY <2>1 DEF vars, tables, history, locals, Settled
    <3> QED
      BY <3>1, <3>2
  <2>2. ASSUME NEW c \in Calls,
               \/ \E op \in Ops, amount \in Amounts \cup TopUpAmounts, kind \in Kinds :
                    Submit(c, op, amount, kind)
               \/ Step(c) \/ Fail(c)
        PROVE  BooksInv'
    <3>1. \A d \in Calls : Settled(d)'
      BY <2>2, StepSettles
    <3>2. CASE SaveAccount(c) \/ Debit(c) \/ Increment(c)
      BY <3>1, <3>2, AccountStaysExact
    <3>3. CASE SaveProfile(c)
      BY <3>1, <3>3, ProfileStaysExact
    <3>4. CASE ReadProfile(c) \/ ReadAccount(c) \/ CreateTxn(c) \/ Fail(c)
      <4>1. UNCHANGED <<account, volume, applied, counted, stale, call>>
        BY <3>4 DEF ReadProfile, ReadAccount, CreateTxn, Fail, tables, history
      <4> QED
        BY <3>1, <4>1, ExactKept
    <3>5. ASSUME NEW op \in Ops, NEW amount \in Amounts \cup TopUpAmounts, NEW kind \in Kinds,
                 Submit(c, op, amount, kind)
          PROVE  BooksInv'
      <4>1. c \notin applied /\ c \notin counted
        BY <3>5 DEF Submit, Settled, Effect
      <4>2. /\ UNCHANGED <<account, volume, applied, counted, stale>>
            /\ \A d \in applied \cup counted : call'[d] = call[d]
        BY <3>5, <4>1 DEF Submit, TypeOK, tables, history
      <4> QED
        BY <3>1, <4>2, ExactKept
    <3> QED
      BY <2>2, <3>2, <3>3, <3>4, <3>5 DEF Step
  <2> QED
    BY <2>1, <2>2 DEF Next
<1> QED
  BY FundsInvariant, InitBooksInv, <1>1, PTL DEF Spec

(* For any calls that overlap, are refused or fail, the balances are the   *)
(* opening plus what the calls were to add and the volumes are the trades, *)
(* as long as no row was saved over a change.                              *)
THEOREM ExactBalances == Spec => []ExactUnlessStale
<1>1. FundsInv /\ BooksInv => ExactUnlessStale
  <2> SUFFICES ASSUME FundsInv, BooksInv, NEW kind \in Kinds
               PROVE  /\ "account" \notin stale =>
                            account[kind] = Opening[kind] + Total(kind, applied, Delta)
                      /\ "profile" \notin stale =>
                            volume[kind] = Total(kind, counted, LAMBDA c : call[c].amount)
    BY DEF ExactUnlessStale
  <2>1. /\ Total(kind, applied, Delta) = Money(kind, applied)
        /\ Total(kind, counted, LAMBDA c : call[c].amount) = Traded(kind, counted)
    BY TotalsAreSums DEF FundsInv, BooksInv, Finite, TypeOK
  <2> QED
    BY <2>1 DEF BooksInv, ExactInv
<1> QED
  BY FundsInvariant, BooksInvariant, <1>1, PTL

(* Between calls, with no statement failed and no row saved over a change, *)
(* account, journal and profile agree, for any calls.                      *)
THEOREM TablesStayInStep == Spec => []TablesAgree
<1>1. FundsInv /\ BooksInv => TablesAgree
  <2> SUFFICES ASSUME FundsInv, BooksInv PROVE TablesAgree
    OBVIOUS
  <2> DEFINE ended(stage) == {c \in Calls : pc[c] = stage}
             topups == {c \in ended("done") : call[c].op = "topup"}
             booked == journal \cup topups \cup ended("error")
             trades == {c \in booked : call[c].op = "trade"}
  <2>1. SUFFICES ASSUME ended("idle") \cup ended("done") \cup ended("rejected") \cup ended("error")
                          = Calls,
                        faults = 0, stale \subseteq {"debit"}, NEW kind \in Kinds
                 PROVE  /\ account[kind] = Opening[kind] + Total(kind, booked, Delta)
                        /\ volume[kind] = Total(kind, trades, LAMBDA c : call[c].amount)
    BY DEF TablesAgree
  <2>2. applied \subseteq Calls /\ counted \subseteq Calls /\ journal \subseteq Calls
    BY DEF FundsInv, TypeOK
  <2>3. ASSUME NEW c \in Calls
        PROVE  /\ c \in booked <=> c \in applied
               /\ c \in trades <=> c \in counted
    <3>1. pc[c] \in {"idle", "done", "rejected", "error"}
      BY <2>1
    <3>2. /\ c \in journal <=> pc[c] = "done" /\ call[c].op # "topup"
          /\ c \in applied <=> pc[c] \in Effect
          /\ c \in counted <=> call[c].op = "trade" /\ pc[c] \in Effect \ {"volume"}
      BY <2>1 DEF BooksInv, Settled
    <3> QED
      BY <3>1, <3>2 DEF Effect
  <2>4. booked = applied /\ trades = counted
    BY <2>2, <2>3
  <2>5. /\ account[kind] = Opening[kind] + Money(kind, applied)
        /\ volume[kind] = Traded(kind, counted)
    BY <2>1 DEF BooksInv, ExactInv
  <2>6. /\ Total(kind, applied, Delta) = Money(kind, applied)
        /\ Total(kind, counted, LAMBDA c : call[c].amount) = Traded(kind, counted)
    BY TotalsAreSums DEF FundsInv, BooksInv, Finite, TypeOK
  <2> HIDE DEF booked, trades
  <2> QED
    BY <2>4, <2>5, <2>6
<1> QED
  BY FundsInvariant, BooksInvariant, <1>1, PTL
=============================================================================
