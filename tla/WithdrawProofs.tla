--------------------------- MODULE WithdrawProofs ---------------------------
(***************************************************************************)
(* What TLAPS proves of Withdraw, for every set of accounts, requests and  *)
(* subscriptions, every opening balance and every amount a client sends:   *)
(* its type invariant, that no withdrawal gets past BeforeCreate, that the *)
(* legs of a request stay within its amount, and that only overlapping     *)
(* requests overdraw an account.                                           *)
(***************************************************************************)
EXTENDS Withdraw, Sums

(* The smaller of two numbers is one of them.                              *)
LEMMA MinOfTwo ==
    ASSUME NEW m \in Nat, NEW n \in Nat
    PROVE  Min({m, n}) \in Nat
<1>1. \E x \in {m, n} : \A y \in {m, n} : x <= y
  <2>1. CASE m <= n
    BY <2>1
  <2>2. CASE n <= m
    BY <2>2
  <2> QED  BY <2>1, <2>2
<1>2. Min({m, n}) \in {m, n}
  BY <1>1 DEF Min
<1> QED
  BY <1>2

(* A leg is an amount of cents, also of an overdrawn account.              *)
LEMMA LegType ==
    ASSUME NEW amount, NEW part \in Int, NEW pot, NEW short
    PROVE  Leg(amount, part, pot, short) \in Nat
  BY LegAmountType, MinOfTwo DEF Leg

(* Every statement of SmartWithdraw, every message and every panic keeps   *)
(* the types.                                                              *)
LEMMA NextTypeOK == TypeOK /\ [Next]_vars => TypeOK'
<1> SUFFICES ASSUME TypeOK, [Next]_vars PROVE TypeOK'
  OBVIOUS
<1> USE DEF Goto, InFlight, tables, locals, history
<1>1. ASSUME NEW r \in Requests, NEW amount \in Amounts, NEW kind \in Kinds,
             Submit(r, amount, kind)
      PROVE  TypeOK'
  <2>1. amount \in Nat
    BY <1>1, WithdrawAssumption DEF WithdrawAssumption, Submit, IsPositive
  <2>2. \A a \in Accounts : balance[a][kind] \in Int
    BY DEF TypeOK
  <2>3. plan' \in [Requests -> [Accounts -> Nat]]
    <3> DEFINE pot == SumFunction([a \in Accounts |-> balance[a][kind]])
    <3>1. PICK short \in SUBSET Accounts :
            plan' = [plan EXCEPT ![r] = [a \in Accounts |->
                       Leg(amount, balance[a][kind], pot, a \in short)]]
      BY <1>1 DEF Submit
    <3> HIDE DEF pot
    <3>2. [a \in Accounts |-> Leg(amount, balance[a][kind], pot, a \in short)]
            \in [Accounts -> Nat]
      BY <2>2, LegType
    <3> QED
      BY <3>1, <3>2 DEF TypeOK
  <2>4. ask' \in [Requests -> [amount : Nat, kind : Kinds]]
    BY <1>1, <2>1 DEF TypeOK, Submit
  <2> QED
    BY <1>1, <2>3, <2>4 DEF TypeOK, Submit
<1>2. ASSUME NEW r \in Requests, Reject(r) PROVE TypeOK'
  BY <1>2 DEF TypeOK, Reject
<1>3. ASSUME NEW r \in Requests, NEW a \in Accounts, Debit(r, a) PROVE TypeOK'
  <2>1. ask[r].kind \in Kinds /\ plan[r][a] \in Nat
    BY DEF TypeOK
  <2>2. balance' \in [Accounts -> [Kinds -> Int]]
    BY <1>3, <2>1 DEF TypeOK, Debit
  <2>3. debited' \in [Txns -> Nat]
    BY <1>3, <2>1 DEF TypeOK, Debit
  <2> QED
    BY <1>3, <2>2, <2>3 DEF TypeOK, Debit
<1>4. ASSUME NEW r \in Requests, CreateTxn(r) PROVE TypeOK'
  <2>1. PICK a \in leg[r] :
          IF CanInsert(StoredRows, NewRow(r, a))
          THEN /\ journal' = journal \cup {<<r, a>>}
               /\ legs' = [legs EXCEPT ![r] = legs[r] \cup {<<r, a>>}]
               /\ plan' = [plan EXCEPT ![r] = [plan[r] EXCEPT ![a] = 0]]
               /\ pc' = [pc EXCEPT ![r] = "debit"]
          ELSE pc' = [pc EXCEPT ![r] = "error"] /\ UNCHANGED <<journal, legs, plan>>
    BY <1>4 DEF CreateTxn
  <2>2. a \in Accounts /\ <<r, a>> \in Txns
    BY DEF TypeOK, Txns
  <2>3. CASE CanInsert(StoredRows, NewRow(r, a))
    <3>1. journal' \subseteq Txns
      BY <2>1, <2>2, <2>3 DEF TypeOK
    <3>2. legs' \in [Requests -> SUBSET Txns]
      <4>1. legs[r] \cup {<<r, a>>} \in SUBSET Txns
        BY <2>2 DEF TypeOK
      <4> QED
        BY <2>1, <2>3, <4>1 DEF TypeOK
    <3>3. plan' \in [Requests -> [Accounts -> Nat]]
      <4>1. [plan[r] EXCEPT ![a] = 0] \in [Accounts -> Nat]
        BY DEF TypeOK
      <4> QED
        BY <2>1, <2>3, <4>1 DEF TypeOK
    <3> QED
      BY <1>4, <2>1, <2>3, <3>1, <3>2, <3>3 DEF TypeOK, CreateTxn
  <2>4. CASE ~CanInsert(StoredRows, NewRow(r, a))
    BY <1>4, <2>1, <2>4 DEF TypeOK, CreateTxn
  <2> QED
    BY <2>3, <2>4
<1>5. ASSUME NEW r \in Requests, Publish(r) PROVE TypeOK'
  <2>1. inbox' \in [Engines -> Seq(SUBSET Txns)] /\ sent' \subseteq Txns
    BY <1>5 DEF TypeOK, Publish
  <2>2. faults' \in Nat
    BY <1>5 DEF TypeOK, Publish, Executed
  <2> QED
    BY <1>5, <2>1, <2>2 DEF TypeOK, Publish
<1>6. ASSUME NEW r \in Requests, FailRequest(r) PROVE TypeOK'
  BY <1>6 DEF TypeOK, FailRequest, Executed
<1>7. ASSUME NEW e \in Engines, Take(e) PROVE TypeOK'
  <2>1. tested' \in BOOLEAN
    BY <1>7, Zenon DEF Take
  <2>2. inbox' \in [Engines -> Seq(SUBSET Txns)]
    BY <1>7 DEF Take
  <2> QED
    BY <1>7, <2>1, <2>2 DEF TypeOK, Take
<1>8. CASE TestWithdrawal
  BY <1>8 DEF TypeOK, TestWithdrawal
<1>9. CASE UNCHANGED vars
  BY <1>9 DEF TypeOK, vars
<1> QED
  BY <1>1, <1>2, <1>3, <1>4, <1>5, <1>6, <1>7, <1>8, <1>9 DEF Next

(* The accounts and the requests start out well typed.                     *)
LEMMA InitTypeOK == Init => TypeOK
<1> SUFFICES ASSUME Init PROVE TypeOK
  OBVIOUS
<1>1. balance \in [Accounts -> [Kinds -> Int]] /\ journal \subseteq Txns
  <2>1. \A a \in Accounts : Opening[a] \in [Kinds -> Int]
    BY WithdrawAssumption DEF WithdrawAssumption
  <2> QED
    BY <2>1, WithdrawAssumption DEF WithdrawAssumption, Init
<1>2. ask \in [Requests -> [amount : Nat, kind : Kinds]]
  BY DEF Init, Kinds
<1>3. /\ pc \in [Requests -> InFlight \cup {"idle", "accepted", "rejected", "error", "lost"}]
      /\ plan \in [Requests -> [Accounts -> Nat]]
      /\ leg \in [Requests -> SUBSET Accounts] /\ legs \in [Requests -> SUBSET Txns]
  BY DEF Init
<1>4. inbox \in [Engines -> Seq(SUBSET Txns)]
  BY DEF Init
<1>5. tested \in BOOLEAN
  BY Zenon DEF Init
<1>6. sent \subseteq Txns /\ faults \in Nat
  BY DEF Init
<1>7. debited \in [Txns -> Nat]
  BY DEF Init
<1> QED
  BY <1>1, <1>2, <1>3, <1>4, <1>5, <1>6, <1>7 DEF TypeOK

(* Balances, plans, messages and rows stay what the structs declare.       *)
THEOREM TypeCorrect == Spec => []TypeOK
<1>1. TypeOK /\ [Next]_vars => TypeOK'
  BY NextTypeOK
<1> QED
  BY InitTypeOK, <1>1, PTL DEF Spec

(* The hook refuses the row of every leg: its amount has a minus sign.     *)
LEMMA RowIsRefused ==
    ASSUME TypeOK, NEW r \in Requests, NEW a \in Accounts
    PROVE  ~CanInsert(StoredRows, NewRow(r, a))
<1>1. plan[r][a] \in Nat
  BY DEF TypeOK
<1>2. NewRow(r, a).amount = -plan[r][a]
  BY DEF NewRow
<1> QED
  BY <1>1, <1>2 DEF CanInsert, HookAccepts

Stages == InFlight \cup {"idle", "accepted", "rejected", "error", "lost"}
Taken(r) == {a \in Accounts : debited[<<r, a>>] > 0}

(* Where a request that has debited an account can be: at the row of that  *)
(* account, or over and not accepted.                                      *)
OneDebit ==
    \A r \in Requests :
        /\ pc[r] \in {"idle", "debit", "accepted", "rejected"} => Taken(r) = {}
        /\ \E a \in Accounts : Taken(r) \subseteq {a}

(* Nothing is stored, collected or sent.                                   *)
NothingCollected == journal = {} /\ sent = {} /\ \A r \in Requests : legs[r] = {}

PaidInv == TypeOK /\ OneDebit /\ NothingCollected

(* A step that debits nothing and lets no request go on keeps OneDebit.    *)
LEMMA OneDebitKept ==
    ASSUME OneDebit, debited' = debited,
           \A r \in Requests :
              pc'[r] \in {"idle", "debit", "accepted", "rejected"} =>
                 pc[r] \in {"idle", "debit", "accepted", "rejected"}
    PROVE  OneDebit'
  BY DEF OneDebit, Taken

(* The steps of a request: the only way on from a debit is the refusal of  *)
(* its row.                                                                *)
LEMMA RequestPaid ==
    ASSUME PaidInv, NEW r \in Requests,
           \/ \E amount \in Amounts, kind \in Kinds : Submit(r, amount, kind)
           \/ \E a \in Accounts : Debit(r, a)
           \/ Reject(r) \/ CreateTxn(r) \/ Publish(r) \/ FailRequest(r)
    PROVE  OneDebit' /\ NothingCollected'
<1> USE DEF PaidInv, NothingCollected, Goto, tables, locals, history
<1>0. pc \in [Requests -> Stages]
  BY DEF TypeOK, Stages
<1>1. ASSUME NEW amount \in Amounts, NEW kind \in Kinds, Submit(r, amount, kind)
      PROVE  OneDebit' /\ NothingCollected'
  BY <1>0, <1>1, OneDebitKept DEF Submit
<1>2. CASE Reject(r)
  BY <1>0, <1>2, OneDebitKept DEF Reject
<1>3. ASSUME NEW a \in Accounts, Debit(r, a) PROVE OneDebit' /\ NothingCollected'
  <2>1. NothingCollected'
    BY <1>3 DEF Debit
  <2>2. Taken(r)' \subseteq {a} /\ pc'[r] = "create"
    <3>1. \A b \in Accounts : debited[<<r, b>>] \in Nat /\ ~(debited[<<r, b>>] > 0)
      BY <1>3 DEF Debit, OneDebit, Taken, TypeOK, Txns
    <3>2. \A b \in Accounts : b # a => debited'[<<r, b>>] = debited[<<r, b>>]
      BY <1>3 DEF Debit, TypeOK, Txns
    <3> QED
      BY <1>0, <1>3, <3>1, <3>2 DEF Debit, Taken
  <2>3. ASSUME NEW s \in Requests, s # r PROVE Taken(s)' = Taken(s) /\ pc'[s] = pc[s]
    <3>1. \A b \in Accounts : debited'[<<s, b>>] = debited[<<s, b>>]
      BY <1>3, <2>3 DEF Debit, TypeOK, Txns
    <3> QED
      BY <1>0, <1>3, <2>3, <3>1 DEF Debit, Taken
  <2>4. OneDebit'
    BY <2>2, <2>3 DEF OneDebit
  <2> QED
    BY <2>1, <2>4
<1>4. CASE CreateTxn(r)
  <2>1. \E a \in Accounts : a \in leg[r]
    BY <1>4 DEF CreateTxn, TypeOK
  <2>2. pc' = [pc EXCEPT ![r] = "error"] /\ UNCHANGED <<journal, legs>>
    BY <1>4, RowIsRefused DEF CreateTxn, TypeOK
  <2> QED
    BY <1>0, <1>4, <2>2, OneDebitKept DEF CreateTxn
<1>5. CASE Publish(r)
  BY <1>0, <1>5, OneDebitKept DEF Publish
<1>6. CASE FailRequest(r)
  BY <1>0, <1>6, OneDebitKept DEF FailRequest
<1> QED
  BY <1>1, <1>2, <1>3, <1>4, <1>5, <1>6

LEMMA NextPaidInv == PaidInv /\ [Next]_vars => PaidInv'
<1> SUFFICES ASSUME PaidInv, [Next]_vars PROVE OneDebit' /\ NothingCollected'
  BY NextTypeOK DEF PaidInv
<1>1. pc \in [Requests -> Stages]
  BY DEF PaidInv, TypeOK, Stages
<1>2. ASSUME NEW e \in Engines, Take(e) PROVE OneDebit' /\ NothingCollected'
  BY <1>1, <1>2, OneDebitKept DEF Take, PaidInv, NothingCollected, tables, InFlight
<1>3. CASE TestWithdrawal
  BY <1>3, OneDebitKept DEF TestWithdrawal, PaidInv, NothingCollected, tables, locals, history
<1>4. CASE UNCHANGED vars
  BY <1>4, OneDebitKept DEF vars, PaidInv, NothingCollected, tables, locals, history
<1> QED
  BY <1>2, <1>3, <1>4, RequestPaid DEF Next

(* However requests, messages and panics interleave, no withdrawal is      *)
(* stored or sent, none takes from two accounts, and an accepted one took  *)
(* nothing at all.                                                         *)
THEOREM WithdrawalsStayUnpaid == Spec => []NothingIsPaidOut
<1>1. Init => PaidInv
  <2>1. Init => OneDebit
    <3> SUFFICES ASSUME Init PROVE OneDebit
      OBVIOUS
    <3>1. \A r \in Requests : Taken(r) = {}
      BY DEF Init, Taken, Txns
    <3> QED
      BY <3>1, WithdrawAssumption DEF OneDebit, WithdrawAssumption
  <2> QED
    BY InitTypeOK, <2>1 DEF PaidInv, NothingCollected, Init
<1>2. PaidInv /\ [Next]_vars => PaidInv'
  BY NextPaidInv
<1>3. PaidInv => NothingIsPaidOut
  <2> SUFFICES ASSUME PaidInv, NEW r \in Requests
               PROVE  Cardinality(Taken(r)) <= 1 /\ (pc[r] = "accepted" => Taken(r) = {})
    BY DEF PaidInv, NothingCollected, NothingIsPaidOut, Taken
  <2>1. PICK a \in Accounts : Taken(r) \subseteq {a}
    BY DEF PaidInv, OneDebit
  <2>2. Taken(r) = {} \/ Taken(r) = {a}
    BY <2>1
  <2>3. Cardinality(Taken(r)) <= 1
    <3>1. CASE Taken(r) = {}
      <4>1. Cardinality({}) = 0
        BY FS_EmptySet
      <4> QED
        BY <3>1, <4>1
    <3>2. CASE Taken(r) = {a}
      <4>1. Cardinality({a}) = 1
        BY FS_Singleton
      <4> QED
        BY <3>2, <4>1
    <3> QED
      BY <2>2, <3>1, <3>2
  <2> QED
    BY <2>3 DEF PaidInv, OneDebit
<1> QED
  BY <1>1, <1>2, <1>3, PTL DEF Spec
-----------------------------------------------------------------------------
(* The requests that have taken money of a kind from an account.           *)
Debtors(a, kind) == {r \in Requests : ask[r].kind = kind /\ debited[<<r, a>>] > 0}

(* A request debits what it planned, which the account held at the start;  *)
(* its plan is within the amount unless the kind was overdrawn.            *)
PlanInv ==
    \A r \in Requests :
        /\ \A a \in Accounts : /\ debited[<<r, a>>] \in {0, plan[r][a]}
                               /\ plan[r][a] <= Opening[a][ask[r].kind]
        /\ \/ SumFunction(plan[r]) <= ask[r].amount
           \/ \E a \in Accounts : balance[a][ask[r].kind] < 0

(* What an account has lost is what its debtors took, as far as they are   *)
(* none or one.                                                            *)
BalanceInv ==
    \A a \in Accounts, kind \in Kinds :
        /\ balance[a][kind] <= Opening[a][kind]
        /\ Debtors(a, kind) = {} => balance[a][kind] = Opening[a][kind]
        /\ \A r \in Requests : Debtors(a, kind) = {r} =>
              balance[a][kind] = Opening[a][kind] - debited[<<r, a>>]

DebitInv == PaidInv /\ PlanInv /\ BalanceInv

LEMMA OpeningType ==
    ASSUME NEW a \in Accounts, NEW kind \in Kinds
    PROVE  Opening[a][kind] \in Nat
  BY WithdrawAssumption DEF WithdrawAssumption

LEMMA InitDebitInv == Init => DebitInv
<1> SUFFICES ASSUME Init PROVE DebitInv
  OBVIOUS
<1>1. PaidInv
  <2>1. \A r \in Requests : Taken(r) = {}
    BY DEF Init, Taken, Txns
  <2>2. OneDebit
    BY <2>1, WithdrawAssumption DEF OneDebit, WithdrawAssumption
  <2> QED  BY <2>2, InitTypeOK DEF PaidInv, NothingCollected, Init
<1>2. PlanInv
  <2> SUFFICES ASSUME NEW r \in Requests
               PROVE  /\ \A a \in Accounts : /\ debited[<<r, a>>] \in {0, plan[r][a]}
                                             /\ plan[r][a] <= Opening[a][ask[r].kind]
                      /\ SumFunction(plan[r]) <= ask[r].amount
    BY DEF PlanInv
  <2>1. ask[r].amount = 0 /\ ask[r].kind \in Kinds
    BY DEF Init, Kinds
  <2>2. PICK p : p = plan[r]
    OBVIOUS
  <2>3. DOMAIN p = Accounts /\ \A a \in Accounts : p[a] = 0
    BY <2>2 DEF Init
  <2>4. SumFunctionOnSet(p, Accounts) = 0
    BY <2>3, SumZero, WithdrawAssumption DEF WithdrawAssumption
  <2>5. SumFunction(p) = 0
    BY <2>3, <2>4 DEF SumFunction
  <2>6. \A a \in Accounts : debited[<<r, a>>] = 0
    BY DEF Init, Txns
  <2> QED  BY <2>1, <2>2, <2>3, <2>5, <2>6, OpeningType
<1>3. BalanceInv
  <2>1. \A a \in Accounts, kind \in Kinds : Debtors(a, kind) = {}
    BY DEF Init, Debtors, Txns
  <2>2. \A a \in Accounts, kind \in Kinds : balance[a][kind] = Opening[a][kind]
    BY DEF Init
  <2> QED  BY <2>1, <2>2, OpeningType DEF BalanceInv
<1> QED  BY <1>1, <1>2, <1>3 DEF DebitInv

(* The smaller of two numbers is no more than either.                      *)
LEMMA MinIsLeast ==
    ASSUME NEW m \in Nat, NEW n \in Nat
    PROVE  Min({m, n}) <= m /\ Min({m, n}) <= n
<1>1. \E x \in {m, n} : \A y \in {m, n} : x <= y
  <2>1. CASE m <= n
    BY <2>1
  <2>2. CASE n <= m
    BY <2>2
  <2> QED  BY <2>1, <2>2
<1> QED  BY <1>1 DEF Min

(* As long as nothing of the kind is overdrawn, a plan is within the       *)
(* amount and takes from no account more than it has.                      *)
LEMMA PlanIsCovered ==
    ASSUME NEW amount \in Nat \ {0}, NEW part \in [Accounts -> Int], NEW pot,
           pot = SumFunction(part), pot >= amount, NEW short,
           NEW legAmount \in [Accounts -> Nat],
           \A a \in Accounts : legAmount[a] = Leg(amount, part[a], pot, a \in short)
    PROVE  /\ \A a \in Accounts : part[a] >= 0 => legAmount[a] <= part[a]
           /\ (\A a \in Accounts : part[a] >= 0) => SumFunction(legAmount) <= amount
<1>1. IsFiniteSet(Accounts)
  BY WithdrawAssumption DEF WithdrawAssumption
<1>2. pot = SumFunctionOnSet(part, Accounts) /\ pot \in Nat \ {0}
  <2>1. DOMAIN part = Accounts
    OBVIOUS
  <2>2. pot = SumFunctionOnSet(part, Accounts)
    BY <2>1 DEF SumFunction
  <2>3. SumFunctionOnSet(part, Accounts) \in Int
    BY <1>1, SumIsInt
  <2> QED  BY <2>2, <2>3
<1>3. ASSUME NEW a \in Accounts, part[a] >= 0
      PROVE  legAmount[a] <= part[a] /\ pot * legAmount[a] <= amount * part[a]
  <2>1. PICK m, n : m = part[a] /\ n = LegAmount(amount, part[a], pot, a \in short)
    OBVIOUS
  <2>2. m \in Nat /\ (a \in short) \in BOOLEAN
    BY <1>3, <2>1
  <2>3. n \in Nat /\ pot * n <= amount * m
    BY <1>2, <2>1, <2>2, LegOfNatIsFloor
  <2>4. legAmount[a] = IF m > 0 THEN Min({m, n}) ELSE 0
    BY <2>1 DEF Leg
  <2>5. CASE m > 0
    <3>1. PICK l \in Nat : l = Min({m, n}) /\ l <= m /\ l <= n
      BY <2>2, <2>3, MinOfTwo, MinIsLeast
    <3>2. pot * l <= pot * n
      BY <1>2, <2>3, <3>1
    <3> QED  BY <1>2, <2>1, <2>2, <2>3, <2>4, <2>5, <3>1, <3>2
  <2>6. CASE m = 0
    BY <1>2, <2>1, <2>4, <2>6
  <2> QED  BY <2>2, <2>5, <2>6
<1>4. ASSUME \A a \in Accounts : part[a] >= 0 PROVE SumFunction(legAmount) <= amount
  <2>1. part \in [Accounts -> Nat] /\ amount \in Nat
    BY <1>4
  <2>2. \A a \in Accounts : pot * legAmount[a] <= amount * part[a]
    BY <1>3, <1>4
  <2>3. SumFunctionOnSet(legAmount, Accounts) <= amount
    BY <1>1, <1>2, <2>1, <2>2, SplitIsWithinAmount
  <2>4. DOMAIN legAmount = Accounts
    OBVIOUS
  <2> QED  BY <2>3, <2>4 DEF SumFunction
<1> QED  BY <1>3, <1>4

(* The parsing of a request: it has taken nothing yet, so no account has a *)
(* new debtor, and its plan is made of the balances of the moment.         *)
LEMMA SubmitDebits ==
    ASSUME DebitInv, NEW r \in Requests, NEW amount \in Amounts, NEW kind \in Kinds,
           Submit(r, amount, kind)
    PROVE  PlanInv' /\ BalanceInv'
<1>1. TypeOK /\ OneDebit /\ amount \in Nat \ {0}
  BY WithdrawAssumption DEF DebitInv, PaidInv, WithdrawAssumption, Submit, IsPositive
<1>2. /\ balance' = balance /\ debited' = debited
      /\ ask' = [ask EXCEPT ![r] = [amount |-> amount, kind |-> kind]]
  BY DEF Submit, tables, history
<1>3. \A a \in Accounts : debited[<<r, a>>] = 0
  <2>1. Taken(r) = {}
    BY <1>1 DEF Submit, OneDebit
  <2> QED  BY <1>1, <2>1 DEF Taken, TypeOK, Txns
<1>4. \A a \in Accounts, k \in Kinds : Debtors(a, k)' = Debtors(a, k)
  <2>1. \A s \in Requests : s # r => ask'[s] = ask[s]
    BY <1>1, <1>2 DEF TypeOK
  <2> QED  BY <1>2, <1>3, <2>1 DEF Debtors
<1>5. BalanceInv'
  BY <1>2, <1>4 DEF DebitInv, BalanceInv
<1>6. PICK part, pot, short, legAmount :
        /\ part = [a \in Accounts |-> balance[a][kind]]
        /\ pot = SumFunction(part) /\ pot >= amount
        /\ legAmount = [a \in Accounts |-> Leg(amount, balance[a][kind], pot, a \in short)]
        /\ plan' = [plan EXCEPT ![r] = legAmount]
  BY DEF Submit
<1>7. part \in [Accounts -> Int] /\ legAmount \in [Accounts -> Nat]
  BY <1>1, <1>6, LegType DEF TypeOK
<1>8. /\ \A a \in Accounts : part[a] >= 0 => legAmount[a] <= part[a]
      /\ (\A a \in Accounts : part[a] >= 0) => SumFunction(legAmount) <= amount
  <2>1. \A a \in Accounts : legAmount[a] = Leg(amount, part[a], pot, a \in short)
    BY <1>6
  <2> QED  BY <1>1, <1>6, <1>7, <2>1, PlanIsCovered
<1>9. \A a \in Accounts : legAmount[a] <= Opening[a][kind]
  <2> SUFFICES ASSUME NEW a \in Accounts PROVE legAmount[a] <= Opening[a][kind]
    OBVIOUS
  <2>1. part[a] \in Int /\ part[a] <= Opening[a][kind] /\ Opening[a][kind] \in Nat
    BY <1>6, <1>7, OpeningType DEF DebitInv, BalanceInv
  <2>2. CASE part[a] >= 0
    BY <1>7, <1>8, <2>1, <2>2
  <2>3. CASE part[a] < 0
    BY <1>6, <2>1, <2>3 DEF Leg
  <2> QED  BY <2>1, <2>2, <2>3
<1>10. ASSUME NEW s \in Requests
       PROVE  /\ \A a \in Accounts : /\ debited'[<<s, a>>] \in {0, plan'[s][a]}
                                     /\ plan'[s][a] <= Opening[a][ask'[s].kind]
              /\ \/ SumFunction(plan'[s]) <= ask'[s].amount
                 \/ \E a \in Accounts : balance'[a][ask'[s].kind] < 0
  <2>1. CASE s = r
    <3>1. plan'[s] = legAmount /\ ask'[s].kind = kind /\ ask'[s].amount = amount
      BY <1>1, <1>2, <1>6, <2>1 DEF TypeOK
    <3>2. SumFunction(legAmount) <= amount \/ \E a \in Accounts : balance'[a][kind] < 0
      BY <1>1, <1>2, <1>6, <1>7, <1>8
    <3> QED  BY <1>2, <1>3, <1>9, <2>1, <3>1, <3>2
  <2>2. CASE s # r
    <3>1. plan'[s] = plan[s] /\ ask'[s] = ask[s]
      BY <1>1, <1>2, <1>6, <2>2 DEF TypeOK
    <3> QED  BY <1>2, <3>1 DEF DebitInv, PlanInv
  <2> QED  BY <2>1, <2>2
<1> QED  BY <1>5, <1>10 DEF PlanInv

(* A debit: the request becomes a debtor of the account, which it was not, *)
(* and takes what it planned.                                              *)
LEMMA DebitDebits ==
    ASSUME DebitInv, NEW r \in Requests, NEW a \in Accounts, Debit(r, a)
    PROVE  PlanInv' /\ BalanceInv'
<1>1. TypeOK /\ OneDebit /\ plan[r][a] \in Nat \ {0} /\ ask[r].kind \in Kinds
  BY DEF DebitInv, PaidInv, Debit, TypeOK
<1> PICK kind \in Kinds : kind = ask[r].kind
  BY <1>1
<1>2. /\ UNCHANGED <<ask, plan>>
      /\ debited' = [debited EXCEPT ![<<r, a>>] = plan[r][a]]
  BY DEF Debit
<1>3. /\ \A b \in Accounts, k \in Kinds : b # a \/ k # kind => balance'[b][k] = balance[b][k]
      /\ balance'[a][kind] = balance[a][kind] - plan[r][a]
      /\ \A b \in Accounts, k \in Kinds : balance[b][k] \in Int /\ balance'[b][k] <= balance[b][k]
  BY <1>1 DEF Debit, TypeOK
<1>4. /\ debited[<<r, a>>] = 0 /\ debited'[<<r, a>>] = plan[r][a]
      /\ \A s \in Requests, b \in Accounts :
            s # r \/ b # a => debited'[<<s, b>>] = debited[<<s, b>>]
  <2>1. Taken(r) = {}
    BY <1>1 DEF Debit, OneDebit
  <2>2. debited[<<r, a>>] = 0
    BY <1>1, <2>1 DEF Taken, TypeOK, Txns
  <2> QED  BY <1>1, <1>2, <2>2 DEF TypeOK, Txns
<1>5. PlanInv'
  <2> SUFFICES ASSUME NEW s \in Requests
               PROVE  /\ \A b \in Accounts : /\ debited'[<<s, b>>] \in {0, plan[s][b]}
                                             /\ plan[s][b] <= Opening[b][ask[s].kind]
                      /\ \/ SumFunction(plan[s]) <= ask[s].amount
                         \/ \E b \in Accounts : balance'[b][ask[s].kind] < 0
    BY <1>2 DEF PlanInv
  <2>1. \A b \in Accounts : debited'[<<s, b>>] \in {0, plan[s][b]}
    BY <1>4 DEF DebitInv, PlanInv
  <2>2. ask[s].kind \in Kinds
    BY <1>1 DEF TypeOK
  <2>3. ASSUME NEW b \in Accounts, balance[b][ask[s].kind] < 0 PROVE balance'[b][ask[s].kind] < 0
    <3>1. /\ balance[b][ask[s].kind] \in Int
          /\ balance'[b][ask[s].kind] \in {balance[b][ask[s].kind], balance[b][ask[s].kind] - plan[r][a]}
      BY <1>3, <2>2
    <3> QED  BY <1>1, <2>3, <3>1
  <2> QED  BY <2>1, <2>3 DEF DebitInv, PlanInv
<1>6. /\ Debtors(a, kind)' = Debtors(a, kind) \cup {r} /\ r \notin Debtors(a, kind)
      /\ \A b \in Accounts, k \in Kinds : b # a \/ k # kind => Debtors(b, k)' = Debtors(b, k)
  BY <1>1, <1>2, <1>4 DEF Debtors
<1>7. ASSUME NEW b \in Accounts, NEW k \in Kinds
      PROVE  /\ balance'[b][k] <= Opening[b][k]
             /\ Debtors(b, k)' = {} => balance'[b][k] = Opening[b][k]
             /\ \A s \in Requests : Debtors(b, k)' = {s} =>
                   balance'[b][k] = Opening[b][k] - debited'[<<s, b>>]
  <2>1. /\ balance[b][k] <= Opening[b][k] /\ Opening[b][k] \in Nat
        /\ Debtors(b, k) = {} => balance[b][k] = Opening[b][k]
        /\ \A s \in Requests : Debtors(b, k) = {s} => balance[b][k] = Opening[b][k] - debited[<<s, b>>]
    BY OpeningType DEF DebitInv, BalanceInv
  <2>2. CASE b = a /\ k = kind
    <3>1. /\ balance'[b][k] = balance[b][k] - plan[r][a] /\ balance[b][k] \in Int
          /\ debited'[<<r, b>>] = plan[r][a] /\ plan[r][a] \in Nat
      <4>1. balance'[b][k] = balance[b][k] - plan[r][a]
        BY <1>3, <2>2
      <4>2. balance[b][k] \in Int /\ plan[r][a] \in Nat
        BY <1>1, <1>3
      <4>3. debited'[<<r, b>>] = plan[r][a]
        BY <1>4, <2>2
      <4> QED  BY <4>1, <4>2, <4>3
    <3>2. \A s \in Requests : Debtors(b, k)' = {s} => s = r /\ Debtors(b, k) = {}
      BY <1>6, <2>2
    <3>3. Debtors(b, k) = {} => balance'[b][k] = Opening[b][k] - debited'[<<r, b>>]
      BY <2>1, <3>1
    <3>4. balance'[b][k] <= Opening[b][k]
      BY <2>1, <3>1
    <3>5. Debtors(b, k)' # {}
      BY <1>6, <2>2
    <3> QED  BY <3>2, <3>3, <3>4, <3>5
  <2>3. CASE b # a \/ k # kind
    <3>1. Debtors(b, k)' = Debtors(b, k) /\ balance'[b][k] = balance[b][k]
      BY <1>3, <1>6, <2>3
    <3>2. \A s \in Requests : Debtors(b, k) = {s} => debited'[<<s, b>>] = debited[<<s, b>>]
      <4>1. ASSUME NEW s \in Requests, Debtors(b, k) = {s}, s = r, b = a PROVE FALSE
        <5>1. debited[<<s, b>>] > 0
          BY <4>1 DEF Debtors
        <5> QED  BY <1>4, <4>1, <5>1
      <4> QED  BY <1>4, <4>1
    <3> QED  BY <2>1, <3>1, <3>2
  <2> QED  BY <2>2, <2>3
<1> QED  BY <1>5, <1>7 DEF BalanceInv

LEMMA DebitInvariant == Spec => []DebitInv
<1>1. PaidInv /\ [Next]_vars => PaidInv'
  BY NextPaidInv
<1>2. DebitInv /\ [Next]_vars => PlanInv' /\ BalanceInv'
  <2> SUFFICES ASSUME DebitInv, [Next]_vars PROVE PlanInv' /\ BalanceInv'
    OBVIOUS
  <2>1. CASE UNCHANGED <<balance, ask, plan, debited>>
    BY <2>1 DEF DebitInv, PlanInv, BalanceInv, Debtors
  <2>2. ASSUME NEW r \in Requests, Reject(r) \/ CreateTxn(r) \/ Publish(r) \/ FailRequest(r)
        PROVE  UNCHANGED <<balance, ask, plan, debited>>
    <3>1. CASE CreateTxn(r)
      <4>1. \A a \in Accounts : ~CanInsert(StoredRows, NewRow(r, a))
        BY RowIsRefused DEF DebitInv, PaidInv
      <4>2. leg[r] \subseteq Accounts
        BY DEF DebitInv, PaidInv, TypeOK
      <4> QED  BY <3>1, <4>1, <4>2 DEF CreateTxn, history
    <3> QED  BY <2>2, <3>1 DEF Reject, Publish, FailRequest, tables, history
  <2>3. ASSUME NEW e \in Engines, Take(e) PROVE UNCHANGED <<balance, ask, plan, debited>>
    BY <2>3 DEF Take, tables
  <2>4. TestWithdrawal \/ UNCHANGED vars => UNCHANGED <<balance, ask, plan, debited>>
    BY DEF TestWithdrawal, vars, tables, locals, history
  <2> QED  BY <2>1, <2>2, <2>3, <2>4, SubmitDebits, DebitDebits DEF Next
<1> QED  BY InitDebitInv, <1>1, <1>2, PTL DEF Spec, DebitInv

(* A request alone never overdraws an account: with one debtor the account *)
(* has lost what that one planned, and the plan is within the opening.     *)
THEOREM OverdraftsAreShared == Spec => []OverdrawnOnlyByOverlap
<1>1. DebitInv => OverdrawnOnlyByOverlap
  <2> SUFFICES ASSUME DebitInv, NEW a \in Accounts, NEW kind \in Kinds, balance[a][kind] < 0
               PROVE  Cardinality(Debtors(a, kind)) > 1
    BY DEF OverdrawnOnlyByOverlap, Debtors
  <2>1. IsFiniteSet(Debtors(a, kind))
    BY FS_Subset, WithdrawAssumption DEF Debtors, WithdrawAssumption
  <2>2. Debtors(a, kind) # {}
    BY OpeningType DEF DebitInv, BalanceInv
  <2>3. ASSUME NEW r, Debtors(a, kind) = {r} PROVE FALSE
    <3>1. r \in Requests /\ ask[r].kind = kind /\ debited[<<r, a>>] > 0
      BY <2>3 DEF Debtors
    <3>2. balance[a][kind] = Opening[a][kind] - debited[<<r, a>>]
      BY <2>3, <3>1 DEF DebitInv, BalanceInv
    <3>3. debited[<<r, a>>] = plan[r][a] /\ plan[r][a] <= Opening[a][kind] /\ plan[r][a] \in Nat
      BY <3>1 DEF DebitInv, PlanInv, PaidInv, TypeOK
    <3> QED  BY <3>2, <3>3, OpeningType
  <2>4. /\ Cardinality(Debtors(a, kind)) \in Nat
        /\ Cardinality(Debtors(a, kind)) # 0 /\ Cardinality(Debtors(a, kind)) # 1
    BY <2>1, <2>2, <2>3, FS_CardinalityType, FS_EmptySet, FS_Singleton
  <2> QED  BY <2>4
<1> QED  BY DebitInvariant, <1>1, PTL

(* However plans are rounded, capped, interrupted or race, a request takes *)
(* no more than its amount as long as no account is overdrawn.             *)
THEOREM DebitsAreWithinRequest == Spec => []DebitsWithinRequest
<1>1. DebitInv => DebitsWithinRequest
  <2> SUFFICES ASSUME DebitInv, NEW r \in Requests, SumFunction(plan[r]) <= ask[r].amount
               PROVE  SumFunction([a \in Accounts |-> debited[<<r, a>>]]) <= ask[r].amount
    BY DEF DebitInv, PlanInv, DebitsWithinRequest
  <2>1. PICK d, p : d = [a \in Accounts |-> debited[<<r, a>>]] /\ p = plan[r]
    OBVIOUS
  <2>2. /\ DOMAIN d = Accounts /\ DOMAIN p = Accounts /\ ask[r].amount \in Int
        /\ \A a \in Accounts : d[a] \in Int /\ p[a] \in Int /\ d[a] <= p[a]
    <3>1. /\ p \in [Accounts -> Nat] /\ ask[r].amount \in Int
          /\ \A a \in Accounts : d[a] \in {0, p[a]}
      BY <2>1 DEF DebitInv, PlanInv, PaidInv, TypeOK
    <3> QED  BY <2>1, <3>1
  <2>3. /\ SumFunctionOnSet(d, Accounts) <= SumFunctionOnSet(p, Accounts)
        /\ SumFunctionOnSet(d, Accounts) \in Int /\ SumFunctionOnSet(p, Accounts) \in Int
    BY <2>2, SumMonotonic, SumIsInt, WithdrawAssumption DEF WithdrawAssumption
  <2>4. SumFunction(d) <= SumFunction(p) /\ SumFunction(d) \in Int /\ SumFunction(p) \in Int
    BY <2>2, <2>3 DEF SumFunction
  <2> QED  BY <2>1, <2>2, <2>4
<1> QED  BY DebitInvariant, <1>1, PTL
=============================================================================
