--------------------------- MODULE AtomicAccount ---------------------------
(***************************************************************************)
(* What the handlers that work on one account promise together: each call  *)
(* takes effect at most once and in one step, a trade or withdrawal only   *)
(* when the funds of that moment cover it.                                 *)
(***************************************************************************)
EXTENDS Integers

CONSTANTS Calls, Opening, Amounts, TopUpAmounts

VARIABLES funds,   \* the two balances of the account
          done     \* the calls that have taken effect

Init == funds = Opening /\ done = {}

Change(c, kind, amount) ==
    /\ c \in Calls \ done
    /\ done' = done \cup {c}
    /\ funds' = [funds EXCEPT ![kind] = @ + amount]

Deposit(c) == \E kind \in {"real", "fake"}, amount \in Amounts : Change(c, kind, amount)

Spend(c) ==
    \E kind \in {"real", "fake"}, amount \in Amounts :
        funds[kind] >= amount /\ Change(c, kind, -amount)

TopUp(c) == \E amount \in TopUpAmounts : Change(c, "fake", amount)

Next == \E c \in Calls : Deposit(c) \/ Spend(c) \/ TopUp(c)

Spec == Init /\ [][Next]_<<funds, done>>
=============================================================================
