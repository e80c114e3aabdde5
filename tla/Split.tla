------------------------------- MODULE Split -------------------------------
(***************************************************************************)
(* The proportional split that SmartDeposit (smart-mpesa-depo.go) and      *)
(* SmartWithdraw (foreman.go) make of an amount over accounts.             *)
(***************************************************************************)
EXTENDS Integers

Magnitude(n) == IF n < 0 THEN -n ELSE n

(* What counts for an account in the split: its part of the whole, or      *)
(* nothing when its sign is not that of the whole, since the loops skip a  *)
(* negative proportion.  Parts may exceed the whole when others are of the *)
(* other sign.                                                             *)
Share(part, whole) == IF part * whole > 0 THEN Magnitude(part) ELSE 0

(* Variant of LegAmount: each leg rounded up instead of down.              *)
LegRoundedUp(amount, part, whole, short) ==
    (amount * Share(part, whole) + Magnitude(whole) - 1) \div Magnitude(whole)

(* int64(float64(amount) * proportion), 0 when the loop would skip the     *)
(* account.  A proportion that has no exact float64 may put an exact       *)
(* product just under the integer ("short").                               *)
LegAmount(amount, part, whole, short) ==
    LET product == amount * Share(part, whole)
        exact == product \div Magnitude(whole)
        leg == IF short /\ part # whole /\ product % Magnitude(whole) = 0
               THEN exact - 1 ELSE exact
    IN  IF leg \in Nat \ {0} THEN leg ELSE 0
=============================================================================
