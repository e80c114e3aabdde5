----------------------------- MODULE MCWithdraw -----------------------------
(***************************************************************************)
(* Instances of Withdraw for TLC.  Balances and amounts are in cents: 400  *)
(* takes both real balances whole, 1 is no cent of either; two requests    *)
(* that overlap leave the first account at -100, and 200 of the pot that   *)
(* is left would take 300 of the second.                                   *)
(***************************************************************************)
EXTENDS Withdraw, TLC

CONSTANTS a1, a2

Wallets == (a1 :> [real |-> 100, fake |-> 0]) @@ (a2 :> [real |-> 300, fake |-> 1])
WithNegative == {-100, 1, 200, 400}
RequestSymmetry == Permutations(Requests) \cup Permutations(Engines)
=============================================================================
