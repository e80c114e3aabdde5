------------------------------ MODULE MCLedger ------------------------------
(***************************************************************************)
(* Instances of Ledger for TLC.  200 cents covers one trade of 150 but not *)
(* two, and two of 100.                                                    *)
(***************************************************************************)
EXTENDS Ledger, TLC

Purse == [real |-> 200, fake |-> 100]
CallSymmetry == Permutations(Calls)
=============================================================================
