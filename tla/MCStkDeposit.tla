---------------------------- MODULE MCStkDeposit ----------------------------
(***************************************************************************)
(* Instances of StkDeposit for TLC.  Balances and amounts are in cents:    *)
(* 350 over 100 and 200 splits into 116 and 233, one and two shillings;    *)
(* 300 over them splits exactly, or one cent short.  An overdrawn account  *)
(* beside one of 100 leaves a pot of 50, and a share of two.               *)
(***************************************************************************)
EXTENDS StkDeposit, TLC

CONSTANTS a1, a2

TinyAndBig  == (a1 :> [real |-> 1, fake |-> 0]) @@ (a2 :> [real |-> 200, fake |-> 100])
TwoAccounts == (a1 :> [real |-> 100, fake |-> -50]) @@ (a2 :> [real |-> 200, fake |-> 100])

AllModes == [isReal : BOOLEAN, dryRun : BOOLEAN]
RealMode == {[isReal |-> TRUE, dryRun |-> FALSE]}

Symmetry == Permutations(Requests) \cup Permutations(Consumers) \cup Permutations(Handlers)
=============================================================================
