---------------------------- MODULE MCAllocation ----------------------------
(***************************************************************************)
(* Instances of Allocation for TLC: balances small enough that a minimum   *)
(* of 5 is more than a share, and that a maximum of 4 leaves a remainder;  *)
(* a reserve within the balance and one above it.                          *)
(***************************************************************************)
EXTENDS Allocation

SomeBookies ==
    {[min |-> 0, max |-> 9, ret |-> 2,  vol |-> 1],
     [min |-> 5, max |-> 9, ret |-> -1, vol |-> 2],
     [min |-> 4, max |-> 4, ret |-> 2,  vol |-> 2],
     [min |-> 0, max |-> 4, ret |-> -1, vol |-> 0],
     [min |-> 5, max |-> 9, ret |-> 1,  vol |-> 1],
     [min |-> 7, max |-> 20, ret |-> 4, vol |-> 3]}

SomeInputs ==
    [balance : {0, 10, 20, 35}, reserve : {10, 150}, beta : {0, 5, 10}, minSend : {0, 3},
     bookies : [Bookies -> SomeBookies]]
=============================================================================
