---------------------------- MODULE MCSecureSend ----------------------------
(***************************************************************************)
(* Instances of SecureSend for TLC.                                        *)
(***************************************************************************)
EXTENDS SecureSend, TLC

CallSymmetry == Permutations(Calls) \cup Permutations(Txns)
=============================================================================
