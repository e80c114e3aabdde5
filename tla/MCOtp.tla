------------------------------- MODULE MCOtp -------------------------------
(***************************************************************************)
(* Instances of Otp for TLC.  With a TTL of 2 and a Slack of 1 a code is   *)
(* gone after 4; a clock of 10 lets a second code start after that.        *)
(***************************************************************************)
EXTENDS Otp, TLC

SendSymmetry == Permutations(Sends) \cup Permutations(Customers)
=============================================================================
