------------------------------- MODULE MCOtp -------------------------------
(* Small instances of Otp for TLC.                                         *)
EXTENDS Otp, TLC

Symmetry == Permutations(Challenges) \cup Permutations(Calls)
=============================================================================
