----------------------------- MODULE MCThreads -----------------------------
(* Small instances of Threads for TLC.                                     *)
EXTENDS Threads, TLC

Symmetry == Permutations(Reqs) \cup Permutations(Tabs) \cup Permutations(Msgs)
            \cup Permutations(Users)
=============================================================================
