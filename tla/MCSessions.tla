----------------------------- MODULE MCSessions -----------------------------
(* Small instances of Sessions for TLC.                                    *)
EXTENDS Sessions, TLC

Symmetry == Permutations(Families) \cup Permutations(Tokens)
            \cup Permutations(Calls)
=============================================================================
