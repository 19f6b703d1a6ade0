------------------------------ MODULE MCPings ------------------------------
(* Small instances of Pings for TLC.                                       *)
EXTENDS Pings, TLC

(* Requests and ping ids are interchangeable; so are users, the model
   having no ordering of them.                                             *)
Symmetry == Permutations(Reqs) \cup Permutations(PingIds) \cup Permutations(Users)
=============================================================================
