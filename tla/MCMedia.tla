------------------------------ MODULE MCMedia ------------------------------
(* Small instances of Media for TLC, in one run: "part" says which of the  *)
(* rows, requests and workers take part in a behaviour, and whether jobs   *)
(* are retried in it, or taken back from slow workers.                     *)
EXTENDS Media

CONSTANTS a1, a2, c1, c2, w1, w2

(* A sweep of several rows, alone; two requests and a worker that retries, *)
(* on one row; a request and two workers, w1 being the one that is slow.   *)
Parts ==
  {[rows |-> {a1, a2}, calls |-> {c1}, workers |-> {}, retries |-> FALSE, stalls |-> FALSE],
   [rows |-> {a1}, calls |-> {c1, c2}, workers |-> {w1}, retries |-> TRUE, stalls |-> FALSE],
   [rows |-> {a1}, calls |-> {c1}, workers |-> {w1, w2}, retries |-> FALSE, stalls |-> TRUE]}

VARIABLE part

PartInit == part \in Parts /\ Init

PartNext ==
  /\ UNCHANGED part
  /\ Next
  /\ \A c \in Calls \ part.calls : call'[c] = call[c]
  /\ \A c \in part.calls : call'[c].asset \in part.rows \cup {NoAsset}
  /\ \A w \in Workers \ part.workers : worker'[w] = worker[w]
  /\ worker'[w2] # IdleWorker => job'[worker'[w2].asset].stalls > 0
  /\ \A a \in Assets :
       /\ job'[a].state = "WAITING" /\ job'[a].tries > 0 => part.retries
       /\ job'[a].stalls > 0 => part.stalls

(* What does not take part never begins, and nothing else is held up that  *)
(* is fair.                                                                *)
PartSpec == PartInit /\ [][PartNext]_<<part, vars>> /\ Fairness
=============================================================================
