------------------------------ MODULE PairSlot ------------------------------
(***************************************************************************)
(* What the ping table promises about two people (D-042, D-043): one slot  *)
(* per unordered pair.  A free slot is taken by one of the two asking the  *)
(* other; a slot that is taken is decided, or given back.  A decision      *)
(* never turns into a question again, and the direction of the question    *)
(* does not change while the slot is taken.                                *)
(*                                                                         *)
(* The specification lets a decided slot be decided again or be given      *)
(* back, because the handlers do: Pings!SettledForGood says when they      *)
(* cannot any more.                                                        *)
(***************************************************************************)
CONSTANTS Users, NoUser

VARIABLE slot

Pairs == {{a, b} : a \in Users, b \in Users} \ {{a} : a \in Users}

FreeSlot == [state |-> "FREE", asker |-> NoUser]

Init == slot = [pair \in Pairs |-> FreeSlot]

Ask(pair) ==
  /\ slot[pair] = FreeSlot
  /\ \E a \in pair :
       slot' = [slot EXCEPT ![pair] = [state |-> "PENDING", asker |-> a]]

Decide(pair) ==
  /\ slot[pair] # FreeSlot
  /\ \E state \in {"ACCEPTED", "REJECTED"} :
       slot' = [slot EXCEPT ![pair].state = state]

GiveBack(pair) ==
  /\ slot[pair] # FreeSlot
  /\ slot' = [slot EXCEPT ![pair] = FreeSlot]

Next == \E pair \in Pairs : Ask(pair) \/ Decide(pair) \/ GiveBack(pair)

Spec == Init /\ [][Next]_slot
=============================================================================
