------------------------------ MODULE Listing ------------------------------
(***************************************************************************)
(* What reading a list page by page promises to its reader, while others   *)
(* change what is listed.  Each page is an answer of its own; nothing but a *)
(* cursor, held by the reader, joins them.                                 *)
(*                                                                         *)
(* Nearby and ThreadPaging implement it.                                   *)
(***************************************************************************)
CONSTANT Items

VARIABLES
  phase,   \* "open" from the first request to the last page
  listed,  \* what the pages so far have shown
  twice,   \* what more than one of them has
  steady,  \* what has been in the list, at its place, all along
  absent   \* what has been outside the list all along

vars == <<phase, listed, twice, steady, absent>>

Init ==
  phase = "closed" /\ listed = {} /\ twice = {} /\ steady = {} /\ absent = {}

Begin ==
  /\ phase # "open"
  /\ phase' = "open"
  /\ steady' \subseteq Items /\ absent' \subseteq Items \ steady'
  /\ UNCHANGED <<listed, twice>>

(* Something happens to the items.                                         *)
Shake ==
  /\ phase = "open"
  /\ steady' \subseteq steady /\ absent' \subseteq absent
  /\ UNCHANGED <<phase, listed, twice>>

(* A page shows nothing that is outside the list, and nothing again of what
   has kept its place.                                                     *)
MayShow(page) == page \cap absent = {} /\ page \cap listed \cap steady = {}

Page(page) ==
  /\ phase = "open"
  /\ MayShow(page)
  /\ listed' = listed \cup page
  /\ twice' = twice \cup (page \cap listed)
  /\ UNCHANGED <<phase, steady, absent>>

Cleared == listed' = {} /\ twice' = {} /\ steady' = {} /\ absent' = {}

(* The last page has been shown, and with it all that kept its place.      *)
Finish ==
  /\ phase = "open"
  /\ steady \subseteq listed
  /\ phase' = "closed"
  /\ Cleared

(* The reader stops, or is told that the list is no longer there.          *)
Abandon == phase = "open" /\ phase' = "broken" /\ Cleared

Next ==
  \/ Begin \/ Shake \/ Finish \/ Abandon
  \/ \E page \in SUBSET Items : Page(page)

Spec == Init /\ [][Next]_vars
=============================================================================
