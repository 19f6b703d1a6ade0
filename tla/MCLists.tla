------------------------------- MODULE MCLists -------------------------------
(* Small instances of Location, Nearby and ThreadPaging for TLC.  The three *)
(* share nothing; "part" says of which of them a behaviour is.              *)
EXTENDS Location, Nearby, ThreadPaging

VARIABLE part

(* Where people are at first matters to the search alone.                  *)
Init ==
  /\ part \in {"location", "nearby", "thread"}
  /\ LocationInit /\ NearbyInit /\ PagingInit
  /\ part # "nearby" => origin = 0 /\ \A u \in People : spot[u] = 0

Next ==
  /\ UNCHANGED part
  /\ \/ part = "location" /\ LocationNext /\ UNCHANGED <<nearbyVars, pagingVars>>
     \/ part = "nearby" /\ NearbyNext /\ UNCHANGED <<locationVars, pagingVars>>
     \/ part = "thread" /\ PagingNext /\ UNCHANGED <<locationVars, nearbyVars>>

Spec == Init /\ [][Next]_<<part, locationVars, nearbyVars, pagingVars>>

(* Every variable of the three keeps to its type.                          *)
TypeOK == LocationTypeOK /\ NearbyTypeOK /\ PagingTypeOK
=============================================================================
