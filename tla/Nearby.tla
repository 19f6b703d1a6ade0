------------------------------- MODULE Nearby -------------------------------
(***************************************************************************)
(* The search of the Grid, page by page (modules/grid/grid.service.ts:     *)
(* nearby, nearbyQuery, requireOrigin, resolveCursor).  One searcher asks  *)
(* for pages, each a chain of queries; meanwhile the people found, and the *)
(* searcher, move, vanish, hide and block.  The order is (distance, id);   *)
(* the cursor is the last person of the page before, whose distance is     *)
(* taken anew.                                                             *)
(*                                                                         *)
(* What follows the search adds photos to its rows and drops none: that is *)
(* in Discovery, and here the search answers.  Places are points on a      *)
(* line, ids are numbers.                                                  *)
(***************************************************************************)
EXTENDS Integers, FiniteSets

CONSTANTS
  People,   \* those who can be found, by id
  Points,   \* where they and the searcher may be
  Away,     \* no row in user_locations; as a distance, NULL
  NoOne,    \* no cursor
  Radius,   \* the radius asked for, in meters
  Limit,    \* the size of a page
  Roaming,  \* those of People whose position changes
  Fickle    \* those who hide and show themselves, block and unblock

GRID_RADIUS_METERS == {1000, 3000, 10000, 50000}

ASSUME NearbyAssumption ==
  /\ People \subseteq Nat /\ IsFiniteSet(People)
  /\ Roaming \subseteq People /\ Fickle \subseteq People
  /\ Points \subseteq Int /\ Away \notin Int /\ NoOne \notin People
  /\ Radius \in GRID_RADIUS_METERS /\ Limit \in Nat \ {0}

VARIABLES
  spot,      \* geog_fuzzed of each
  origin,    \* geog of the searcher
  shy,       \* those with discoverable off
  shunned,   \* those blocked by the searcher, or blocking him
  walk,      \* the searcher's request: where it is, and its cursor
  excluded,  \* the ids that blockedIdsFor returned
  after,     \* the boundary that resolveCursor returned
  found,     \* history: who was on the pages so far
  again,     \* history: who was on more than one of them
  fixed,     \* history: who could be found, at one distance, all along
  sealed,    \* history: who was blocked all along
  unseen     \* history: who was hidden, or had no row, all along

people == <<spot, origin, shy, shunned>>
handler == <<walk, excluded, after>>
history == <<found, again, fixed, sealed, unseen>>
nearbyVars == <<people, handler, history>>

(* ST_Distance.                                                            *)
Distance(p, q) == CASE p = Away \/ q = Away -> Away
                    [] p # Away /\ q # Away -> IF p < q THEN q - p ELSE p - q

NoBoundary == [dist |-> Away, id |-> NoOne]

NearbyTypeOK ==
  /\ spot \in [People -> Points \cup {Away}]
  /\ origin \in Points \cup {Away}
  /\ shy \subseteq People /\ shunned \subseteq People
  /\ walk \in [pc : {"closed", "broken", "page", "blocks", "cursor", "query", "end"},
               cursor : People \cup {NoOne}]
  /\ walk.pc = "cursor" => walk.cursor # NoOne
  /\ excluded \subseteq People
  /\ after \in {NoBoundary} \cup [dist : Nat \cup {Away}, id : People]
  /\ found \subseteq People /\ again \subseteq found
  /\ fixed \subseteq People /\ sealed \subseteq People /\ unseen \subseteq People

NearbyInit ==
  /\ spot \in [People -> Points]
  /\ origin \in Points
  /\ shy = {} /\ shunned = {}
  /\ walk = [pc |-> "closed", cursor |-> NoOne]
  /\ excluded = {} /\ after = NoBoundary
  /\ found = {} /\ again = {} /\ fixed = {} /\ sealed = {} /\ unseen = {}

-----------------------------------------------------------------------------
Walking == walk.pc \notin {"closed", "broken"}

DistanceOf(u) == Distance(spot[u], origin)

(* ST_DWithin.                                                             *)
InRange(u) == DistanceOf(u) # Away /\ DistanceOf(u) <= Radius

(* Mutant: a bucket is widened, and the radius at its old edge stays.      *)
BucketBoundsDrifted == {3000, 10000, 50000}

(* The bounds of BUCKET_LABELS, an array of their own.                     *)
BucketBounds == {1000, 3000, 10000, 50000}

(* distanceBucket: the label is that of the first bound above.             *)
SameBucket(m, n) == \A bound \in BucketBounds : m < bound <=> n < bound

CanBeFound == {u \in People : InRange(u)} \ (shy \cup shunned)

CannotBeSeen == {u \in People : spot[u] = Away} \cup shy

(* A boundary that is taken anew when its person or the searcher has moved
   is another one.                                                         *)
BoundaryShifts ==
  \/ origin' # origin
  \/ /\ walk.pc \in {"page", "blocks", "cursor"}
     /\ walk.cursor # NoOne
     /\ spot'[walk.cursor] # spot[walk.cursor]

Watched ==
  /\ fixed' = IF BoundaryShifts THEN {}
              ELSE {u \in fixed : spot'[u] = spot[u]} \cap CanBeFound'
  /\ sealed' = sealed \cap shunned'
  /\ unseen' = unseen \cap CannotBeSeen'
  /\ UNCHANGED <<handler, found, again>>

(* updateLocation and deleteLocation, of the others and of the searcher.   *)
Move(u) ==
  /\ \E p \in Points \cup {Away} : spot' = [spot EXCEPT ![u] = p]
  /\ UNCHANGED <<origin, shy, shunned>> /\ Watched

Wander ==
  /\ origin' \in Points \cup {Away}
  /\ UNCHANGED <<spot, shy, shunned>> /\ Watched

Flip(set, u) == IF u \in set THEN set \ {u} ELSE set \cup {u}

SetDiscoverable(u) ==
  /\ shy' = Flip(shy, u)
  /\ UNCHANGED <<spot, origin, shunned>> /\ Watched

BlockOrUnblock(u) ==
  /\ shunned' = Flip(shunned, u)
  /\ UNCHANGED <<spot, origin, shy>> /\ Watched

-----------------------------------------------------------------------------
(* The searcher.                                                           *)
OpenGrid ==
  /\ ~Walking
  /\ walk' = [pc |-> "page", cursor |-> NoOne]
  /\ fixed' = CanBeFound /\ sealed' = shunned /\ unseen' = CannotBeSeen
  /\ UNCHANGED <<people, excluded, after, found, again>>

Over(pc) ==
  /\ walk' = [pc |-> pc, cursor |-> NoOne]
  /\ excluded' = {} /\ after' = NoBoundary
  /\ found' = {} /\ again' = {} /\ fixed' = {} /\ sealed' = {} /\ unseen' = {}

Leave == walk.pc = "page" /\ Over("broken") /\ UNCHANGED people

(* nextCursor was null.                                                    *)
Done == walk.pc = "end" /\ Over("closed") /\ UNCHANGED people

GoOn(pc) == walk' = [walk EXCEPT !.pc = pc] /\ UNCHANGED <<people, history>>

-----------------------------------------------------------------------------
(* nearby.  Who has no position is told so.                                *)
RequireOrigin ==
  /\ walk.pc = "page"
  /\ \/ origin = Away /\ Over("broken") /\ UNCHANGED people
     \/ origin # Away /\ GoOn("blocks") /\ UNCHANGED <<excluded, after>>

(* Mutant: the cursor is resolved even on the first page.                  *)
BlockedThenCursor ==
  /\ walk.pc = "blocks"
  /\ excluded' = shunned
  /\ GoOn("cursor")
  /\ UNCHANGED after

BlockedIdsFor ==
  /\ walk.pc = "blocks"
  /\ excluded' = shunned
  /\ GoOn(IF walk.cursor = NoOne THEN "query" ELSE "cursor")
  /\ UNCHANGED after

(* The person at the boundary may be hidden or blocked by now, not gone.   *)
ResolveCursor ==
  /\ walk.pc = "cursor"
  /\ \/ spot[walk.cursor] = Away /\ Over("broken") /\ UNCHANGED people
     \/ /\ spot[walk.cursor] # Away
        /\ after' = [dist |-> DistanceOf(walk.cursor), id |-> walk.cursor]
        /\ GoOn("query") /\ UNCHANGED excluded

(* Mutant: the boundary forgets those who share its distance.              *)
BeyondByDistance(u) ==
  after = NoBoundary \/ (after.dist # Away /\ DistanceOf(u) > after.dist)

(* Nothing is beyond a boundary whose distance is NULL.                    *)
Beyond(u) ==
  \/ after = NoBoundary
  \/ /\ after.dist # Away
     /\ \/ DistanceOf(u) > after.dist
        \/ DistanceOf(u) = after.dist /\ u > after.id

Rows == {u \in People : InRange(u) /\ Beyond(u)} \ (shy \cup excluded)

Before(u, v) ==
  \/ DistanceOf(u) < DistanceOf(v)
  \/ DistanceOf(u) = DistanceOf(v) /\ u < v

(* ORDER BY and LIMIT.  A page that is full has a cursor, even if it       *)
(* happens to be the last.                                                 *)
Query ==
  /\ walk.pc = "query"
  /\ \E page \in SUBSET Rows :
       /\ \A u \in page, v \in Rows \ page : Before(u, v)
       /\ \/ /\ Cardinality(page) = Limit
             /\ \E last \in page :
                  /\ \A u \in page \ {last} : Before(u, last)
                  /\ walk' = [pc |-> "page", cursor |-> last]
          \/ /\ page = Rows /\ Cardinality(page) < Limit
             /\ walk' = [pc |-> "end", cursor |-> NoOne]
       /\ found' = found \cup page
       /\ again' = again \cup (page \cap found)
  /\ excluded' = {} /\ after' = NoBoundary
  /\ UNCHANGED <<people, fixed, sealed, unseen>>

NearbyNext ==
  \/ \E u \in Roaming : Move(u)
  \/ Wander
  \/ \E u \in Fickle : SetDiscoverable(u) \/ BlockOrUnblock(u)
  \/ OpenGrid \/ Leave \/ Done
  \/ RequireOrigin \/ BlockedIdsFor \/ ResolveCursor \/ Query

NearbySpec == NearbyInit /\ [][NearbyNext]_nearbyVars

-----------------------------------------------------------------------------
GridList == INSTANCE Listing WITH
  Items <- People,
  phase <- IF Walking THEN "open" ELSE walk.pc,
  listed <- found, twice <- again, steady <- fixed,
  absent <- sealed \cup unseen

(* Paging through the Grid shows everyone who stays where he is, once, and
   nobody who is hidden, gone or blocked all along: as long as neither the
   searcher moves nor the person at the boundary, who is found again by his
   distance of the moment.                                                 *)
NearbyIsListing == GridList!Spec

(* D-054: to be found within a radius, or not, tells nothing that the label
   does not: of two with one label, both are in or neither, "so the two cannot
   drift apart", although they are two arrays.  But the filter takes in its
   edge and the label does not: who is at the edge exactly is told from the
   others of his label.                                                    *)
RadiusTellsTheLabel ==
  \A u, v \in People :
    /\ InRange(u) /\ ~InRange(v) /\ DistanceOf(v) # Away
    /\ SameBucket(DistanceOf(u), DistanceOf(v))
    => DistanceOf(u) = Radius
=============================================================================
