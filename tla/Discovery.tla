----------------------------- MODULE Discovery -----------------------------
(***************************************************************************)
(* The read paths that show one user to another: a profile, the list of    *)
(* who viewed me (modules/users/users.service.ts), the search of the Grid  *)
(* (modules/grid/grid.service.ts), the photo rule these three call         *)
(* (common/visibility/visibility.service.ts), and the folders of pings     *)
(* (modules/pings/pings.service.ts).  Each is a chain of queries with an   *)
(* await between them, while owners ask, answer, block, lock and hide.     *)
(*                                                                         *)
(* The ping of a pair changes as PairSlot allows, which Pings implements.  *)
(* A settings row that is missing counts as its column defaults in every   *)
(* query here, so ensureSettings changes nothing that a query can tell.    *)
(***************************************************************************)
EXTENDS FiniteSets

CONSTANTS
  Users,
  Viewers,  \* those who call the read paths
  Owners,   \* those who are looked at
  Reqs,     \* read requests in flight at once
  NoUser

ASSUME DiscoveryAssumption == NoUser \notin Users /\ Viewers \cup Owners \subseteq Users

VARIABLES
  slot,      \* the ping of each pair
  blocks,    \* the blocks table: <<blocker, blocked>>
  locked,    \* users.photos_locked
  untraced,  \* those with record_profile_views off
  hidden,    \* those with discoverable off
  located,   \* those with a row in user_locations
  views,     \* the profile_views table: <<viewer, viewed>>
  req,       \* the read requests in flight
  ever       \* history: what held at every moment of each request so far

world == <<slot, blocks, locked, untraced, hidden, located>>

vars == <<world, views, req, ever>>

Slots == INSTANCE PairSlot

Access == {"LOCKED", "BLURRED", "UNLOCKED"}

IdleReq == [op |-> "none", pc |-> "idle", me |-> NoUser, page |-> {},
            open |-> {}, left |-> {}, shut |-> {},
            pair |-> [t \in Users |-> Slots!FreeSlot],
            access |-> [t \in Users |-> "LOCKED"]]

Folders == {"requests", "sent", "chats"}

SlotType == [state : {"FREE", "PENDING", "ACCEPTED", "REJECTED"},
             asker : Users \cup {NoUser}]

ReqType ==
  [op : {"none", "profile", "viewers", "nearby"} \cup Folders,
   pc : {"idle", "blocks", "settings", "list", "origin", "exclude", "search",
         "targets", "related", "trace", "record", "folder", "filter", "answer"},
   me : Viewers \cup {NoUser}, page : SUBSET Users, open : SUBSET Users,
   left : SUBSET {"pairs", "blocks"}, shut : SUBSET Users,
   pair : [Users -> SlotType], access : [Users -> Access]]

EverType == [sealed : SUBSET Users, closed : SUBSET Users, open : SUBSET Users,
             acted : SUBSET Users, silent : BOOLEAN]

NoEver == [sealed |-> {}, closed |-> {}, open |-> {}, acted |-> {},
           silent |-> FALSE]

DiscoveryTypeOK ==
  /\ slot \in [Slots!Pairs -> SlotType]
  /\ blocks \subseteq Users \X Users
  /\ locked \subseteq Users /\ untraced \subseteq Users
  /\ hidden \subseteq Users /\ located \subseteq Users
  /\ views \subseteq Users \X Users
  /\ req \in [Reqs -> ReqType]
  /\ ever \in [Reqs -> EverType]

(* photos_locked starts as the gender says (register), and there may be
   views from earlier: any subset of the owners.                           *)
Init ==
  /\ Slots!Init
  /\ blocks = {} /\ untraced = {} /\ hidden = {} /\ located = {}
  /\ locked \in SUBSET Owners
  /\ \E seen \in SUBSET Owners : views = {v \in seen \X Viewers : v[1] # v[2]}
  /\ req = [r \in Reqs |-> IdleReq]
  /\ ever = [r \in Reqs |-> NoEver]

-----------------------------------------------------------------------------
BlockedEitherWay(a, b) == <<a, b>> \in blocks \/ <<b, a>> \in blocks

BlockedIds(u) == {t \in Users : BlockedEitherWay(u, t)}

(* Rule 1 and rule 2: the owner asked the viewer, or accepted the viewer.  *)
OwnerActed(pair, owner) ==
  pair.state = "ACCEPTED" \/ (pair.state = "PENDING" /\ pair.asker = owner)

(* Mutant: a live ping unlocks whoever sent it.                            *)
EitherActed(pair, owner) == pair.state \in {"PENDING", "ACCEPTED"}

(* Mutant: rule 1 alone, which forgets that a ping back accepts.           *)
OwnerAsked(pair, owner) ==
  pair.state \in {"PENDING", "ACCEPTED"} /\ pair.asker = owner

ownerActionUnlocking(pair, owner) == OwnerActed(pair, owner)

(* Mutant: a profile that is not locked is shown before blocks are tested. *)
DecideOpenFirst(me, t, open, pair, blocked) ==
  CASE t = me \/ open -> "UNLOCKED"
    [] ~(t = me \/ open) /\ blocked -> "LOCKED"
    [] OTHER -> IF ownerActionUnlocking(pair, t) THEN "UNLOCKED" ELSE "BLURRED"

decide(me, t, open, pair, blocked) ==
  CASE t = me -> "UNLOCKED"
    [] t # me /\ blocked -> "LOCKED"
    [] OTHER -> IF open \/ ownerActionUnlocking(pair, t) THEN "UNLOCKED" ELSE "BLURRED"

-----------------------------------------------------------------------------
(* What a moment says about a request of u.                                *)
Moment(op, u) ==
  LET others == Users \ {u}
      shut == BlockedIds(u)
      acted == {t \in others : OwnerActed(slot[{t, u}], t)}
  IN [sealed |-> shut, closed |-> (others \cap locked) \ acted,
      open |-> others \ (locked \cup shut), acted |-> acted \ shut,
      silent |-> op \in {"profile", "viewers"} /\ u \in untraced]

Still(past, present) ==
  [sealed |-> past.sealed \cap present.sealed,
   closed |-> past.closed \cap present.closed,
   open |-> past.open \cap present.open, acted |-> past.acted \cap present.acted,
   silent |-> past.silent /\ present.silent]

Watched ==
  ever' = [r \in Reqs |-> IF req[r].pc = "idle" THEN NoEver
                          ELSE Still(ever[r], Moment(req[r].op, req[r].me)')]

Outside == UNCHANGED <<views, req>> /\ Watched

(* What users do meanwhile; each is one statement, and one that writes what
   is there already is a step that changes nothing.                        *)
Toggle(set, u) == IF u \in set THEN set \ {u} ELSE set \cup {u}

Relate == /\ Slots!Next
          /\ UNCHANGED <<blocks, locked, untraced, hidden, located>> /\ Outside

Block(u, v) == /\ u # v /\ <<u, v>> \notin blocks
               /\ blocks' = blocks \cup {<<u, v>>}
               /\ UNCHANGED <<slot, locked, untraced, hidden, located>> /\ Outside

Unblock(u, v) == /\ <<u, v>> \in blocks
                 /\ blocks' = blocks \ {<<u, v>>}
                 /\ UNCHANGED <<slot, locked, untraced, hidden, located>> /\ Outside

(* updateMySettings writes users first and user_settings next, and an
   instance that dies between the two has written one.  No query reads two
   of the three columns, so each has an action of its own.                 *)
SetPhotosLocked(u) == /\ locked' = Toggle(locked, u)
                      /\ UNCHANGED <<slot, blocks, untraced, hidden, located>> /\ Outside

SetRecordProfileViews(u) == /\ untraced' = Toggle(untraced, u)
                            /\ UNCHANGED <<slot, blocks, locked, hidden, located>> /\ Outside

SetDiscoverable(u) == /\ hidden' = Toggle(hidden, u)
                      /\ UNCHANGED <<slot, blocks, locked, untraced, located>> /\ Outside

(* The debounce decides whether the upsert runs: a first report always does. *)
UpdateLocation(u) == /\ u \notin located
                     /\ located' = located \cup {u}
                     /\ UNCHANGED <<slot, blocks, locked, untraced, hidden>> /\ Outside

DeleteLocation(u) == /\ u \in located
                     /\ located' = located \ {u}
                     /\ UNCHANGED <<slot, blocks, locked, untraced, hidden>> /\ Outside

-----------------------------------------------------------------------------
Goto(r, pc) == req' = [req EXCEPT ![r].pc = pc]

End(r) == /\ req' = [req EXCEPT ![r] = IdleReq]
          /\ ever' = [ever EXCEPT ![r] = NoEver]

Start(r, op, u, page, pc) ==
  /\ req[r].pc = "idle"
  /\ req' = [req EXCEPT ![r] = [IdleReq EXCEPT !.op = op, !.pc = pc, !.me = u, !.page = page]]
  /\ ever' = [ever EXCEPT ![r] = Moment(op, u)]
  /\ UNCHANGED <<world, views>>

OpenProfile(r, u, v) == Start(r, "profile", u, {v}, "blocks")

OpenViewers(r, u) == Start(r, "viewers", u, {}, "settings")

OpenNearby(r, u) == Start(r, "nearby", u, {}, "origin")

OpenFolder(r, u, folder) == Start(r, folder, u, {}, "folder")

(* A step of the handler that either goes on to pc or answers.             *)
Branch(r, pc, goesOn) ==
  /\ \/ goesOn /\ Goto(r, pc) /\ UNCHANGED ever
     \/ ~goesOn /\ End(r)
  /\ UNCHANGED <<world, views>>

CheckBlocks(r) ==
  /\ req[r].pc = "blocks"
  /\ Branch(r, "targets", \A t \in req[r].page : ~BlockedEitherWay(req[r].me, t))

(* getMyViewers: the symmetry rule, then the rows.                         *)
CheckRecording(r) ==
  req[r].pc = "settings" /\ Branch(r, "list", req[r].me \notin untraced)

(* A page to go on with, unless it is empty.                               *)
Page(r, page, pc) ==
  /\ \/ /\ page # {}
        /\ req' = [req EXCEPT ![r].page = page, ![r].pc = pc, ![r].shut = {}]
        /\ UNCHANGED ever
     \/ page = {} /\ End(r)
  /\ UNCHANGED <<world, views>>

ListViews(r) ==
  req[r].pc = "list" /\ Page(r, {t \in Users : <<t, req[r].me>> \in views}, "targets")

(* listRequests, listSent, listChats: the rows, then the blocks among them. *)
InFolder(folder, pair, me) ==
  CASE folder = "requests" -> pair.state = "PENDING" /\ pair.asker # me
    [] folder = "sent" -> pair.state = "PENDING" /\ pair.asker = me
    [] folder = "chats" -> pair.state = "ACCEPTED"

ReadFolder(r) ==
  /\ req[r].pc = "folder"
  /\ Page(r, {t \in Users \ {req[r].me} :
                InFolder(req[r].op, slot[{t, req[r].me}], req[r].me)}, "filter")

(* Mutant: a block counts for the one who made it.                         *)
FilterOwnBlocks(r) ==
  /\ req[r].pc = "filter"
  /\ Page(r, {t \in req[r].page : <<req[r].me, t>> \notin blocks}, "answer")

FilterBlocked(r) ==
  req[r].pc = "filter" /\ Page(r, req[r].page \ BlockedIds(req[r].me), "answer")

(* nearby: the caller's own position must exist, and is read again by the
   search; the blocks are read before it, as a list of ids.                *)
RequireOrigin(r) == req[r].pc = "origin" /\ Branch(r, "exclude", req[r].me \in located)

BlockedIdsFor(r) ==
  /\ req[r].pc = "exclude"
  /\ req' = [req EXCEPT ![r].shut = BlockedIds(req[r].me), ![r].pc = "search"]
  /\ UNCHANGED <<world, views, ever>>

Findable(r) == located \ (hidden \cup req[r].shut \cup {req[r].me})

(* Who of them is near, of the right age, on this page: any of them.       *)
Search(r) ==
  /\ req[r].pc = "search"
  /\ \E page \in SUBSET Findable(r) :
       Page(r, IF req[r].me \in located THEN page ELSE {}, "targets")

-----------------------------------------------------------------------------
(* resolveMany: the targets, then the pings and the blocks in either order,
   then the decisions, in the turn in which the later one arrives.         *)
AfterDecision(op) == IF op = "profile" THEN "trace" ELSE "answer"

Decided(q) ==
  [q EXCEPT !.pc = AfterDecision(q.op), !.open = {}, !.shut = {},
            !.pair = IdleReq.pair,
            !.access = [t \in Users |->
                          IF t \in q.page
                          THEN decide(q.me, t, t \in q.open, q.pair[t], t \in q.shut)
                          ELSE "LOCKED"]]

Resolve(r, q) ==
  /\ req' = [req EXCEPT ![r] = IF q.left = {} THEN Decided(q) ELSE q]
  /\ UNCHANGED <<world, views, ever>>

ReadTargets(r) ==
  /\ req[r].pc = "targets"
  /\ Resolve(r, [req[r] EXCEPT !.pc = "related", !.open = @ \cup (req[r].page \ locked),
                               !.left = IF req[r].page \subseteq {req[r].me} THEN {}
                                        ELSE {"pairs", "blocks"}])

LoadPairs(r) ==
  /\ "pairs" \in req[r].left
  /\ Resolve(r, [req[r] EXCEPT !.left = @ \ {"pairs"},
                               !.pair = [t \in Users |->
                                  IF t \in req[r].page \ {req[r].me}
                                  THEN slot[{t, req[r].me}] ELSE Slots!FreeSlot]])

BlockedIdsAmong(r) ==
  /\ "blocks" \in req[r].left
  /\ Resolve(r, [req[r] EXCEPT !.left = @ \ {"blocks"},
                               !.shut = req[r].page \cap BlockedIds(req[r].me)])

(* Mutant: the viewer's setting is not asked for.                          *)
TracedAlways(r) == req[r].me \notin req[r].page

(* recordView: nobody views himself, and who browses without a trace       *)
(* leaves none.                                                            *)
Traced(r) == req[r].me \notin req[r].page \cup untraced

CheckTrace(r) == req[r].pc = "trace" /\ Branch(r, "record", Traced(r))

(* Mutant: the row is written with what is left after the reply.           *)
RecordViewLate(r) ==
  /\ req[r].pc = "record"
  /\ End(r)
  /\ views' = views \cup {<<req'[r].me, t>> : t \in req[r].page}
  /\ UNCHANGED world

RecordView(r) ==
  /\ req[r].pc = "record"
  /\ views' = views \cup {<<req[r].me, t>> : t \in req[r].page}
  /\ End(r) /\ UNCHANGED world

Answer(r) == req[r].pc = "answer" /\ End(r) /\ UNCHANGED <<world, views>>

Handle(r) ==
  \/ CheckBlocks(r) \/ CheckRecording(r) \/ ListViews(r)
  \/ RequireOrigin(r) \/ BlockedIdsFor(r) \/ Search(r)
  \/ ReadFolder(r) \/ FilterBlocked(r)
  \/ ReadTargets(r) \/ LoadPairs(r) \/ BlockedIdsAmong(r)
  \/ CheckTrace(r) \/ RecordView(r) \/ Answer(r)

Next ==
  \/ Relate
  \/ \E u, v \in Users : Block(u, v) \/ Unblock(u, v)
  \/ \E u \in Owners : SetPhotosLocked(u) \/ SetDiscoverable(u)
  \/ \E u \in Viewers : SetRecordProfileViews(u)
  \/ \E u \in Users : UpdateLocation(u) \/ DeleteLocation(u)
  \/ \E r \in Reqs, u \in Viewers : OpenViewers(r, u) \/ OpenNearby(r, u)
  \/ \E r \in Reqs, u \in Viewers, v \in Users : OpenProfile(r, u, v)
  \/ \E r \in Reqs, u \in Viewers, folder \in Folders : OpenFolder(r, u, folder)
  \/ \E r \in Reqs : Handle(r)

Spec == Init /\ [][Next]_vars

-----------------------------------------------------------------------------
Resolved(r) == req[r].pc \in {"trace", "record", "answer"} /\ req[r].op \notin Folders

(* A real photo is shown to another user only if, at some moment of the read,
   its owner had opened it by an act of his own: the lock off, a ping sent, a
   ping accepted.  The lock and the ping are read at two moments.          *)
UnlockIsOwners ==
  \A r \in Reqs : Resolved(r) =>
    \A t \in req[r].page \ {req[r].me} : req[r].access[t] = "UNLOCKED" => t \notin ever[r].closed

(* While a pair is blocked, from before the read to its end, no photo is
   shown, no profile, no place in the Grid and no ping in a folder, and no
   view is recorded.                                                       *)
BlockedSeesNothing ==
  \A r \in Reqs : LET seen == req[r].page \cap ever[r].sealed IN
    /\ Resolved(r) => \A t \in seen : req[r].access[t] = "LOCKED"
    /\ req[r].op = "profile" /\ req[r].pc # "blocks" => seen = {}
    /\ req[r].op = "nearby" => seen = {}
    /\ req[r].op \in Folders /\ req[r].pc = "answer" => seen = {}

(* The other direction, where a fault "would never be noticed as a bug": who
   opened his photos before the read, and left them open by the same act to
   its end, is shown unblurred.                                            *)
WelcomeIsShown ==
  \A r \in Reqs : Resolved(r) =>
    \A t \in req[r].page \cap (ever[r].open \cup ever[r].acted) : req[r].access[t] = "UNLOCKED"

(* Who browsed without a trace all along leaves none, and is not told who
   looked at him.                                                          *)
TraceIsMutual ==
  \A r \in Reqs : ever[r].silent =>
    /\ req[r].pc # "record"
    /\ req[r].op = "viewers" => req[r].pc = "settings"

(* pings.controller.ts: "the pair becomes mutually invisible regardless of who
   blocked whom"; blocks.module.ts: "EVERY surface".  The list of viewers too. *)
BlockedAreNotListed ==
  \A r \in Reqs : req[r].op = "viewers" /\ req[r].pc = "answer" =>
    req[r].page \cap ever[r].sealed = {}
=============================================================================
