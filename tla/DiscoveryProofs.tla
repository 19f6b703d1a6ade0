-------------------------- MODULE DiscoveryProofs --------------------------
(***************************************************************************)
(* Proofs about Discovery, for any users and any reads in flight: whatever *)
(* owners do between two queries of a read, what it shows is right.        *)
(***************************************************************************)
EXTENDS Discovery, TLAPS

-----------------------------------------------------------------------------
(* What held at every moment so far holds now.  A moment is of the world;  *)
(* everything else below is of the request and its history alone, and only *)
(* the steps of the request itself, or a history that shrinks, touch it.   *)

Below(past, present) ==
  /\ past.sealed \subseteq present.sealed /\ past.closed \subseteq present.closed
  /\ past.open \subseteq present.open /\ past.acted \subseteq present.acted
  /\ past.silent => present.silent

Current(r) == Below(ever[r], Moment(req[r].op, req[r].me))

(* Which operation a request at pc is of, and what it cannot hold yet.     *)
Place(q) ==
  /\ q.pc = "blocks" => q.op = "profile"
  /\ q.pc \in {"settings", "list"} => q.op = "viewers"
  /\ q.pc \in {"origin", "exclude", "search"} => q.op = "nearby"
  /\ q.pc \in {"folder", "filter"} => q.op \in Folders
  /\ q.pc \in {"targets", "related"} => q.op \in {"profile", "viewers", "nearby"}
  /\ q.pc \in {"trace", "record"} => q.op = "profile"
  /\ q.pc # "idle" => q.me \in Viewers

Blank(q) ==
  /\ q.left # {} => q.pc = "related"
  /\ q.pc \notin {"related", "trace", "record", "answer"} =>
       q.open = {} /\ q.pair = IdleReq.pair
  /\ q.pc \in {"blocks", "targets"} => q.shut = {}

(* The page holds nobody who was blocked all along.                        *)
Found(q, e) ==
  /\ q.op = "profile" /\ q.pc # "blocks" => q.page \cap e.sealed = {}
  /\ q.op = "nearby" => q.page \cap e.sealed = {}
  /\ q.pc = "search" => e.sealed \subseteq q.shut
  /\ q.op \in Folders /\ q.pc = "answer" => q.page \cap e.sealed = {}

Untold(q, e) ==
  e.silent => q.pc # "record" /\ (q.op = "viewers" => q.pc = "settings")

(* What resolveMany has read so far agrees with the history.               *)
Seen(q, e) ==
  /\ q.open \cap e.closed = {} /\ q.page \cap e.open \subseteq q.open
  /\ \A t \in q.page \ {q.me} : OwnerActed(q.pair[t], t) => t \notin e.closed
  /\ "pairs" \notin q.left => \A t \in q.page \cap e.acted : OwnerActed(q.pair[t], t)
  /\ "blocks" \notin q.left => q.page \cap e.sealed \subseteq q.shut
  /\ q.shut \cap (e.open \cup e.acted) = {}

Shown(q, e) ==
  /\ \A t \in q.page \ {q.me} : q.access[t] = "UNLOCKED" => t \notin e.closed
  /\ \A t \in q.page \cap e.sealed : q.access[t] = "LOCKED"
  /\ \A t \in q.page \cap (e.open \cup e.acted) : q.access[t] = "UNLOCKED"

IsResolved(q) == q.pc \in {"trace", "record", "answer"} /\ q.op \notin Folders

Facts(q, e) ==
  /\ Place(q) /\ Blank(q) /\ Found(q, e) /\ Untold(q, e)
  /\ q.pc = "related" => Seen(q, e)
  /\ IsResolved(q) => Shown(q, e)

NoSelfBlock == \A u \in Users : <<u, u>> \notin blocks

DiscoveryInv ==
  /\ DiscoveryTypeOK
  /\ NoSelfBlock
  /\ \A r \in Reqs : Current(r) /\ Facts(req[r], ever[r])

-----------------------------------------------------------------------------
(* The data                                                                *)

LEMMA PairOfTwo ==
  ASSUME NEW t \in Users, NEW u \in Users, t # u
  PROVE  {t, u} \in Slots!Pairs
BY DEF Slots!Pairs

LEMMA IdleFacts ==
  /\ IdleReq \in ReqType /\ NoEver \in EverType
  /\ IdleReq.pc = "idle" /\ IdleReq.op = "none" /\ IdleReq.me = NoUser /\ IdleReq.left = {}
  /\ IdleReq.open = {} /\ IdleReq.shut = {} /\ IdleReq.page = {}
  /\ \A t \in Users : IdleReq.pair[t] = Slots!FreeSlot
BY DEF IdleReq, NoEver, ReqType, EverType, SlotType, Access, Slots!FreeSlot

LEMMA FreeIsNotActed ==
  ASSUME NEW t \in Users
  PROVE  ~OwnerActed(Slots!FreeSlot, t)
BY DEF OwnerActed, Slots!FreeSlot

LEMMA MomentType ==
  ASSUME DiscoveryTypeOK, NEW op, NEW u
  PROVE  Moment(op, u) \in EverType
BY DEF DiscoveryTypeOK, Moment, EverType, BlockedIds

LEMMA MomentPrimeType ==
  ASSUME blocks' \subseteq Users \X Users, locked' \subseteq Users, NEW op, NEW u
  PROVE  Moment(op, u)' \in EverType
BY DEF Moment, EverType, BlockedIds

(* Facts survive a history that shrinks.                                   *)
LEMMA LessHistory ==
  ASSUME NEW q \in ReqType, NEW e \in EverType, NEW d \in EverType, Below(d, e), Facts(q, e)
  PROVE  Facts(q, d)
<1>1. /\ d.sealed \subseteq e.sealed /\ d.closed \subseteq e.closed
      /\ d.open \subseteq e.open /\ d.acted \subseteq e.acted
  BY DEF Below
<1>2. Found(q, d)
  BY <1>1 DEF Facts, Found
<1>3. Untold(q, d)
  BY DEF Facts, Untold, Below
<1>4. Seen(q, e) => Seen(q, d)
  BY <1>1 DEF Seen
<1>5. Shown(q, e) => Shown(q, d)
  BY <1>1 DEF Shown
<1> QED
  BY <1>2, <1>3, <1>4, <1>5 DEF Facts

LEMMA StillBelow ==
  ASSUME NEW e \in EverType, NEW m \in EverType
  PROVE  Still(e, m) \in EverType /\ Below(Still(e, m), e) /\ Below(Still(e, m), m)
<1>1. Still(e, m) \in EverType
  BY DEF Still, EverType
<1>2. /\ Still(e, m).sealed = e.sealed \cap m.sealed
      /\ Still(e, m).closed = e.closed \cap m.closed
      /\ Still(e, m).open = e.open \cap m.open /\ Still(e, m).acted = e.acted \cap m.acted
  BY DEF Still
<1>3. Still(e, m).silent = (e.silent /\ m.silent)
  BY DEF Still
<1> HIDE DEF Still
<1>4. e.silent \in BOOLEAN /\ m.silent \in BOOLEAN
  BY DEF EverType
<1>5. (Still(e, m).silent => e.silent) /\ (Still(e, m).silent => m.silent)
  BY <1>3, <1>4, Zenon
<1> QED
  BY <1>1, <1>2, <1>5, Zenon DEF Below

LEMMA NoneBelow ==
  ASSUME NEW e
  PROVE  Below(NoEver, e)
<1>1. /\ NoEver.sealed = {} /\ NoEver.closed = {} /\ NoEver.open = {} /\ NoEver.acted = {}
      /\ NoEver.silent = FALSE
  BY DEF NoEver
<1> HIDE DEF NoEver
<1> QED
  BY <1>1, Zenon DEF Below

-----------------------------------------------------------------------------
(* What users do meanwhile: the requests stand still, and their histories   *)
(* shrink to what holds now.                                               *)

WorldType ==
  /\ slot \in [Slots!Pairs -> SlotType]
  /\ blocks \subseteq Users \X Users
  /\ locked \subseteq Users /\ untraced \subseteq Users
  /\ hidden \subseteq Users /\ located \subseteq Users

LEMMA OutsideKeeps ==
  ASSUME DiscoveryInv, Outside, WorldType', NoSelfBlock'
  PROVE  DiscoveryInv'
<1>0. /\ req \in [Reqs -> ReqType] /\ ever \in [Reqs -> EverType]
      /\ UNCHANGED <<views, req>> /\ views \subseteq Users \X Users
  BY DEF DiscoveryInv, DiscoveryTypeOK, Outside
<1>1. ASSUME NEW r \in Reqs
      PROVE  ever'[r] \in EverType /\ Current(r)' /\ Facts(req[r], ever[r])'
  <2> DEFINE m == Moment(req[r].op, req[r].me)'
  <2>1. /\ req[r] \in ReqType /\ ever[r] \in EverType /\ Facts(req[r], ever[r])
        /\ req'[r] = req[r]
    BY <1>0 DEF DiscoveryInv
  <2>2. m \in EverType
    BY MomentPrimeType DEF WorldType
  <2>3. ever'[r] = IF req[r].pc = "idle" THEN NoEver ELSE Still(ever[r], m)
    BY DEF Outside, Watched
  <2>4. Current(r)' <=> Below(ever'[r], m)
    BY DEF Current
  <2> HIDE DEF m
  <2>5. ever'[r] \in EverType /\ Below(ever'[r], ever[r]) /\ Below(ever'[r], m)
    <3>1. CASE req[r].pc = "idle"
      BY <2>3, <3>1, NoneBelow, IdleFacts
    <3>2. CASE req[r].pc # "idle"
      BY <2>1, <2>2, <2>3, <3>2, StillBelow
    <3> QED
      BY <3>1, <3>2
  <2>6. Facts(req[r], ever'[r])
    BY <2>1, <2>5, LessHistory
  <2> QED
    BY <2>1, <2>4, <2>5, <2>6
<1>2. ever' \in [Reqs -> EverType]
  <2>1. ever' = [r \in Reqs |-> ever'[r]]
    BY DEF Outside, Watched
  <2> QED
    BY <1>1, <2>1
<1> QED
  BY <1>0, <1>1, <1>2 DEF DiscoveryInv, DiscoveryTypeOK, WorldType

LEMMA SlotSteps ==
  ASSUME slot \in [Slots!Pairs -> SlotType], Slots!Next
  PROVE  slot' \in [Slots!Pairs -> SlotType]
<1>1. PICK pair \in Slots!Pairs : Slots!Ask(pair) \/ Slots!Decide(pair) \/ Slots!GiveBack(pair)
  BY DEF Slots!Next
<1>2. pair \subseteq Users
  BY DEF Slots!Pairs
<1>3. CASE Slots!Ask(pair)
  <2>1. PICK a \in pair : slot' = [slot EXCEPT ![pair] = [state |-> "PENDING", asker |-> a]]
    BY <1>3 DEF Slots!Ask
  <2>2. [state |-> "PENDING", asker |-> a] \in SlotType
    BY <1>2 DEF SlotType
  <2> QED
    BY <2>1, <2>2
<1>4. CASE Slots!Decide(pair)
  <2>1. PICK state \in {"ACCEPTED", "REJECTED"} :
          slot' = [slot EXCEPT ![pair] = [slot[pair] EXCEPT !.state = state]]
    BY <1>4 DEF Slots!Decide
  <2>2. slot[pair] \in SlotType
    OBVIOUS
  <2>3. [slot[pair] EXCEPT !.state = state] \in SlotType
    BY <2>2 DEF SlotType
  <2> QED
    BY <2>1, <2>3
<1>5. CASE Slots!GiveBack(pair)
  <2>1. Slots!FreeSlot \in SlotType
    BY DEF Slots!FreeSlot, SlotType
  <2> QED
    BY <1>5, <2>1 DEF Slots!GiveBack
<1> QED
  BY <1>1, <1>3, <1>4, <1>5

LEMMA WorldSteps ==
  ASSUME DiscoveryInv,
         \/ Relate
         \/ \E u, v \in Users : Block(u, v) \/ Unblock(u, v)
         \/ \E u \in Users : SetPhotosLocked(u) \/ SetDiscoverable(u) \/ SetRecordProfileViews(u)
                             \/ UpdateLocation(u) \/ DeleteLocation(u)
  PROVE  DiscoveryInv'
<1>0. WorldType /\ NoSelfBlock
  BY DEF DiscoveryInv, DiscoveryTypeOK, WorldType
<1>1. CASE Relate
  <2>1. slot' \in [Slots!Pairs -> SlotType] /\ UNCHANGED <<blocks, locked, untraced, hidden, located>>
    BY <1>0, <1>1, SlotSteps DEF Relate, WorldType
  <2>2. WorldType' /\ NoSelfBlock'
    BY <1>0, <2>1 DEF WorldType, NoSelfBlock
  <2> QED
    BY <1>1, <2>2, OutsideKeeps DEF Relate
<1>2. ASSUME NEW u \in Users, NEW v \in Users, Block(u, v) \/ Unblock(u, v)
      PROVE  DiscoveryInv'
  <2>1. WorldType' /\ NoSelfBlock'
    BY <1>0, <1>2 DEF Block, Unblock, WorldType, NoSelfBlock
  <2> QED
    BY <1>2, <2>1, OutsideKeeps DEF Block, Unblock
<1>3. ASSUME NEW u \in Users,
             SetPhotosLocked(u) \/ SetDiscoverable(u) \/ SetRecordProfileViews(u)
             \/ UpdateLocation(u) \/ DeleteLocation(u)
      PROVE  DiscoveryInv'
  <2>1. WorldType' /\ NoSelfBlock'
    BY <1>0, <1>3 DEF SetPhotosLocked, SetDiscoverable, SetRecordProfileViews, UpdateLocation,
       DeleteLocation, Toggle, WorldType, NoSelfBlock
  <2> QED
    BY <1>3, <2>1, OutsideKeeps DEF SetPhotosLocked, SetDiscoverable, SetRecordProfileViews,
       UpdateLocation, DeleteLocation
<1> QED
  BY <1>1, <1>2, <1>3

-----------------------------------------------------------------------------
(* The steps of a request                                                  *)

(* The request becomes x and goes on.                                      *)
LEMMA GoesOn ==
  ASSUME DiscoveryInv, NEW r \in Reqs, NEW x \in ReqType,
         req' = [req EXCEPT ![r] = x], x.op = req[r].op, x.me = req[r].me,
         UNCHANGED <<world, views, ever>>, Facts(x, ever[r])
  PROVE  DiscoveryInv'
<1>1. /\ req' \in [Reqs -> ReqType] /\ req'[r] = x
      /\ \A s \in Reqs \ {r} : req'[s] = req[s]
  BY DEF DiscoveryInv, DiscoveryTypeOK
<1>2. UNCHANGED <<slot, blocks, locked, untraced, hidden, located, views, ever>>
  BY DEF world
<1>3. DiscoveryTypeOK' /\ NoSelfBlock'
  BY <1>1, <1>2 DEF DiscoveryInv, DiscoveryTypeOK, NoSelfBlock
<1>4. ASSUME NEW s \in Reqs PROVE Current(s)' /\ Facts(req[s], ever[s])'
  <2>1. Moment(req[s].op, req[s].me)' = Moment(req[s].op, req[s].me)
    BY <1>1, <1>2 DEF Moment, BlockedIds, BlockedEitherWay
  <2>2. Current(s)'
    BY <1>2, <2>1 DEF Current, DiscoveryInv
  <2>3. Facts(req'[s], ever'[s])
    BY <1>1, <1>2 DEF DiscoveryInv
  <2> QED
    BY <2>2, <2>3
<1> QED
  BY <1>3, <1>4 DEF DiscoveryInv

(* The request ends, or begins.                                            *)
LEMMA EmptyFacts == Facts(IdleReq, NoEver)
BY IdleFacts DEF Facts, Place, Blank, Found, Untold, NoEver, IsResolved, Folders

LEMMA Turns ==
  ASSUME DiscoveryInv, NEW r \in Reqs, NEW x \in ReqType, NEW e \in EverType,
         req' = [req EXCEPT ![r] = x], ever' = [ever EXCEPT ![r] = e],
         UNCHANGED world, views' \subseteq Users \X Users,
         Facts(x, e), Below(e, Moment(x.op, x.me))
  PROVE  DiscoveryInv'
<1>1. /\ req' \in [Reqs -> ReqType] /\ req'[r] = x
      /\ \A s \in Reqs \ {r} : req'[s] = req[s]
      /\ ever' \in [Reqs -> EverType] /\ ever'[r] = e
      /\ \A s \in Reqs \ {r} : ever'[s] = ever[s]
  BY DEF DiscoveryInv, DiscoveryTypeOK
<1>2. UNCHANGED <<slot, blocks, locked, untraced, hidden, located>>
  BY DEF world
<1>3. DiscoveryTypeOK' /\ NoSelfBlock'
  BY <1>1, <1>2 DEF DiscoveryInv, DiscoveryTypeOK, NoSelfBlock
<1>4. ASSUME NEW s \in Reqs PROVE Current(s)' /\ Facts(req[s], ever[s])'
  <2>1. Moment(req[s].op, req[s].me)' = Moment(req'[s].op, req'[s].me)
    BY <1>2 DEF Moment, BlockedIds, BlockedEitherWay
  <2>2. Below(ever'[s], Moment(req'[s].op, req'[s].me))
    BY <1>1 DEF DiscoveryInv, Current
  <2>3. Current(s)'
    BY <2>1, <2>2 DEF Current
  <2>4. Facts(req'[s], ever'[s])
    BY <1>1 DEF DiscoveryInv
  <2> QED
    BY <2>3, <2>4
<1> QED
  BY <1>3, <1>4 DEF DiscoveryInv

LEMMA Ends ==
  ASSUME DiscoveryInv, NEW r \in Reqs, End(r), UNCHANGED world, views' \subseteq Users \X Users
  PROVE  DiscoveryInv'
BY Turns, IdleFacts, EmptyFacts, NoneBelow DEF End

LEMMA Begins ==
  ASSUME DiscoveryInv, NEW r \in Reqs, NEW op \in {"profile", "viewers", "nearby"} \cup Folders,
         NEW u \in Viewers, NEW page \in SUBSET Users,
         NEW pc \in {"blocks", "settings", "origin", "folder"}, Start(r, op, u, page, pc),
         op = "profile" <=> pc = "blocks", op = "viewers" <=> pc = "settings",
         op = "nearby" <=> pc = "origin", op \in Folders <=> pc = "folder",
         pc # "blocks" => page = {}
  PROVE  DiscoveryInv'
<1> DEFINE x == [IdleReq EXCEPT !.op = op, !.pc = pc, !.me = u, !.page = page]
<1>1. /\ x \in ReqType /\ x.op = op /\ x.pc = pc /\ x.me = u /\ x.page = page
      /\ x.left = {} /\ x.open = {} /\ x.shut = {} /\ x.pair = IdleReq.pair
  BY IdleFacts DEF ReqType, IdleReq
<1>2. /\ req' = [req EXCEPT ![r] = x] /\ ever' = [ever EXCEPT ![r] = Moment(op, u)]
      /\ UNCHANGED <<world, views>>
  BY DEF Start
<1> HIDE DEF x
<1>3. Moment(op, u) \in EverType
  BY MomentType DEF DiscoveryInv
<1>4. Below(Moment(op, u), Moment(op, u))
  BY Zenon DEF Below
<1>5. Place(x) /\ Blank(x) /\ Found(x, Moment(op, u)) /\ ~IsResolved(x) /\ x.pc # "related"
  BY <1>1 DEF Place, Blank, Found, IsResolved, Folders
<1>6. Untold(x, Moment(op, u))
  BY <1>1 DEF Untold
<1>7. Facts(x, Moment(op, u))
  BY <1>5, <1>6 DEF Facts
<1> QED
  BY <1>1, <1>2, <1>3, <1>4, <1>7, Turns DEF DiscoveryInv, DiscoveryTypeOK

-----------------------------------------------------------------------------
(* resolveMany: when both queries are in, the decisions agree with what was *)
(* read, and what was read with the history.                               *)

LEMMA Decides ==
  ASSUME NEW x \in ReqType, NEW e \in EverType, Seen(x, e), x.left = {},
         x.me \notin e.sealed, x.me \notin e.open, x.me \notin e.acted
  PROVE  Shown(Decided(x), e)
<1>1. /\ Decided(x).page = x.page /\ Decided(x).me = x.me
      /\ Decided(x).access = [t \in Users |->
                                IF t \in x.page
                                THEN decide(x.me, t, t \in x.open, x.pair[t], t \in x.shut)
                                ELSE "LOCKED"]
  BY DEF Decided, ReqType
<1>2. x.page \subseteq Users
  BY DEF ReqType
<1>3. \A t \in x.page :
        Decided(x).access[t] = decide(x.me, t, t \in x.open, x.pair[t], t \in x.shut)
  BY <1>1, <1>2
<1>4. ASSUME NEW t \in x.page, t # x.me
      PROVE  /\ Decided(x).access[t] = "UNLOCKED" => t \notin e.closed
             /\ t \in e.sealed => Decided(x).access[t] = "LOCKED"
             /\ t \in e.open \cup e.acted => Decided(x).access[t] = "UNLOCKED"
  <2>1. CASE t \in x.shut
    <3>1. decide(x.me, t, t \in x.open, x.pair[t], t \in x.shut) = "LOCKED"
      BY <1>4, <2>1 DEF decide
    <3> QED
      BY <1>3, <2>1, <3>1 DEF Seen
  <2>2. CASE t \notin x.shut
    <3>1. decide(x.me, t, t \in x.open, x.pair[t], t \in x.shut)
            = IF t \in x.open \/ OwnerActed(x.pair[t], t) THEN "UNLOCKED" ELSE "BLURRED"
      BY <1>4, <2>2 DEF decide, ownerActionUnlocking
    <3>2. /\ t \notin e.sealed
          /\ t \in x.open \/ OwnerActed(x.pair[t], t) => t \notin e.closed
          /\ t \in e.open \cup e.acted => t \in x.open \/ OwnerActed(x.pair[t], t)
      BY <1>4, <2>2 DEF Seen
    <3> QED
      BY <1>3, <3>1, <3>2
  <2> QED
    BY <2>1, <2>2
<1> QED
  BY <1>1, <1>4 DEF Shown

LEMMA DecidedType ==
  ASSUME NEW x \in ReqType, x.op \in {"profile", "viewers", "nearby"}, x.left = {}
  PROVE  /\ Decided(x) \in ReqType
         /\ Decided(x).op = x.op /\ Decided(x).me = x.me /\ Decided(x).page = x.page
         /\ Decided(x).left = {}
         /\ Decided(x).pc = AfterDecision(x.op)
<1>1. \A t \in Users : decide(x.me, t, t \in x.open, x.pair[t], t \in x.shut) \in Access
  BY DEF decide, Access
<1>2. [t \in Users |-> IF t \in x.page
                      THEN decide(x.me, t, t \in x.open, x.pair[t], t \in x.shut)
                      ELSE "LOCKED"] \in [Users -> Access]
  BY <1>1 DEF Access
<1>3. IdleReq.pair \in [Users -> SlotType]
  BY DEF IdleReq, SlotType, Slots!FreeSlot
<1>4. AfterDecision(x.op) \in {"trace", "answer"}
  BY DEF AfterDecision
<1> QED
  BY <1>2, <1>3, <1>4 DEF Decided, ReqType

(* Who reads is among nobody that the history tells of.                    *)
LEMMA NotOfHimself ==
  ASSUME DiscoveryInv, NEW r \in Reqs, req[r].me \in Users
  PROVE  /\ req[r].me \notin ever[r].sealed /\ req[r].me \notin ever[r].open
         /\ req[r].me \notin ever[r].acted /\ req[r].me \notin ever[r].closed
BY DEF DiscoveryInv, NoSelfBlock, Current, Below, Moment, BlockedIds, BlockedEitherWay

LEMMA Resolves ==
  ASSUME DiscoveryInv, NEW r \in Reqs, NEW x \in ReqType, Resolve(r, x),
         x.op = req[r].op, x.me = req[r].me, x.page = req[r].page,
         req[r].pc \in {"targets", "related"}, x.pc = "related",
         Seen(x, ever[r])
  PROVE  DiscoveryInv'
<1>0. /\ Facts(req[r], ever[r]) /\ ever[r] \in EverType
      /\ x.op \notin Folders /\ x.op \in {"profile", "viewers", "nearby"}
      /\ x.me \in Viewers /\ x.me \in Users
  BY DiscoveryAssumption DEF DiscoveryInv, DiscoveryTypeOK, Facts, Place, Folders
<1>1. Found(x, ever[r]) /\ Untold(x, ever[r])
  BY <1>0 DEF Facts, Found, Untold, Folders
<1>2. CASE x.left # {}
  <2>1. Place(x) /\ Blank(x) /\ ~IsResolved(x)
    BY <1>0, <1>2 DEF Place, Blank, IsResolved
  <2>2. Facts(x, ever[r])
    BY <1>1, <2>1 DEF Facts
  <2> QED
    BY <1>2, <2>2, GoesOn DEF Resolve
<1>3. CASE x.left = {}
  <2> DEFINE d == Decided(x)
  <2>1. /\ d \in ReqType /\ d.op = x.op /\ d.me = x.me /\ d.page = x.page /\ d.left = {}
        /\ d.pc = IF x.op = "profile" THEN "trace" ELSE "answer"
    BY <1>0, <1>3, DecidedType DEF AfterDecision
  <2>2. Shown(d, ever[r])
    BY <1>0, <1>3, NotOfHimself, Decides
  <2>3. req' = [req EXCEPT ![r] = d] /\ UNCHANGED <<world, views, ever>>
    BY <1>3 DEF Resolve
  <2> HIDE DEF d
  <2>4. Place(d) /\ Blank(d)
    BY <1>0, <2>1 DEF Place, Blank, Folders
  <2>5. Found(d, ever[r])
    BY <1>0, <1>1, <2>1 DEF Found
  <2>6. Untold(d, ever[r])
    BY <1>1, <2>1 DEF Untold
  <2>7. Facts(d, ever[r])
    BY <2>1, <2>2, <2>4, <2>5, <2>6 DEF Facts
  <2> QED
    BY <2>1, <2>3, <2>7, GoesOn
<1> QED
  BY <1>2, <1>3

-----------------------------------------------------------------------------
(* One lemma per kind of step                                              *)

LEMMA Branches ==
  ASSUME DiscoveryInv, NEW r \in Reqs, NEW pc \in {"targets", "list", "exclude", "record"},
         NEW goesOn \in BOOLEAN, Branch(r, pc, goesOn),
         goesOn => Facts([req[r] EXCEPT !.pc = pc], ever[r])
  PROVE  DiscoveryInv'
<1> DEFINE x == [req[r] EXCEPT !.pc = pc]
<1>0. /\ req[r] \in ReqType /\ req \in [Reqs -> ReqType] /\ views \subseteq Users \X Users
  BY DEF DiscoveryInv, DiscoveryTypeOK
<1>1. x \in ReqType /\ x.op = req[r].op /\ x.me = req[r].me
  BY <1>0 DEF ReqType
<1>2. CASE goesOn /\ Goto(r, pc) /\ UNCHANGED <<ever, world, views>>
  <2>1. req' = [req EXCEPT ![r] = x]
    BY <1>0, <1>2 DEF Goto
  <2> HIDE DEF x
  <2> QED
    BY <1>1, <1>2, <2>1, GoesOn DEF x
<1>3. CASE End(r) /\ UNCHANGED <<world, views>>
  BY <1>0, <1>3, Ends
<1> QED
  BY <1>2, <1>3 DEF Branch

LEMMA Pages ==
  ASSUME DiscoveryInv, NEW r \in Reqs, NEW page \in SUBSET Users,
         NEW pc \in {"targets", "filter", "answer"}, Page(r, page, pc),
         Facts([req[r] EXCEPT !.page = page, !.pc = pc, !.shut = {}], ever[r])
  PROVE  DiscoveryInv'
<1> DEFINE x == [req[r] EXCEPT !.page = page, !.pc = pc, !.shut = {}]
<1>0. /\ req[r] \in ReqType /\ req \in [Reqs -> ReqType] /\ views \subseteq Users \X Users
  BY DEF DiscoveryInv, DiscoveryTypeOK
<1>1. x \in ReqType /\ x.op = req[r].op /\ x.me = req[r].me
  BY <1>0 DEF ReqType
<1>2. CASE req' = [req EXCEPT ![r].page = page, ![r].pc = pc, ![r].shut = {}]
           /\ UNCHANGED <<ever, world, views>>
  <2>1. req' = [req EXCEPT ![r] = x]
    BY <1>0, <1>2
  <2> HIDE DEF x
  <2> QED
    BY <1>1, <1>2, <2>1, GoesOn DEF x
<1>3. CASE End(r) /\ UNCHANGED <<world, views>>
  BY <1>0, <1>3, Ends
<1> QED
  BY <1>2, <1>3 DEF Page

(* The fields of a request that goes on, or goes on with a page.           *)
LEMMA GotoFields ==
  ASSUME NEW q \in ReqType, NEW pc
  PROVE  LET x == [q EXCEPT !.pc = pc]
         IN /\ x.pc = pc /\ x.op = q.op /\ x.me = q.me /\ x.page = q.page /\ x.open = q.open
            /\ x.left = q.left /\ x.shut = q.shut /\ x.pair = q.pair /\ x.access = q.access
BY DEF ReqType

LEMMA PageFields ==
  ASSUME NEW q \in ReqType, NEW pc, NEW page
  PROVE  LET x == [q EXCEPT !.page = page, !.pc = pc, !.shut = {}]
         IN /\ x.pc = pc /\ x.op = q.op /\ x.me = q.me /\ x.page = page /\ x.open = q.open
            /\ x.left = q.left /\ x.shut = {} /\ x.pair = q.pair
BY DEF ReqType

LEMMA Reading ==
  ASSUME DiscoveryInv, NEW r \in Reqs
  PROVE  /\ req[r] \in ReqType /\ ever[r] \in EverType
         /\ Place(req[r]) /\ Blank(req[r]) /\ Found(req[r], ever[r]) /\ Untold(req[r], ever[r])
         /\ req[r].pc = "related" => Seen(req[r], ever[r])
         /\ IsResolved(req[r]) => Shown(req[r], ever[r])
         /\ ever[r].sealed \subseteq BlockedIds(req[r].me)
         /\ ever[r].silent => req[r].me \in untraced
BY DEF DiscoveryInv, DiscoveryTypeOK, Facts, Current, Below, Moment

LEMMA GateSteps ==
  ASSUME DiscoveryInv, NEW r \in Reqs, CheckBlocks(r) \/ CheckRecording(r) \/ RequireOrigin(r)
  PROVE  DiscoveryInv'
<1> DEFINE q == req[r]
           e == ever[r]
           x(pc) == [q EXCEPT !.pc = pc]
<1>0. /\ q \in ReqType /\ Place(q) /\ Blank(q) /\ Found(q, e) /\ Untold(q, e)
      /\ e.sealed \subseteq BlockedIds(q.me) /\ (e.silent => q.me \in untraced)
      /\ e \in EverType
  BY Reading
<1>1. ASSUME CheckBlocks(r) PROVE DiscoveryInv'
  <2>1. ASSUME \A t \in q.page : ~BlockedEitherWay(q.me, t) PROVE Facts(x("targets"), e)
    <3>1. q.page \cap e.sealed = {}
      BY <1>0, <2>1 DEF BlockedIds
    <3>2. q.pc = "blocks" /\ q.op = "profile"
      BY <1>0, <1>1 DEF CheckBlocks, Place
    <3> HIDE DEF q, e
    <3>3. Place(x("targets")) /\ Blank(x("targets")) /\ Found(x("targets"), e)
          /\ x("targets").pc # "related" /\ ~IsResolved(x("targets"))
      BY <1>0, <3>1, <3>2, GotoFields DEF Place, Blank, Found, IsResolved, Folders
    <3>4. Untold(x("targets"), e)
      BY <1>0, <3>2, GotoFields DEF Untold
    <3> QED
      BY <3>3, <3>4 DEF Facts
  <2> QED
    BY <1>1, <2>1, Branches DEF CheckBlocks
<1>2. ASSUME CheckRecording(r) PROVE DiscoveryInv'
  <2>1. ASSUME q.me \notin untraced PROVE Facts(x("list"), e)
    <3>1. ~e.silent
      BY <1>0, <2>1
    <3>2. q.pc = "settings" /\ q.op = "viewers"
      BY <1>0, <1>2 DEF CheckRecording, Place
    <3> HIDE DEF q, e
    <3>3. Place(x("list")) /\ Blank(x("list")) /\ Found(x("list"), e)
          /\ x("list").pc # "related" /\ ~IsResolved(x("list"))
      BY <1>0, <3>2, GotoFields DEF Place, Blank, Found, IsResolved, Folders
    <3>4. Untold(x("list"), e)
      BY <3>1 DEF Untold
    <3> QED
      BY <3>3, <3>4 DEF Facts
  <2> QED
    BY <1>2, <2>1, Branches DEF CheckRecording
<1>3. ASSUME RequireOrigin(r) PROVE DiscoveryInv'
  <2>1. Facts(x("exclude"), e)
    <3>2. q.pc = "origin" /\ q.op = "nearby"
      BY <1>0, <1>3 DEF RequireOrigin, Place
    <3> HIDE DEF q, e
    <3>3. Place(x("exclude")) /\ Blank(x("exclude")) /\ Found(x("exclude"), e)
          /\ x("exclude").pc # "related" /\ ~IsResolved(x("exclude"))
      BY <1>0, <3>2, GotoFields DEF Place, Blank, Found, IsResolved, Folders
    <3>4. Untold(x("exclude"), e)
      BY <1>0, <3>2, GotoFields DEF Untold
    <3> QED
      BY <3>3, <3>4 DEF Facts
  <2> QED
    <3>1. Branch(r, "exclude", q.me \in located) /\ (q.me \in located) \in BOOLEAN
      BY <1>3 DEF RequireOrigin
    <3> QED
      BY <2>1, <3>1, Branches
<1> QED
  BY <1>1, <1>2, <1>3

LEMMA PageSteps ==
  ASSUME DiscoveryInv, NEW r \in Reqs,
         ListViews(r) \/ ReadFolder(r) \/ FilterBlocked(r) \/ Search(r)
  PROVE  DiscoveryInv'
<1> DEFINE q == req[r]
           e == ever[r]
           x(page, pc) == [q EXCEPT !.page = page, !.pc = pc, !.shut = {}]
<1>0. /\ q \in ReqType /\ Place(q) /\ Blank(q) /\ Found(q, e) /\ Untold(q, e)
      /\ e.sealed \subseteq BlockedIds(q.me) /\ views \subseteq Users \X Users
      /\ located \subseteq Users /\ e \in EverType
  BY Reading DEF DiscoveryInv, DiscoveryTypeOK
<1>1. ASSUME NEW page \in SUBSET Users, NEW pc \in {"targets", "filter", "answer"},
             \/ q.pc = "list" /\ pc = "targets"
             \/ q.pc = "folder" /\ pc = "filter"
             \/ q.pc = "filter" /\ pc = "answer" /\ page \cap e.sealed = {}
             \/ q.pc = "search" /\ pc = "targets" /\ page \cap e.sealed = {},
             Page(r, page, pc)
      PROVE  DiscoveryInv'
  <2> DEFINE y == x(page, pc)
  <2>1. /\ y.pc = pc /\ y.op = q.op /\ y.me = q.me /\ y.page = page /\ y.open = q.open
        /\ y.left = q.left /\ y.shut = {} /\ y.pair = q.pair
    BY <1>0, PageFields
  <2>2. Facts(y, e)
    <3> HIDE DEF q, e, x, y
    <3>1. Place(y) /\ Blank(y) /\ Found(y, e)
      BY <1>0, <1>1, <2>1 DEF Place, Blank, Found, Folders
    <3>2. y.pc # "related" /\ ~IsResolved(y)
      BY <1>0, <1>1, <2>1 DEF Place, IsResolved
    <3>3. Untold(y, e)
      BY <1>0, <1>1, <2>1 DEF Untold, Place, Folders
    <3> QED
      BY <3>1, <3>2, <3>3 DEF Facts
  <2> QED
    BY <1>1, <2>2, Pages
<1>2. CASE ListViews(r)
  <2>1. PICK page \in SUBSET Users : q.pc = "list" /\ Page(r, page, "targets")
    <3>1. {t \in Users : <<t, q.me>> \in views} \in SUBSET Users
      OBVIOUS
    <3> QED
      BY <1>2, <3>1 DEF ListViews, Page
  <2> QED
    BY <1>1, <2>1
<1>3. CASE ReadFolder(r)
  <2>1. PICK page \in SUBSET Users : q.pc = "folder" /\ Page(r, page, "filter")
    <3>1. {t \in Users \ {q.me} : InFolder(q.op, slot[{t, q.me}], q.me)} \in SUBSET Users
      OBVIOUS
    <3> QED
      BY <1>3, <3>1 DEF ReadFolder, Page
  <2> QED
    BY <1>1, <2>1
<1>4. CASE FilterBlocked(r)
  <2>1. PICK page \in SUBSET Users : /\ q.pc = "filter" /\ Page(r, page, "answer")
                                    /\ page \cap e.sealed = {}
    <3>1. /\ q.page \ BlockedIds(q.me) \in SUBSET Users
          /\ (q.page \ BlockedIds(q.me)) \cap e.sealed = {}
      BY <1>0 DEF ReqType
    <3> QED
      BY <1>4, <3>1 DEF FilterBlocked, Page
  <2> QED
    BY <1>1, <2>1
<1>5. CASE Search(r)
  <2>1. PICK page \in SUBSET Findable(r) : Page(r, IF q.me \in located THEN page ELSE {}, "targets")
    BY <1>5 DEF Search
  <2> DEFINE found == IF q.me \in located THEN page ELSE {}
  <2>2. found \in SUBSET Users /\ found \cap e.sealed = {} /\ q.pc = "search"
    BY <1>0, <1>5 DEF Search, Findable, Found
  <2> QED
    BY <1>1, <2>1, <2>2
<1> QED
  BY <1>2, <1>3, <1>4, <1>5

(* The blocks that a search leaves out are read before it: who was blocked  *)
(* all along is among them.                                                *)
LEMMA ExcludeSteps ==
  ASSUME DiscoveryInv, NEW r \in Reqs, BlockedIdsFor(r)
  PROVE  DiscoveryInv'
<1> DEFINE q == req[r]
           e == ever[r]
           x == [q EXCEPT !.shut = BlockedIds(q.me), !.pc = "search"]
<1>0. /\ q \in ReqType /\ Place(q) /\ Blank(q) /\ Found(q, e) /\ Untold(q, e)
      /\ e.sealed \subseteq BlockedIds(q.me) /\ e \in EverType /\ req \in [Reqs -> ReqType]
      /\ q.pc = "exclude"
  BY Reading DEF DiscoveryInv, DiscoveryTypeOK, BlockedIdsFor
<1>1. /\ x \in ReqType /\ x.op = q.op /\ x.me = q.me /\ x.page = q.page /\ x.pc = "search"
      /\ x.shut = BlockedIds(q.me) /\ x.left = q.left /\ x.open = q.open /\ x.pair = q.pair
  BY <1>0 DEF ReqType, BlockedIds
<1>2. req' = [req EXCEPT ![r] = x] /\ UNCHANGED <<world, views, ever>>
  BY <1>0 DEF BlockedIdsFor
<1>3. Facts(x, e)
  <2> HIDE DEF q, e, x
  <2>1. Place(x) /\ Blank(x) /\ Found(x, e) /\ ~IsResolved(x) /\ x.pc # "related"
    BY <1>0, <1>1 DEF Place, Blank, Found, IsResolved
  <2>2. Untold(x, e)
    BY <1>0, <1>1 DEF Untold, Place
  <2> QED
    BY <2>1, <2>2 DEF Facts
<1> HIDE DEF x
<1> QED
  BY <1>1, <1>2, <1>3, GoesOn

(* What the world is at the moment of a query, against the history.        *)
LEMMA AtThisMoment ==
  ASSUME DiscoveryInv, NEW r \in Reqs
  PROVE  /\ ever[r].closed \subseteq locked /\ ever[r].open \cap locked = {}
         /\ ever[r].sealed \subseteq BlockedIds(req[r].me)
         /\ (ever[r].open \cup ever[r].acted) \cap BlockedIds(req[r].me) = {}
         /\ ever[r].open \cup ever[r].acted \cup ever[r].closed \subseteq Users \ {req[r].me}
         /\ \A t \in ever[r].closed : ~OwnerActed(slot[{t, req[r].me}], t)
         /\ \A t \in ever[r].acted : OwnerActed(slot[{t, req[r].me}], t)
BY DEF DiscoveryInv, Current, Below, Moment

LEMMA TargetSteps ==
  ASSUME DiscoveryInv, NEW r \in Reqs, ReadTargets(r)
  PROVE  DiscoveryInv'
<1> DEFINE q == req[r]
           e == ever[r]
           left == IF q.page \subseteq {q.me} THEN {} ELSE {"pairs", "blocks"}
           x == [q EXCEPT !.pc = "related", !.open = q.open \cup (q.page \ locked), !.left = left]
<1>0. /\ q \in ReqType /\ Place(q) /\ Blank(q) /\ q.pc = "targets" /\ q.me \in Users
  BY Reading, DiscoveryAssumption DEF ReadTargets, Place
<1>1. /\ x \in ReqType /\ x.op = q.op /\ x.me = q.me /\ x.page = q.page /\ x.pc = "related"
      /\ x.shut = {} /\ x.left = left /\ x.open = q.page \ locked /\ x.pair = IdleReq.pair
  BY <1>0 DEF ReqType, Blank
<1>2. Resolve(r, x)
  BY DEF ReadTargets
<1>3. \A t \in Users : ~OwnerActed(x.pair[t], t)
  BY <1>1, IdleFacts, FreeIsNotActed
<1>4. x.page \subseteq Users
  BY <1>1 DEF ReqType
<1>5. x.left = {} => x.page \subseteq {x.me}
  BY <1>1
<1>6. Seen(x, e)
  <2>1. /\ e.closed \subseteq locked /\ e.open \cap locked = {}
        /\ x.me \notin e.sealed /\ x.me \notin e.acted
    BY <1>0, <1>1, AtThisMoment, NotOfHimself
  <2>2. "pairs" \notin x.left \/ "blocks" \notin x.left => x.left = {}
    BY <1>1
  <2> HIDE DEF e, x, q, left
  <2> QED
    BY <1>1, <1>3, <1>4, <1>5, <2>1, <2>2 DEF Seen
<1> HIDE DEF x, left
<1> QED
  BY <1>0, <1>1, <1>2, <1>6, Resolves

LEMMA PairSteps ==
  ASSUME DiscoveryInv, NEW r \in Reqs, LoadPairs(r)
  PROVE  DiscoveryInv'
<1> DEFINE q == req[r]
           e == ever[r]
           pair == [t \in Users |-> IF t \in q.page \ {q.me} THEN slot[{t, q.me}]
                                   ELSE Slots!FreeSlot]
           x == [q EXCEPT !.left = q.left \ {"pairs"}, !.pair = pair]
<1>0. /\ q \in ReqType /\ Place(q) /\ Blank(q) /\ "pairs" \in q.left
      /\ q.pc = "related" /\ Seen(q, e) /\ q.me \in Users
  BY Reading, DiscoveryAssumption DEF LoadPairs, Place, Blank
<1>1. pair \in [Users -> SlotType]
  <2>1. Slots!FreeSlot \in SlotType
    BY DEF Slots!FreeSlot, SlotType
  <2>2. \A t \in q.page \ {q.me} : slot[{t, q.me}] \in SlotType
    BY <1>0, PairOfTwo DEF DiscoveryInv, DiscoveryTypeOK, ReqType
  <2> QED
    BY <2>1, <2>2
<1>2. /\ x \in ReqType /\ x.op = q.op /\ x.me = q.me /\ x.page = q.page /\ x.pc = "related"
      /\ x.shut = q.shut /\ x.left = q.left \ {"pairs"} /\ x.open = q.open /\ x.pair = pair
  BY <1>0, <1>1 DEF ReqType
<1>3. Resolve(r, x)
  BY DEF LoadPairs
<1>4. \A t \in q.page \ {q.me} : x.pair[t] = slot[{t, q.me}]
  BY <1>0, <1>2 DEF ReqType
<1>5. Seen(x, e)
  <2>1. /\ \A t \in e.closed : ~OwnerActed(slot[{t, q.me}], t)
        /\ \A t \in e.acted : OwnerActed(slot[{t, q.me}], t)
        /\ q.me \notin e.acted
    BY <1>0, AtThisMoment, NotOfHimself
  <2> HIDE DEF e, x, q, pair
  <2> QED
    BY <1>0, <1>2, <1>4, <2>1 DEF Seen
<1> HIDE DEF x, pair
<1> QED
  BY <1>0, <1>2, <1>3, <1>5, Resolves

LEMMA BlockSteps ==
  ASSUME DiscoveryInv, NEW r \in Reqs, BlockedIdsAmong(r)
  PROVE  DiscoveryInv'
<1> DEFINE q == req[r]
           e == ever[r]
           x == [q EXCEPT !.left = q.left \ {"blocks"}, !.shut = q.page \cap BlockedIds(q.me)]
<1>0. /\ q \in ReqType /\ Place(q) /\ Blank(q) /\ "blocks" \in q.left
      /\ q.pc = "related" /\ Seen(q, e) /\ q.me \in Users
  BY Reading, DiscoveryAssumption DEF BlockedIdsAmong, Place, Blank
<1>1. /\ x \in ReqType /\ x.op = q.op /\ x.me = q.me /\ x.page = q.page /\ x.pc = "related"
      /\ x.shut = q.page \cap BlockedIds(q.me) /\ x.left = q.left \ {"blocks"}
      /\ x.open = q.open /\ x.pair = q.pair
  BY <1>0 DEF ReqType
<1>2. Resolve(r, x)
  BY DEF BlockedIdsAmong
<1>3. Seen(x, e)
  <2>1. /\ e.sealed \subseteq BlockedIds(q.me)
        /\ (e.open \cup e.acted) \cap BlockedIds(q.me) = {}
    BY AtThisMoment
  <2> HIDE DEF e, x, q
  <2> QED
    BY <1>0, <1>1, <2>1 DEF Seen
<1> HIDE DEF x
<1> QED
  BY <1>0, <1>1, <1>2, <1>3, Resolves

(* The trace a viewer leaves, and the end of a read.                       *)
LEMMA TraceSteps ==
  ASSUME DiscoveryInv, NEW r \in Reqs, CheckTrace(r) \/ RecordView(r) \/ Answer(r)
  PROVE  DiscoveryInv'
<1> DEFINE q == req[r]
           e == ever[r]
           x == [q EXCEPT !.pc = "record"]
<1>0. /\ q \in ReqType /\ Place(q) /\ Blank(q) /\ Found(q, e) /\ Untold(q, e)
      /\ IsResolved(q) => Shown(q, e)
      /\ e.silent => q.me \in untraced
      /\ views \subseteq Users \X Users
  BY Reading DEF DiscoveryInv, DiscoveryTypeOK
<1>1. CASE CheckTrace(r)
  <2>1. q.pc = "trace" /\ Branch(r, "record", Traced(r)) /\ Traced(r) \in BOOLEAN
    BY <1>1 DEF CheckTrace, Traced
  <2>2. ASSUME Traced(r) PROVE Facts(x, e)
    <3>1. ~e.silent
      BY <1>0, <2>2 DEF Traced
    <3>2. /\ x.pc = "record" /\ x.op = q.op /\ x.me = q.me /\ x.page = q.page
          /\ x.access = q.access /\ x.left = q.left
      BY <1>0, GotoFields
    <3> HIDE DEF q, e, x
    <3>3. Place(x) /\ Blank(x) /\ Found(x, e)
      BY <1>0, <2>1, <3>2 DEF Place, Blank, Found, Folders
    <3>4. Shown(q, e) => Shown(x, e)
      BY <3>2 DEF Shown
    <3>5. IsResolved(q)
      BY <1>0, <2>1 DEF IsResolved, Place, Folders
    <3>6. Untold(x, e)
      BY <3>1 DEF Untold
    <3> QED
      BY <1>0, <3>2, <3>3, <3>4, <3>5, <3>6 DEF Facts
  <2> QED
    BY <2>1, <2>2, Branches
<1>2. CASE RecordView(r)
  <2>1. q.me \in Users /\ q.page \subseteq Users
    BY <1>0, <1>2, DiscoveryAssumption DEF RecordView, Place, ReqType
  <2> QED
    BY <1>0, <1>2, <2>1, Ends DEF RecordView
<1>3. CASE Answer(r)
  BY <1>0, <1>3, Ends DEF Answer
<1> QED
  BY <1>1, <1>2, <1>3

-----------------------------------------------------------------------------
LEMMA DiscoveryInit == Init => DiscoveryInv
<1> SUFFICES ASSUME Init PROVE DiscoveryInv
  OBVIOUS
<1>1. slot \in [Slots!Pairs -> SlotType]
  <2>1. Slots!FreeSlot \in SlotType
    BY DEF Slots!FreeSlot, SlotType
  <2> QED
    BY <2>1 DEF Init, Slots!Init
<1>2. views \subseteq Users \X Users
  BY DiscoveryAssumption DEF Init
<1>3. DiscoveryTypeOK /\ NoSelfBlock
  BY <1>1, <1>2, IdleFacts, DiscoveryAssumption DEF Init, DiscoveryTypeOK, NoSelfBlock
<1>4. ASSUME NEW r \in Reqs PROVE Current(r) /\ Facts(req[r], ever[r])
  BY EmptyFacts, NoneBelow DEF Init, Current
<1> QED
  BY <1>3, <1>4 DEF DiscoveryInv

LEMMA DiscoveryStep == DiscoveryInv /\ [Next]_vars => DiscoveryInv'
<1> SUFFICES ASSUME DiscoveryInv, [Next]_vars PROVE DiscoveryInv'
  OBVIOUS
<1>1. CASE UNCHANGED vars
  BY <1>1 DEF vars, world, DiscoveryInv, DiscoveryTypeOK, NoSelfBlock, Current, Moment, BlockedIds,
     BlockedEitherWay
<1>2. CASE \/ Relate
           \/ \E u, v \in Users : Block(u, v) \/ Unblock(u, v)
           \/ \E u \in Owners : SetPhotosLocked(u) \/ SetDiscoverable(u)
           \/ \E u \in Viewers : SetRecordProfileViews(u)
           \/ \E u \in Users : UpdateLocation(u) \/ DeleteLocation(u)
  BY <1>2, WorldSteps, DiscoveryAssumption
<1>3. ASSUME NEW r \in Reqs, NEW u \in Viewers, OpenViewers(r, u) \/ OpenNearby(r, u)
      PROVE  DiscoveryInv'
  BY <1>3, Begins DEF OpenViewers, OpenNearby, Folders
<1>4. ASSUME NEW r \in Reqs, NEW u \in Viewers, NEW v \in Users, OpenProfile(r, u, v)
      PROVE  DiscoveryInv'
  BY <1>4, Begins DEF OpenProfile, Folders
<1>5. ASSUME NEW r \in Reqs, NEW u \in Viewers, NEW folder \in Folders,
             OpenFolder(r, u, folder)
      PROVE  DiscoveryInv'
  BY <1>5, Begins DEF OpenFolder, Folders
<1>6. ASSUME NEW r \in Reqs, Handle(r) PROVE DiscoveryInv'
  BY <1>6, GateSteps, PageSteps, ExcludeSteps, TargetSteps, PairSteps, BlockSteps, TraceSteps
     DEF Handle
<1> QED
  BY <1>1, <1>2, <1>3, <1>4, <1>5, <1>6 DEF Next

(* Type correctness of the tables, the reads and their histories.          *)
THEOREM DiscoveryTypeCorrect == Spec => []DiscoveryTypeOK
BY DiscoveryInit, DiscoveryStep, PTL DEF Spec, DiscoveryInv

(* The photo rule: an owner's real photos are shown only if, at some moment
   of the read, he had opened them by an act of his own.                   *)
THEOREM PhotosAreOwners == Spec => []UnlockIsOwners
<1>1. DiscoveryInv => UnlockIsOwners
  BY DEF DiscoveryInv, Facts, Shown, IsResolved, UnlockIsOwners, Resolved
<1> QED
  BY <1>1, DiscoveryInit, DiscoveryStep, PTL DEF Spec

(* Who is blocked throughout a read sees nothing through it.               *)
THEOREM BlocksHideEverything == Spec => []BlockedSeesNothing
<1>1. DiscoveryInv => BlockedSeesNothing
  BY DEF DiscoveryInv, Facts, Shown, Found, IsResolved, BlockedSeesNothing, Resolved
<1> QED
  BY <1>1, DiscoveryInit, DiscoveryStep, PTL DEF Spec

(* Who is welcome throughout a read is not shown a blur.                   *)
THEOREM WelcomesHold == Spec => []WelcomeIsShown
<1>1. DiscoveryInv => WelcomeIsShown
  BY DEF DiscoveryInv, Facts, Shown, IsResolved, WelcomeIsShown, Resolved
<1> QED
  BY <1>1, DiscoveryInit, DiscoveryStep, PTL DEF Spec

(* Browsing without a trace is invisible both ways.                        *)
THEOREM TracesAreMutual == Spec => []TraceIsMutual
<1>1. DiscoveryInv => TraceIsMutual
  BY DEF DiscoveryInv, Facts, Untold, TraceIsMutual
<1> QED
  BY <1>1, DiscoveryInit, DiscoveryStep, PTL DEF Spec
=============================================================================
