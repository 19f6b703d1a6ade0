------------------------------- MODULE Pings -------------------------------
(***************************************************************************)
(* The 1:1 request surface: sending, accepting, rejecting and withdrawing  *)
(* a ping, and blocking (modules/pings/pings.service.ts,                   *)
(* common/blocks/blocks.service.ts).                                       *)
(*                                                                         *)
(* Every HTTP request is a process that runs one handler.  A handler is    *)
(* cut at each await of a database or Redis call, because other requests,  *)
(* of this API instance or of another one, run in between; each step below *)
(* is one such call together with the synchronous code up to the next.     *)
(* The database is READ COMMITTED, so one statement is atomic and two are  *)
(* not.                                                                    *)
(***************************************************************************)
EXTENDS Integers, FiniteSets

CONSTANTS
  Users,       \* accounts; none is ever deleted by the code
  PingIds,     \* primary keys cuid() can produce: bounds the pings ever sent
  Reqs,        \* request slots: bounds the requests in flight at once
  MaxPerDay,   \* PING_MAX_PER_DAY
  NoUser,      \* stands for "no user" in an idle slot
  NoPing,      \* stands for "no ping" in a slot
  Endpoints,   \* the endpoints clients call in this instance of the model
  CanCrash     \* whether an API instance may die under a request

ASSUME PingsAssumption ==
  /\ NoUser \notin Users
  /\ NoPing \notin PingIds
  /\ MaxPerDay \in Nat \ {0}      \* env.schema.ts: a positive integer
  /\ Endpoints \subseteq {"send", "accept", "reject", "withdraw", "block"}
  /\ CanCrash \in BOOLEAN

VARIABLES
  row,     \* the pings table, by id
  blocks,  \* the blocks table: <<blocker, blocked>>
  rate,    \* the Redis counter ping:rate:<user>; 0 is a key that does not exist
  ttl,     \* the users whose counter has an expiry
  req,     \* the requests in flight
  told,    \* realtime events emitted about each ping
  passed,  \* history: sends the rate limit let through since the key was born
  shut     \* history: the requests whose pair was blocked ever since they knew it

vars == <<row, blocks, rate, ttl, req, told, passed, shut>>

LiveStates == {"PENDING", "ACCEPTED", "REJECTED"}

(* "DELETED" keeps what a deleted row held, so that a property can speak   *)
(* of it; no handler below reads such a row.                               *)
RowType == [state : LiveStates \cup {"UNUSED", "DELETED"},
            from  : Users \cup {NoUser},
            to    : Users \cup {NoUser}]

NoRow == [state |-> "UNUSED", from |-> NoUser, to |-> NoUser]

SendSteps == {"blocks", "find", "incr", "expire", "create", "emit"}

DecisionOps == {"accept", "reject", "withdraw"}

DecisionSteps == {"load", "recheck", "write", "emit"}

(* A free slot (the last request in it may have been answered 500), a      *)
(* send, or a decision about a ping.                                       *)
ReqType ==
  [op : {"none"}, pc : {"idle", "failed"}, me : {NoUser}, other : {NoUser},
   ping : {NoPing}]
  \cup
  [op : {"send"}, pc : SendSteps, me : Users, other : Users,
   ping : PingIds \cup {NoPing}]
  \cup
  [op : DecisionOps, pc : DecisionSteps, me : Users,
   other : Users \cup {NoUser}, ping : PingIds]

IdleReq == [op |-> "none", pc |-> "idle", me |-> NoUser, other |-> NoUser,
            ping |-> NoPing]

Events == {"PING_RECEIVED", "PING_ACCEPTED", "PING_REJECTED", "PING_WITHDRAWN"}

TypeOK ==
  /\ row \in [PingIds -> RowType]
  /\ blocks \in SUBSET (Users \X Users)
  /\ rate \in [Users -> 0..(MaxPerDay + 1)]
  /\ ttl \in SUBSET Users
  /\ req \in [Reqs -> ReqType]
  /\ told \in [PingIds -> SUBSET Events]
  /\ passed \in [Users -> Nat]
  /\ shut \in SUBSET Reqs

Init ==
  /\ row = [p \in PingIds |-> NoRow]
  /\ blocks = {}
  /\ rate = [u \in Users |-> 0]
  /\ ttl = {}
  /\ req = [r \in Reqs |-> IdleReq]
  /\ told = [p \in PingIds |-> {}]
  /\ passed = [u \in Users |-> 0]
  /\ shut = {}

-----------------------------------------------------------------------------
(* Readings of the tables.                                                 *)

Live(p) == row[p].state \in LiveStates

(* pairKeyFor sorts the two ids, so both directions are the same key.      *)
PairOf(p) == {row[p].from, row[p].to}

LiveFor(pair) == {p \in PingIds : Live(p) /\ PairOf(p) = pair}

BlockedIn(bs, a, b) == <<a, b>> \in bs \/ <<b, a>> \in bs

Blocked(a, b) == BlockedIn(blocks, a, b)

InFlight(r) == req[r].pc \notin {"idle", "failed"}

At(r, op, pc) == req[r].op = op /\ req[r].pc = pc

-----------------------------------------------------------------------------
(* How a request moves.                                                    *)

(* Request r has just learnt that its pair is {a, b}.                      *)
LearnsPair(r, a, b) == shut' = IF Blocked(a, b) THEN shut \cup {r} ELSE shut \ {r}

Becomes(r, request) == req' = [req EXCEPT ![r] = request]

Goto(r, pc) == Becomes(r, [req[r] EXCEPT !.pc = pc]) /\ UNCHANGED shut

(* The handler returned, or threw an HttpException (a 4xx answer).         *)
Reply(r) == /\ Becomes(r, IdleReq)
            /\ shut' = shut \ {r}

(* The handler threw anything else: the exceptions filter answers 500.     *)
Fail(r) == /\ Becomes(r, [IdleReq EXCEPT !.pc = "failed"])
           /\ shut' = shut \ {r}

Tell(p, event) == told' = [told EXCEPT ![p] = @ \cup {event}]

(* Mutant: a rejection announced with the wrong event.                     *)
EventOfMixedUp(op) == CASE op = "send"   -> "PING_RECEIVED"
                        [] op = "accept" -> "PING_ACCEPTED"
                        [] OTHER         -> "PING_WITHDRAWN"

EventOf(op) == CASE op = "send"     -> "PING_RECEIVED"
                 [] op = "accept"   -> "PING_ACCEPTED"
                 [] op = "reject"   -> "PING_REJECTED"
                 [] op = "withdraw" -> "PING_WITHDRAWN"

-----------------------------------------------------------------------------
(* The bound on ping ids: every send in flight may need one of its own.    *)
RoomForAnother ==
  Cardinality({p \in PingIds : row[p].state = "UNUSED"})
    > Cardinality({r \in Reqs : req[r].op = "send"})

(* A request arrives.  The target of a send is looked up by its short id;  *)
(* users do not change here, so the lookup is part of the arrival.         *)

StartSend(r, a, b) ==
  /\ "send" \in Endpoints
  /\ ~InFlight(r)
  /\ RoomForAnother
  /\ a # b
  /\ Becomes(r, [op |-> "send", pc |-> "blocks", me |-> a, other |-> b,
                 ping |-> NoPing])
  /\ LearnsPair(r, a, b)
  /\ UNCHANGED <<row, blocks, rate, ttl, told, passed>>

(* Any ping id may be presented, by anybody, whatever became of the row.   *)
StartDecision(r, op, a, p) ==
  /\ op \in Endpoints
  /\ ~InFlight(r)
  /\ row[p].state # "UNUSED"
  /\ Becomes(r, [op |-> op, pc |-> "load", me |-> a, other |-> NoUser,
                 ping |-> p])
  /\ shut' = shut \ {r}
  /\ UNCHANGED <<row, blocks, rate, ttl, told, passed>>

-----------------------------------------------------------------------------
(* send                                                                    *)

(* isBlockedEitherWay: a blocked pair gets the 404 of an unknown user.     *)
SendBlockCheck(r) ==
  /\ At(r, "send", "blocks")
  /\ \/ Blocked(req[r].me, req[r].other) /\ Reply(r)
     \/ ~Blocked(req[r].me, req[r].other) /\ Goto(r, "find")
  /\ UNCHANGED <<row, blocks, rate, ttl, told, passed>>

(* Mutant: the reverse ping is accepted without passing its id on.         *)
SendFindLosesId(r) ==
  LET pair == {req[r].me, req[r].other}
  IN /\ At(r, "send", "find")
     /\ \/ LiveFor(pair) = {} /\ Goto(r, "incr")
        \/ /\ LiveFor(pair) # {}
           /\ Becomes(r, [req[r] EXCEPT !.op = "accept", !.pc = "load"])
           /\ UNCHANGED shut
     /\ UNCHANGED <<row, blocks, rate, ttl, told, passed>>

(* findUnique by pair key, then resolveExisting: a reverse PENDING ping    *)
(* turns this request into an acceptance of it; any other row is a 400.    *)
SendFind(r) ==
  LET a == req[r].me
      pair == {a, req[r].other}
  IN /\ At(r, "send", "find")
     /\ \/ LiveFor(pair) = {} /\ Goto(r, "incr")
        \/ \E p \in LiveFor(pair) :
             IF row[p].state = "PENDING" /\ row[p].to = a
             THEN /\ Becomes(r, [req[r] EXCEPT !.op = "accept", !.pc = "load",
                                               !.ping = p])
                  /\ UNCHANGED shut
             ELSE Reply(r)
     /\ UNCHANGED <<row, blocks, rate, ttl, told, passed>>

(* The counter saturates at MaxPerDay + 1: the code tells larger values    *)
(* apart no further.                                                       *)
Bumped(u) == IF rate[u] > MaxPerDay THEN rate[u] ELSE rate[u] + 1

(* Mutant: one send more than the limit.                                   *)
WithinLimitPlusOne(count) == count <= MaxPerDay + 1

WithinLimit(count) == count <= MaxPerDay

(* The key is born without a TTL; the first increment gives it one next.   *)
SendIncr(r) ==
  LET a == req[r].me
      count == Bumped(a)
  IN /\ At(r, "send", "incr")
     /\ rate' = [rate EXCEPT ![a] = count]
     /\ \/ count = 1 /\ Goto(r, "expire") /\ UNCHANGED passed
        \/ /\ count # 1 /\ WithinLimit(count)
           /\ Goto(r, "create")
           /\ passed' = [passed EXCEPT ![a] = @ + 1]
        \/ count # 1 /\ ~WithinLimit(count) /\ Reply(r) /\ UNCHANGED passed
     /\ UNCHANGED <<row, blocks, ttl, told>>

(* Mutant: the key never gets its TTL.                                     *)
SendExpireForgotten(r) ==
  /\ At(r, "send", "expire")
  /\ passed' = [passed EXCEPT ![req[r].me] = @ + 1]
  /\ Goto(r, "create")
  /\ UNCHANGED <<row, blocks, rate, ttl, told>>

(* expire gives a TTL to a key that exists, and does nothing to one that   *)
(* does not.                                                               *)
SendExpire(r) ==
  LET a == req[r].me
  IN /\ At(r, "send", "expire")
     /\ ttl' = IF rate[a] > 0 THEN ttl \cup {a} ELSE ttl
     /\ passed' = [passed EXCEPT ![a] = @ + 1]
     /\ Goto(r, "create")
     /\ UNCHANGED <<row, blocks, rate, told>>

(* Mutant: the index is on (sender, recipient) and not on the pair.        *)
PairTakenOneWay(a, b) == \E p \in PingIds : Live(p) /\ row[p].from = a /\ row[p].to = b

(* The unique index on pair_key answers P2002 when the pair is taken.      *)
PairTaken(a, b) == LiveFor({a, b}) # {}

(* Mutant: an upsert, which asks again where the pair is already taken.    *)
SendUpsert(r) ==
  LET a == req[r].me
      b == req[r].other
  IN /\ At(r, "send", "create")
     /\ \E p \in PingIds :
          /\ IF PairTaken(a, b) THEN p \in LiveFor({a, b}) ELSE row[p].state = "UNUSED"
          /\ row' = [row EXCEPT ![p] = [state |-> "PENDING", from |-> a, to |-> b]]
          /\ Becomes(r, [req[r] EXCEPT !.pc = "emit", !.ping = p])
     /\ UNCHANGED <<blocks, rate, ttl, told, passed, shut>>

SendCreate(r) ==
  LET a == req[r].me
      b == req[r].other
  IN /\ At(r, "send", "create")
     /\ \/ PairTaken(a, b) /\ Fail(r) /\ UNCHANGED row
        \/ /\ ~PairTaken(a, b)
           /\ \E p \in {q \in PingIds : row[q].state = "UNUSED"} :
                /\ row' = [row EXCEPT ![p] = [state |-> "PENDING", from |-> a,
                                              to |-> b]]
                /\ Becomes(r, [req[r] EXCEPT !.pc = "emit", !.ping = p])
           /\ UNCHANGED shut
     /\ UNCHANGED <<blocks, rate, ttl, told, passed>>

-----------------------------------------------------------------------------
(* accept, reject, withdraw                                                *)

(* Mutant: either of the two may decide.                                   *)
EitherMayAct(op, u, p) == row[p].state = "PENDING" /\ u \in PairOf(p)

(* Mutant: a row that is decided may be decided again.                     *)
MayActAgain(op, u, p) ==
  Live(p) /\ (IF op = "withdraw" THEN row[p].from = u ELSE row[p].to = u)

(* The row a request may act on: loadDecidable lets only the recipient     *)
(* decide, withdraw only the sender, and both only while it is PENDING.    *)
MayAct(op, u, p) ==
  /\ row[p].state = "PENDING"
  /\ IF op = "withdraw" THEN row[p].from = u ELSE row[p].to = u

AfterLoad(op) == IF op = "accept" THEN "recheck" ELSE "write"

Load(r) ==
  LET op == req[r].op
      p  == req[r].ping
  IN /\ op \in DecisionOps /\ req[r].pc = "load"
     /\ \/ ~MayAct(op, req[r].me, p) /\ Reply(r)
        \/ /\ MayAct(op, req[r].me, p)
           /\ \E other \in PairOf(p) \ {req[r].me} :
                /\ Becomes(r, [req[r] EXCEPT !.pc = AfterLoad(op),
                                             !.other = other])
                /\ LearnsPair(r, req[r].me, other)
     /\ UNCHANGED <<row, blocks, rate, ttl, told, passed>>

(* Mutant: accept does not look at blocks again.                           *)
AcceptUnchecked(r) ==
  /\ At(r, "accept", "recheck")
  /\ Goto(r, "write")
  /\ UNCHANGED <<row, blocks, rate, ttl, told, passed>>

AcceptBlockCheck(r) ==
  /\ At(r, "accept", "recheck")
  /\ \/ Blocked(req[r].me, req[r].other) /\ Reply(r)
     \/ ~Blocked(req[r].me, req[r].other) /\ Goto(r, "write")
  /\ UNCHANGED <<row, blocks, rate, ttl, told, passed>>

(* update where id: by the id alone, whatever the state has become since.  *)
(* A row that is gone is P2025, hence a 500.                               *)
Writable(p) == Live(p)

Write(r, op, state) ==
  LET p == req[r].ping
  IN /\ At(r, op, "write")
     /\ \/ Writable(p) /\ row' = [row EXCEPT ![p].state = state] /\ Goto(r, "emit")
        \/ ~Writable(p) /\ Fail(r) /\ UNCHANGED row
     /\ UNCHANGED <<blocks, rate, ttl, told, passed>>

AcceptWrite(r) == Write(r, "accept", "ACCEPTED")

RejectWrite(r) == Write(r, "reject", "REJECTED")

(* delete where id: the row leaves the table, and with it the pair's slot. *)
WithdrawWrite(r) == Write(r, "withdraw", "DELETED")

(* The event goes out after the await that follows the write: the database *)
(* reply itself, and for send and accept also counterpartOf.               *)
Emit(r) ==
  /\ req[r].pc = "emit"
  /\ Tell(req[r].ping, EventOf(req[r].op))
  /\ Reply(r)
  /\ UNCHANGED <<row, blocks, rate, ttl, passed>>

-----------------------------------------------------------------------------
(* Blocks: one upsert, one deleteMany.                                     *)

Block(a, b) ==
  /\ "block" \in Endpoints
  /\ a # b
  /\ blocks' = blocks \cup {<<a, b>>}
  /\ UNCHANGED <<row, rate, ttl, req, told, passed, shut>>

Unblock(a, b) ==
  /\ <<a, b>> \in blocks
  /\ blocks' = blocks \ {<<a, b>>}
  /\ shut' = {r \in shut : BlockedIn(blocks', req[r].me, req[r].other)}
  /\ UNCHANGED <<row, rate, ttl, req, told, passed>>

-----------------------------------------------------------------------------
(* The environment.                                                        *)

(* 24 hours after its first increment Redis drops a key that has a TTL.    *)
KeyExpires(u) ==
  /\ u \in ttl
  /\ rate' = [rate EXCEPT ![u] = 0]
  /\ ttl' = ttl \ {u}
  /\ passed' = [passed EXCEPT ![u] = 0]
  /\ UNCHANGED <<row, blocks, req, told, shut>>

(* The instance dies, or a call it awaits fails: the rest never happens.   *)
Crash(r) ==
  /\ CanCrash
  /\ InFlight(r)
  /\ Reply(r)
  /\ UNCHANGED <<row, blocks, rate, ttl, told, passed>>

Arrive(r) ==
  \/ \E a, b \in Users : StartSend(r, a, b)
  \/ \E op \in DecisionOps, a \in Users, p \in PingIds :
       StartDecision(r, op, a, p)

Continue(r) ==
  \/ SendBlockCheck(r) \/ SendFind(r) \/ SendIncr(r) \/ SendExpire(r)
  \/ SendCreate(r) \/ Load(r) \/ AcceptBlockCheck(r) \/ AcceptWrite(r)
  \/ RejectWrite(r) \/ WithdrawWrite(r) \/ Emit(r)

Next ==
  \/ \E r \in Reqs : Arrive(r) \/ Continue(r) \/ Crash(r)
  \/ \E a, b \in Users : Block(a, b) \/ Unblock(a, b)
  \/ \E u \in Users : KeyExpires(u)

Spec == Init /\ [][Next]_vars

(* A handler that runs goes on running, and Redis does expire a key that   *)
(* has a TTL.  No user has to do anything.                                 *)
Fairness ==
  /\ \A r \in Reqs : WF_vars(Continue(r))
  /\ \A u \in Users : WF_vars(KeyExpires(u))

FairSpec == Spec /\ Fairness

-----------------------------------------------------------------------------
(* Safety.                                                                 *)

(* The pair has one slot (D-042): however many sends race between findUnique
   and create, there are never two rows for the same two people.           *)
OnePerPair ==
  \A p, q \in PingIds : Live(p) /\ Live(q) /\ PairOf(p) = PairOf(q) => p = q

(* A send or an accept reaches its effect only if the pair was unblocked at
   some moment after the handler knew the pair: a block that was in place
   all along is never missed, whichever of the paths (a new ping, a decision,
   a reverse ping turned into a decision) the request took.                *)
PastBlockCheck(r) ==
  \/ req[r].op = "send" /\ req[r].pc # "blocks"
  \/ req[r].op = "accept" /\ req[r].pc \in {"write", "emit"}

BlockHonoured == \A r \in Reqs : PastBlockCheck(r) => r \notin shut

(* The daily budget: within the life of one Redis key no more than
   PING_MAX_PER_DAY sends get past the limit, however their increments
   interleave.                                                             *)
WithinBudget == \A u \in Users : passed[u] <= MaxPerDay

(* Only the recipient accepts or rejects and only the sender withdraws, even
   though each of them acts on a row that was read one or two awaits ago.  *)
OnlyTheEntitledDecide ==
  [][\A p \in PingIds :
       row'[p].state # row[p].state /\ row[p].state # "UNUSED" =>
         \E r \in Reqs :
           /\ req[r].ping = p /\ req[r].pc = "write"
           /\ req[r].me = IF row'[p].state = "DELETED" THEN row[p].from
                                                       ELSE row[p].to]_vars

(* The slot of a pair, read off the table; the code implements PairSlot.   *)
SlotOf(pair) ==
  IF LiveFor(pair) = {} THEN [state |-> "FREE", asker |-> NoUser]
  ELSE LET p == CHOOSE q \in LiveFor(pair) : TRUE
       IN [state |-> row[p].state, asker |-> row[p].from]

Pairs == {{a, b} : a \in Users, b \in Users} \ {{a} : a \in Users}

Slots == INSTANCE PairSlot WITH slot <- [pair \in Pairs |-> SlotOf(pair)]

(* Every step of every handler is a step on one pair's slot or none: asking
   a free slot, deciding a taken one or giving it back.                    *)
ImplementsPairSlot == Slots!Spec

(* Once a ping is decided and no request that saw it PENDING is still under
   way, the decision is final: a rejected sender can never ask again, an
   accepted thread never closes.  (Without the second condition it does not
   hold, whatever D-042 says.)                                             *)
Settled(p) ==
  /\ row[p].state \in {"ACCEPTED", "REJECTED"}
  /\ \A r \in Reqs : req[r].ping = p => req[r].pc \notin {"recheck", "write"}

SettledForGood ==
  [][\A p \in PingIds : Settled(p) => Settled(p)' /\ row'[p] = row[p]]_vars

-----------------------------------------------------------------------------
(* Liveness.                                                               *)

(* A decision is announced to the sender of the ping, by instances that do *)
(* not die.                                                                *)
DecisionAnnounced ==
  \A p \in PingIds :
    /\ row[p].state = "ACCEPTED" ~> "PING_ACCEPTED" \in told[p]
    /\ row[p].state = "REJECTED" ~> "PING_REJECTED" \in told[p]

(* A user who hit the limit gets a new budget when the window has passed:  *)
(* "a rolling daily window" (pings.service.ts 174).  So it is while        *)
(* instances live; one that dies between INCR and EXPIRE leaves a counter  *)
(* without an end.                                                         *)
LimitLifts == \A u \in Users : rate[u] > MaxPerDay ~> rate[u] = 0
=============================================================================
