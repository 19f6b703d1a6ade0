----------------------------- MODULE PingsProofs -----------------------------
(***************************************************************************)
(* Proofs about Pings, for every set of users, of ping ids and of requests *)
(* in flight, and every value of PING_MAX_PER_DAY.                         *)
(***************************************************************************)
EXTENDS Pings, TLAPS

USE DEF InFlight, At

-----------------------------------------------------------------------------
(* The ways a request moves keep its slot well-formed.                     *)

ReqTypeOK == req \in [Reqs -> ReqType] /\ shut \in SUBSET Reqs

(* The tables and the Redis keys are well-formed.                          *)
StoreTypeOK ==
  /\ row \in [PingIds -> RowType]
  /\ blocks \in SUBSET (Users \X Users)
  /\ rate \in [Users -> 0..(MaxPerDay + 1)]
  /\ ttl \in SUBSET Users
  /\ told \in [PingIds -> SUBSET Events]
  /\ passed \in [Users -> Nat]

LEMMA TypeSplit == TypeOK <=> ReqTypeOK /\ StoreTypeOK
BY DEF TypeOK, ReqTypeOK, StoreTypeOK

LEMMA BecomesType ==
  ASSUME ReqTypeOK, NEW r \in Reqs, NEW x \in ReqType, Becomes(r, x)
  PROVE  req' \in [Reqs -> ReqType]
BY DEF ReqTypeOK, Becomes

LEMMA ReplyType ==
  ASSUME ReqTypeOK, NEW r \in Reqs, Reply(r) \/ Fail(r)
  PROVE  ReqTypeOK'
<1>1. IdleReq \in ReqType /\ [IdleReq EXCEPT !.pc = "failed"] \in ReqType
  BY DEF IdleReq, ReqType
<1> QED
  BY <1>1, BecomesType DEF Reply, Fail, ReqTypeOK

LEMMA GotoType ==
  ASSUME ReqTypeOK, NEW r \in Reqs, NEW pc,
         \/ req[r].op = "send" /\ pc \in SendSteps
         \/ req[r].op \in DecisionOps /\ pc \in DecisionSteps,
         Goto(r, pc)
  PROVE  ReqTypeOK'
<1>1. req[r] \in ReqType
  BY DEF ReqTypeOK
<1>2. [req[r] EXCEPT !.pc = pc] \in ReqType
  BY <1>1 DEF ReqType, DecisionOps
<1> QED
  BY <1>2, BecomesType DEF Goto, ReqTypeOK

LEMMA TypeInit == Init => TypeOK
BY PingsAssumption DEF Init, TypeOK, RowType, NoRow, ReqType, IdleReq, LiveStates

LEMMA TypeStep == TypeOK /\ [Next]_vars => TypeOK'
<1> SUFFICES ASSUME TypeOK, [Next]_vars PROVE ReqTypeOK' /\ StoreTypeOK'
  BY DEF TypeOK, ReqTypeOK, StoreTypeOK
<1>0. ReqTypeOK /\ StoreTypeOK /\ \A r \in Reqs : req[r] \in ReqType
  BY TypeSplit DEF ReqTypeOK
<1> USE DEF SendSteps, DecisionSteps
<1>1. ASSUME NEW r \in Reqs, NEW a \in Users, NEW b \in Users, StartSend(r, a, b)
      PROVE  ReqTypeOK' /\ StoreTypeOK'
  <2>1. [op |-> "send", pc |-> "blocks", me |-> a, other |-> b, ping |-> NoPing]
          \in ReqType
    BY DEF ReqType
  <2> QED
    BY <1>0, <1>1, <2>1, BecomesType DEF StartSend, LearnsPair, ReqTypeOK, StoreTypeOK
<1>2. ASSUME NEW r \in Reqs, NEW a \in Users, NEW p \in PingIds,
             NEW op \in DecisionOps, StartDecision(r, op, a, p)
      PROVE  ReqTypeOK' /\ StoreTypeOK'
  <2>1. [op |-> op, pc |-> "load", me |-> a, other |-> NoUser, ping |-> p] \in ReqType
    BY DEF ReqType
  <2> QED
    BY <1>0, <1>2, <2>1, BecomesType DEF StartDecision, ReqTypeOK, StoreTypeOK
<1>3. ASSUME NEW r \in Reqs, SendBlockCheck(r) \/ AcceptBlockCheck(r)
      PROVE  ReqTypeOK' /\ StoreTypeOK'
  <2>1. ReqTypeOK'
    BY <1>0, <1>3, GotoType, ReplyType DEF SendBlockCheck, AcceptBlockCheck, DecisionOps
  <2> QED
    BY <1>0, <1>3, <2>1 DEF SendBlockCheck, AcceptBlockCheck, StoreTypeOK
<1>4. ASSUME NEW r \in Reqs, SendFind(r) PROVE ReqTypeOK' /\ StoreTypeOK'
  <2>1. ASSUME NEW p \in PingIds, req[r].op = "send"
        PROVE  [req[r] EXCEPT !.op = "accept", !.pc = "load", !.ping = p] \in ReqType
    BY <1>0, <2>1 DEF ReqType, DecisionOps
  <2>2. ReqTypeOK'
    BY <1>0, <1>4, <2>1, GotoType, ReplyType, BecomesType
       DEF SendFind, LiveFor, ReqTypeOK
  <2> QED
    BY <1>0, <1>4, <2>2 DEF SendFind, StoreTypeOK
<1>5. ASSUME NEW r \in Reqs, SendIncr(r) PROVE ReqTypeOK' /\ StoreTypeOK'
  <2>1. ReqTypeOK'
    BY <1>0, <1>5, GotoType, ReplyType DEF SendIncr
  <2>2. req[r].me \in Users
    BY <1>0, <1>5 DEF SendIncr, ReqType, DecisionOps
  <2> QED
    BY <1>0, <1>5, <2>1, <2>2, PingsAssumption
       DEF SendIncr, Bumped, WithinLimit, StoreTypeOK
<1>6. ASSUME NEW r \in Reqs, SendExpire(r) PROVE ReqTypeOK' /\ StoreTypeOK'
  <2>1. ReqTypeOK'
    BY <1>0, <1>6, GotoType DEF SendExpire
  <2>2. req[r].me \in Users
    BY <1>0, <1>6 DEF SendExpire, ReqType, DecisionOps
  <2> QED
    BY <1>0, <1>6, <2>1, <2>2 DEF SendExpire, StoreTypeOK
<1>7. ASSUME NEW r \in Reqs, SendCreate(r) PROVE ReqTypeOK' /\ StoreTypeOK'
  <2>1. req[r].me \in Users /\ req[r].other \in Users
    BY <1>0, <1>7 DEF SendCreate, ReqType, DecisionOps
  <2>2. ASSUME NEW p \in PingIds
        PROVE  [req[r] EXCEPT !.pc = "emit", !.ping = p] \in ReqType
    BY <1>0, <1>7 DEF SendCreate, ReqType, DecisionOps
  <2>3. ReqTypeOK'
    BY <1>0, <1>7, <2>2, ReplyType, BecomesType DEF SendCreate, ReqTypeOK
  <2>4. [state |-> "PENDING", from |-> req[r].me, to |-> req[r].other] \in RowType
    BY <2>1 DEF RowType, LiveStates
  <2>5. row' \in [PingIds -> RowType]
    BY <1>0, <1>7, <2>4 DEF SendCreate, StoreTypeOK
  <2> QED
    BY <1>0, <1>7, <2>3, <2>5 DEF SendCreate, StoreTypeOK
<1>8. ASSUME NEW r \in Reqs, Load(r) PROVE ReqTypeOK' /\ StoreTypeOK'
  <2>1. req[r].ping \in PingIds
    BY <1>0, <1>8 DEF Load, ReqType, DecisionOps
  <2>2. PairOf(req[r].ping) \subseteq Users \cup {NoUser}
    BY <1>0, <2>1 DEF PairOf, StoreTypeOK, RowType
  <2>3. ASSUME NEW other \in Users \cup {NoUser}
        PROVE  [req[r] EXCEPT !.pc = AfterLoad(req[r].op), !.other = other] \in ReqType
    <3>1. AfterLoad(req[r].op) \in DecisionSteps
      BY DEF AfterLoad
    <3> QED
      BY <1>0, <1>8, <3>1 DEF Load, ReqType
  <2>4. ReqTypeOK'
    BY <1>0, <1>8, <2>2, <2>3, ReplyType, BecomesType DEF Load, LearnsPair, ReqTypeOK
  <2> QED
    BY <1>0, <1>8, <2>4 DEF Load, StoreTypeOK
<1>9. ASSUME NEW r \in Reqs, NEW op \in DecisionOps, NEW state \in LiveStates \cup {"DELETED"},
             Write(r, op, state)
      PROVE  ReqTypeOK' /\ StoreTypeOK'
  <2>1. ReqTypeOK'
    BY <1>0, <1>9, GotoType, ReplyType DEF Write
  <2> QED
    BY <1>0, <1>9, <2>1 DEF Write, StoreTypeOK, RowType
<1>10. ASSUME NEW r \in Reqs, AcceptWrite(r) \/ RejectWrite(r) \/ WithdrawWrite(r)
       PROVE  ReqTypeOK' /\ StoreTypeOK'
  BY <1>9, <1>10 DEF AcceptWrite, RejectWrite, WithdrawWrite, DecisionOps, LiveStates
<1>11. ASSUME NEW r \in Reqs, Emit(r) PROVE ReqTypeOK' /\ StoreTypeOK'
  <2>1. ReqTypeOK' /\ EventOf(req[r].op) \in Events
    BY <1>0, <1>11, ReplyType DEF Emit, EventOf, Events, ReqType, DecisionOps
  <2> QED
    BY <1>0, <1>11, <2>1 DEF Emit, Tell, StoreTypeOK
<1>12. ASSUME NEW r \in Reqs, Crash(r) PROVE ReqTypeOK' /\ StoreTypeOK'
  BY <1>0, <1>12, ReplyType DEF Crash, StoreTypeOK
<1>13. ASSUME NEW a \in Users, NEW b \in Users, Block(a, b) \/ Unblock(a, b)
       PROVE  ReqTypeOK' /\ StoreTypeOK'
  BY <1>0, <1>13 DEF Block, Unblock, ReqTypeOK, StoreTypeOK
<1>14. ASSUME NEW u \in Users, KeyExpires(u) PROVE ReqTypeOK' /\ StoreTypeOK'
  BY <1>0, <1>14, PingsAssumption DEF KeyExpires, ReqTypeOK, StoreTypeOK
<1>15. CASE UNCHANGED vars
  BY <1>0, <1>15 DEF vars, ReqTypeOK, StoreTypeOK
<1> QED
  BY <1>1, <1>2, <1>3, <1>4, <1>5, <1>6, <1>7, <1>8, <1>10, <1>11, <1>12, <1>13,
     <1>14, <1>15 DEF Next, Arrive, Continue

(* Type correctness: the tables, the counters and the requests in flight
   hold only what the handlers are written for.                            *)
THEOREM TypeCorrect == Spec => []TypeOK
BY TypeInit, TypeStep, PTL DEF Spec

-----------------------------------------------------------------------------
(* What a step may do to one row: it is created once, keeps its direction  *)
(* for ever, and after that only a decision or a withdrawal touches it.    *)

RowMoves(p) ==
  \/ row'[p] = row[p]
  \/ /\ row[p].state = "UNUSED"
     /\ row'[p].state = "PENDING"
     /\ \E r \in Reqs : SendCreate(r)
  \/ /\ row[p].state # "UNUSED"
     /\ row'[p].from = row[p].from /\ row'[p].to = row[p].to
     /\ row'[p].state \in {"ACCEPTED", "REJECTED", "DELETED"}

LEMMA CreateRow ==
  ASSUME TypeOK, NEW r \in Reqs, SendCreate(r), NEW p \in PingIds, row'[p] # row[p]
  PROVE  /\ row[p].state = "UNUSED"
         /\ row'[p] = [state |-> "PENDING", from |-> req[r].me, to |-> req[r].other]
         /\ ~PairTaken(req[r].me, req[r].other)
         /\ \A q \in PingIds \ {p} : row'[q] = row[q]
<1>1. PICK q \in PingIds :
        /\ row[q].state = "UNUSED"
        /\ row' = [row EXCEPT ![q] = [state |-> "PENDING", from |-> req[r].me,
                                     to |-> req[r].other]]
        /\ ~PairTaken(req[r].me, req[r].other)
  BY DEF SendCreate
<1>2. q = p
  BY <1>1 DEF TypeOK
<1> QED
  BY <1>1, <1>2 DEF TypeOK

LEMMA RowStep ==
  ASSUME TypeOK, [Next]_vars, NEW p \in PingIds
  PROVE  RowMoves(p)
<1>1. ASSUME NEW r \in Reqs, SendCreate(r) PROVE RowMoves(p)
  <2>1. CASE row'[p] = row[p]
    BY <2>1 DEF RowMoves
  <2>2. CASE row'[p] # row[p]
    <3>1. /\ row[p].state = "UNUSED"
          /\ row'[p] = [state |-> "PENDING", from |-> req[r].me, to |-> req[r].other]
      BY <1>1, <2>2, CreateRow
    <3> QED
      BY <1>1, <3>1 DEF RowMoves
  <2> QED
    BY <2>1, <2>2
<1>2. ASSUME NEW r \in Reqs, NEW op, NEW state \in {"ACCEPTED", "REJECTED", "DELETED"},
             Write(r, op, state)
      PROVE  RowMoves(p)
  <2>1. row[p] \in RowType
    BY DEF TypeOK
  <2>2. CASE row' = row
    BY <2>2 DEF RowMoves
  <2>3. CASE p # req[r].ping
    BY <1>2, <2>3 DEF Write, RowMoves, TypeOK
  <2>4. CASE p = req[r].ping /\ row' = [row EXCEPT ![p].state = state] /\ Live(p)
    <3>1. row'[p] = [row[p] EXCEPT !.state = state]
      BY <2>4 DEF TypeOK
    <3> QED
      BY <2>1, <2>4, <3>1 DEF Live, LiveStates, RowMoves, RowType
  <2> QED
    BY <1>2, <2>2, <2>3, <2>4 DEF Write, Writable
<1>3. CASE UNCHANGED row
  BY <1>3 DEF RowMoves
<1>4. ASSUME NEW r \in Reqs, AcceptWrite(r) \/ RejectWrite(r) \/ WithdrawWrite(r)
      PROVE  RowMoves(p)
  BY <1>2, <1>4 DEF AcceptWrite, RejectWrite, WithdrawWrite
<1> QED
  BY <1>1, <1>3, <1>4
     DEF Next, Arrive, Continue, vars, StartSend, StartDecision, SendBlockCheck,
         SendFind, SendIncr, SendExpire, Load, AcceptBlockCheck, Emit, Crash,
         Block, Unblock, KeyExpires

-----------------------------------------------------------------------------
(* The inductive invariant about single requests: what a handler remembers *)
(* of the ping it loaded is still true when it acts, because the facts it  *)
(* remembers are the ones that never change.                               *)

RowShape ==
  \A p \in PingIds : row[p].state # "UNUSED" =>
    row[p].from \in Users /\ row[p].to \in Users /\ row[p].from # row[p].to

Entitled(op, u, p) == u = IF op = "withdraw" THEN row[p].from ELSE row[p].to

ReqShape(r) ==
  LET x == req[r]
  IN /\ x.op = "send" => x.me # x.other
     /\ x.op \in DecisionOps => row[x.ping].state # "UNUSED"
     /\ x.op = "send" /\ x.pc = "emit" =>
          x.ping \in PingIds /\ row[x.ping].state # "UNUSED"
     /\ x.pc = "recheck" => x.op = "accept"
     /\ x.pc \in {"recheck", "write"} => Entitled(x.op, x.me, x.ping)
     /\ x.op \in DecisionOps /\ x.pc = "emit" => row[x.ping].state # "PENDING"

Shape == RowShape /\ \A r \in Reqs : ReqShape(r)

LEMMA RowShapeStep ==
  ASSUME TypeOK, Shape, [Next]_vars
  PROVE  RowShape'
<1> SUFFICES ASSUME NEW p \in PingIds, row'[p].state # "UNUSED"
             PROVE  /\ row'[p].from \in Users /\ row'[p].to \in Users
                    /\ row'[p].from # row'[p].to
  BY DEF RowShape
<1>1. CASE row[p].state # "UNUSED"
  BY <1>1, RowStep DEF RowMoves, Shape, RowShape
<1>2. CASE row[p].state = "UNUSED" /\ row'[p] # row[p]
  <2>1. PICK r \in Reqs : SendCreate(r)
    BY <1>2, RowStep DEF RowMoves
  <2>2. req[r].me \in Users /\ req[r].other \in Users /\ req[r].me # req[r].other
    BY <2>1 DEF SendCreate, TypeOK, ReqType, DecisionOps, Shape, ReqShape
  <2>3. row'[p] = [state |-> "PENDING", from |-> req[r].me, to |-> req[r].other]
    BY <1>2, <2>1, CreateRow
  <2> QED
    BY <2>2, <2>3
<1> QED
  BY <1>1, <1>2

(* A request that is not the one moving keeps its shape: a row it refers to
   may have moved, but only along RowMoves.                                *)
LEMMA ShapeKept ==
  ASSUME TypeOK, Shape, [Next]_vars, NEW s \in Reqs, req'[s] = req[s]
  PROVE  ReqShape(s)'
<1>1. ReqShape(s) /\ req[s] \in ReqType
  BY DEF Shape, TypeOK
<1>2. CASE req[s].op = "none"
  BY <1>1, <1>2 DEF ReqShape, ReqType, DecisionOps
<1>3. CASE req[s].ping \in PingIds
  <2> DEFINE p == req[s].ping
  <2>1. RowMoves(p)
    BY <1>3, RowStep
  <2>2. row[p].state # "UNUSED" =>
          /\ row'[p].from = row[p].from /\ row'[p].to = row[p].to
          /\ row'[p].state # "UNUSED"
          /\ row[p].state # "PENDING" => row'[p].state # "PENDING"
    BY <2>1 DEF RowMoves
  <2>3. CASE req[s].op = "send"
    BY <1>1, <1>3, <2>2, <2>3 DEF ReqShape, ReqType, DecisionOps, SendSteps
  <2>4. CASE req[s].op \in DecisionOps
    BY <1>1, <2>2, <2>4 DEF ReqShape, Entitled, DecisionOps
  <2> QED
    BY <1>1, <1>2, <2>3, <2>4 DEF ReqType
<1>4. CASE req[s].op = "send" /\ req[s].ping = NoPing
  BY <1>1, <1>4, PingsAssumption DEF ReqShape, ReqType, DecisionOps, SendSteps
<1> QED
  BY <1>1, <1>2, <1>3, <1>4 DEF ReqType

(* A request that moved without leaving its row keeps it too, if it does so
   along an edge of its handler.                                           *)
LEMMA ShapeReply ==
  ASSUME NEW r \in Reqs, TypeOK, Reply(r) \/ Fail(r)
  PROVE  ReqShape(r)'
<1>1. req'[r] = IdleReq \/ req'[r] = [IdleReq EXCEPT !.pc = "failed"]
  BY DEF Reply, Fail, Becomes, TypeOK
<1> QED
  BY <1>1 DEF IdleReq, ReqShape, DecisionOps

LEMMA BecomesAt ==
  ASSUME TypeOK, NEW r \in Reqs, NEW x, Becomes(r, x)
  PROVE  req'[r] = x /\ \A s \in Reqs \ {r} : req'[s] = req[s]
BY DEF Becomes, TypeOK

(* Updated fields of a request hold what was put there.                    *)
LEMMA RequestFields ==
  ASSUME TypeOK, NEW r \in Reqs, NEW pc, NEW op, NEW ping, NEW other
  PROVE  /\ [req[r] EXCEPT !.pc = pc].pc = pc
         /\ [req[r] EXCEPT !.pc = pc, !.ping = ping].pc = pc
         /\ [req[r] EXCEPT !.op = op, !.pc = pc, !.ping = ping].pc = pc
         /\ [req[r] EXCEPT !.pc = pc, !.other = other].ping = req[r].ping
<1>1. req[r] \in ReqType
  BY DEF TypeOK
<1> QED
  BY <1>1 DEF ReqType

LEMMA GotoAt ==
  ASSUME TypeOK, NEW r \in Reqs, NEW pc, Goto(r, pc)
  PROVE  /\ req'[r].op = req[r].op /\ req'[r].pc = pc /\ req'[r].me = req[r].me
         /\ req'[r].other = req[r].other /\ req'[r].ping = req[r].ping
<1>1. req[r] \in ReqType
  BY DEF TypeOK
<1>2. req'[r] = [req[r] EXCEPT !.pc = pc]
  BY BecomesAt DEF Goto
<1> QED
  BY <1>1, <1>2 DEF ReqType

(* Where a step may leave the request that makes it.                       *)
LEMMA NextPc ==
  ASSUME TypeOK, NEW r \in Reqs
  PROVE  /\ SendIncr(r) => req'[r].pc \in {"idle", "expire", "create"}
         /\ Load(r) => req'[r].pc \in {"idle", "recheck", "write"}
         /\ AcceptBlockCheck(r) => req'[r].pc \in {"idle", "write"}
         /\ SendFind(r) => req'[r].pc \in {"idle", "incr", "load"}
         /\ \/ Arrive(r) \/ SendBlockCheck(r) \/ SendExpire(r) \/ SendCreate(r)
            \/ AcceptWrite(r) \/ RejectWrite(r) \/ WithdrawWrite(r) \/ Emit(r)
            \/ Crash(r)
            => req'[r].pc \in {"idle", "failed", "blocks", "find", "create", "load", "emit"}
<1>1. ASSUME Reply(r) \/ Fail(r) PROVE req'[r].pc \in {"idle", "failed"}
  BY <1>1, BecomesAt DEF Reply, Fail, IdleReq
<1>2. ASSUME Reply(r) PROVE req'[r].pc = "idle"
  BY <1>2, BecomesAt DEF Reply, IdleReq
<1>3. SendIncr(r) => req'[r].pc \in {"idle", "expire", "create"}
  BY <1>2, GotoAt DEF SendIncr
<1>4. ASSUME Load(r) PROVE req'[r].pc \in {"idle", "recheck", "write"}
  <2>1. ASSUME NEW other,
               Becomes(r, [req[r] EXCEPT !.pc = AfterLoad(req[r].op), !.other = other])
        PROVE  req'[r].pc \in {"recheck", "write"}
    <3>1. req'[r] = [req[r] EXCEPT !.pc = AfterLoad(req[r].op), !.other = other]
      BY <2>1, BecomesAt
    <3>2. [req[r] EXCEPT !.pc = AfterLoad(req[r].op), !.other = other].pc
            = AfterLoad(req[r].op)
      BY RequestFields
    <3> QED
      BY <3>1, <3>2 DEF AfterLoad
  <2> QED
    BY <1>2, <1>4, <2>1 DEF Load
<1>5. AcceptBlockCheck(r) => req'[r].pc \in {"idle", "write"}
  BY <1>2, GotoAt DEF AcceptBlockCheck
<1>6. ASSUME SendFind(r) PROVE req'[r].pc \in {"idle", "incr", "load"}
  <2>1. ASSUME NEW p, Becomes(r, [req[r] EXCEPT !.op = "accept", !.pc = "load", !.ping = p])
        PROVE  req'[r].pc = "load"
    <3>1. req'[r] = [req[r] EXCEPT !.op = "accept", !.pc = "load", !.ping = p]
      BY <2>1, BecomesAt
    <3>2. [req[r] EXCEPT !.op = "accept", !.pc = "load", !.ping = p].pc = "load"
      BY RequestFields
    <3> QED
      BY <3>1, <3>2
  <2> QED
    BY <1>2, <1>6, <2>1, GotoAt DEF SendFind
<1>7. ASSUME SendCreate(r) PROVE req'[r].pc \in {"idle", "failed", "emit"}
  <2>1. ASSUME NEW p, Becomes(r, [req[r] EXCEPT !.pc = "emit", !.ping = p])
        PROVE  req'[r].pc = "emit"
    <3>1. req'[r] = [req[r] EXCEPT !.pc = "emit", !.ping = p]
      BY <2>1, BecomesAt
    <3>2. [req[r] EXCEPT !.pc = "emit", !.ping = p].pc = "emit"
      BY RequestFields
    <3> QED
      BY <3>1, <3>2
  <2> QED
    BY <1>1, <1>7, <2>1 DEF SendCreate
<1>8. ASSUME Arrive(r) PROVE req'[r].pc \in {"blocks", "load"}
  <2>1. ASSUME NEW a \in Users, NEW b \in Users, StartSend(r, a, b)
        PROVE  req'[r].pc = "blocks"
    BY <2>1, BecomesAt DEF StartSend
  <2>2. ASSUME NEW op \in DecisionOps, NEW a \in Users, NEW p \in PingIds,
               StartDecision(r, op, a, p)
        PROVE  req'[r].pc = "load"
    BY <2>2, BecomesAt DEF StartDecision
  <2> QED
    BY <1>8, <2>1, <2>2 DEF Arrive
<1>9. ASSUME \/ SendBlockCheck(r) \/ SendExpire(r) \/ AcceptWrite(r) \/ RejectWrite(r)
             \/ WithdrawWrite(r) \/ Emit(r) \/ Crash(r)
      PROVE  req'[r].pc \in {"idle", "failed", "find", "create", "emit"}
  BY <1>1, <1>9, GotoAt
     DEF SendBlockCheck, SendExpire, AcceptWrite, RejectWrite, WithdrawWrite, Write,
         Emit, Crash
<1> QED
  BY <1>3, <1>4, <1>5, <1>6, <1>7, <1>8, <1>9

LEMMA ReqShapeStep ==
  ASSUME TypeOK, Shape, Next, NEW r \in Reqs, Arrive(r) \/ Continue(r) \/ Crash(r)
  PROVE  ReqShape(r)'
<1>0. ReqShape(r) /\ req[r] \in ReqType
  BY DEF Shape, TypeOK
<1> USE DEF DecisionOps
<1>1. CASE Reply(r) \/ Fail(r)
  BY <1>1, ShapeReply
<1>2. ASSUME NEW a \in Users, NEW b \in Users, StartSend(r, a, b) PROVE ReqShape(r)'
  BY <1>2, BecomesAt DEF StartSend, ReqShape
<1>3. ASSUME NEW a \in Users, NEW p \in PingIds, NEW op \in DecisionOps,
             StartDecision(r, op, a, p)
      PROVE  ReqShape(r)'
  BY <1>3, BecomesAt DEF StartDecision, ReqShape
<1>4. ASSUME NEW pc \in {"find", "incr", "expire", "create"}, req[r].op = "send",
             UNCHANGED row, Goto(r, pc)
      PROVE  ReqShape(r)'
  BY <1>0, <1>4, GotoAt DEF ReqShape
<1>5. CASE SendFind(r) /\ ~Reply(r) /\ ~Goto(r, "incr")
  <2>1. PICK p \in PingIds : /\ row[p].state = "PENDING"
                             /\ Becomes(r, [req[r] EXCEPT !.op = "accept", !.pc = "load",
                                                          !.ping = p])
                             /\ UNCHANGED row
    BY <1>5 DEF SendFind, LiveFor
  <2>2. req'[r] = [req[r] EXCEPT !.op = "accept", !.pc = "load", !.ping = p]
    BY <2>1, BecomesAt
  <2> QED
    BY <1>0, <2>1, <2>2 DEF ReqShape, ReqType
<1>6. CASE SendCreate(r) /\ ~Fail(r)
  <2>1. PICK p \in PingIds : /\ Becomes(r, [req[r] EXCEPT !.pc = "emit", !.ping = p])
                             /\ row' = [row EXCEPT ![p] = [state |-> "PENDING",
                                          from |-> req[r].me, to |-> req[r].other]]
    BY <1>6 DEF SendCreate
  <2>2. req'[r] = [req[r] EXCEPT !.pc = "emit", !.ping = p] /\ row'[p].state = "PENDING"
    BY <2>1, BecomesAt DEF TypeOK
  <2> QED
    BY <1>0, <1>6, <2>2 DEF ReqShape, ReqType, SendCreate
<1>7. CASE Load(r) /\ ~Reply(r)
  <2>1. PICK other \in PairOf(req[r].ping) :
          Becomes(r, [req[r] EXCEPT !.pc = AfterLoad(req[r].op), !.other = other])
    BY <1>7 DEF Load
  <2>2. req'[r] = [req[r] EXCEPT !.pc = AfterLoad(req[r].op), !.other = other]
    BY <2>1, BecomesAt
  <2>3. MayAct(req[r].op, req[r].me, req[r].ping) /\ UNCHANGED row
    BY <1>7 DEF Load
  <2> QED
    BY <1>0, <1>7, <2>2, <2>3 DEF ReqShape, ReqType, Load, MayAct, Entitled, AfterLoad
<1>8. CASE AcceptBlockCheck(r) /\ Goto(r, "write")
  BY <1>0, <1>8, GotoAt DEF AcceptBlockCheck, ReqShape, Entitled
<1>9. ASSUME NEW op \in DecisionOps, NEW state \in {"ACCEPTED", "REJECTED", "DELETED"},
             Write(r, op, state), ~Fail(r)
      PROVE  ReqShape(r)'
  <2>1. req[r].op = op /\ req[r].ping \in PingIds
    BY <1>0, <1>9 DEF Write, ReqType
  <2>2. row'[req[r].ping].state = state
    BY <1>9, <2>1 DEF Write, TypeOK, RowType
  <2> QED
    BY <1>9, <2>1, <2>2, GotoAt DEF Write, ReqShape
<1>10. CASE Emit(r) \/ Crash(r)
  BY <1>1, <1>10 DEF Emit, Crash
<1> QED
  BY <1>1, <1>2, <1>3, <1>4, <1>5, <1>6, <1>7, <1>8, <1>9, <1>10
     DEF Arrive, Continue, SendBlockCheck, SendFind, SendIncr, SendExpire,
         AcceptBlockCheck, AcceptWrite, RejectWrite, WithdrawWrite

LEMMA ShapeInit == Init => Shape
BY DEF Init, Shape, RowShape, ReqShape, NoRow, IdleReq, DecisionOps

LEMMA ShapeStep == TypeOK /\ Shape /\ [Next]_vars => Shape'
<1> SUFFICES ASSUME TypeOK, Shape, [Next]_vars PROVE Shape'
  OBVIOUS
<1>1. ASSUME NEW s \in Reqs PROVE ReqShape(s)'
  <2>1. CASE req'[s] = req[s]
    BY <2>1, ShapeKept
  <2>2. CASE req'[s] # req[s]
    <3>1. PICK r \in Reqs : Next /\ (Arrive(r) \/ Continue(r) \/ Crash(r))
      BY <2>2 DEF Next, vars, Block, Unblock, KeyExpires
    <3>2. \A q \in Reqs \ {r} : req'[q] = req[q]
      BY <3>1 DEF Arrive, Continue, Crash, StartSend, StartDecision, SendBlockCheck,
           SendFind, SendIncr, SendExpire, SendCreate, Load, AcceptBlockCheck,
           AcceptWrite, RejectWrite, WithdrawWrite, Write, Emit, Goto, Reply, Fail,
           Becomes, TypeOK
    <3> QED
      BY <2>2, <3>1, <3>2, ReqShapeStep
  <2> QED
    BY <2>1, <2>2
<1> QED
  BY <1>1, RowShapeStep DEF Shape

THEOREM ShapeCorrect == Spec => []Shape
BY TypeCorrect, ShapeInit, ShapeStep, PTL DEF Spec

-----------------------------------------------------------------------------
(* Only the recipient of a ping accepts or rejects it and only its sender
   withdraws it, however long ago the handler read the row: who may act
   depends on the direction of the row, which no step changes.             *)
THEOREM EntitledOnly == Spec => OnlyTheEntitledDecide
<1> DEFINE Step(p) ==
      row'[p].state # row[p].state /\ row[p].state # "UNUSED" =>
         \E r \in Reqs :
           /\ req[r].ping = p /\ req[r].pc = "write"
           /\ req[r].me = IF row'[p].state = "DELETED" THEN row[p].from
                                                       ELSE row[p].to
<1>1. ASSUME TypeOK, Shape, [Next]_vars, NEW p \in PingIds PROVE Step(p)
  <2> SUFFICES ASSUME row'[p].state # row[p].state, row[p].state # "UNUSED"
               PROVE  Step(p)
    OBVIOUS
  <2>1. \A r \in Reqs : ~SendCreate(r)
    BY <1>1, CreateRow
  <2>2. PICK r \in Reqs : AcceptWrite(r) \/ RejectWrite(r) \/ WithdrawWrite(r)
    BY <1>1, <2>1
       DEF Next, Arrive, Continue, vars, StartSend, StartDecision, SendBlockCheck,
           SendFind, SendIncr, SendExpire, Load, AcceptBlockCheck, Emit, Crash,
           Block, Unblock, KeyExpires
  <2>3. p = req[r].ping
    BY <1>1, <2>2 DEF AcceptWrite, RejectWrite, WithdrawWrite, Write, TypeOK
  <2>4. row'[p].state = CASE req[r].op = "accept" -> "ACCEPTED"
                          [] req[r].op = "reject" -> "REJECTED"
                          [] req[r].op = "withdraw" -> "DELETED"
    BY <1>1, <2>2, <2>3
       DEF AcceptWrite, RejectWrite, WithdrawWrite, Write, TypeOK, RowType
  <2>5. Entitled(req[r].op, req[r].me, p) /\ req[r].pc = "write"
          /\ req[r].op \in DecisionOps
    BY <1>1, <2>2, <2>3
       DEF AcceptWrite, RejectWrite, WithdrawWrite, Write, Shape, ReqShape, DecisionOps
  <2> QED
    BY <2>3, <2>4, <2>5 DEF Entitled, DecisionOps
<1>2. TypeOK /\ Shape /\ [Next]_vars => [\A p \in PingIds : Step(p)]_vars
  BY <1>1
<1> QED
  BY <1>2, TypeCorrect, ShapeCorrect, PTL DEF Spec, OnlyTheEntitledDecide

-----------------------------------------------------------------------------
(* One row per pair.  The check in send (findUnique) is not what gives it: *)
(* it is the unique index, asked again at the insert.                      *)

LEMMA OnePerPairStep ==
  ASSUME TypeOK, Shape, OnePerPair, [Next]_vars
  PROVE  OnePerPair'
<1> SUFFICES ASSUME NEW p \in PingIds, NEW q \in PingIds, p # q,
                    Live(p)', Live(q)', PairOf(p)' = PairOf(q)'
             PROVE  FALSE
  BY DEF OnePerPair
<1>1. ASSUME NEW x \in PingIds, Live(x)', row[x].state # "UNUSED"
      PROVE  Live(x) /\ PairOf(x)' = PairOf(x)
  <2>1. RowMoves(x)
    BY RowStep
  <2>2. PairOf(x)' = PairOf(x)
    BY <1>1, <2>1 DEF RowMoves, PairOf
  <2>3. CASE row'[x] = row[x]
    BY <1>1, <2>2, <2>3 DEF Live
  <2>4. CASE row'[x] # row[x]
    <3>1. \A r \in Reqs : ~SendCreate(r)
      BY <1>1, <2>4, CreateRow
    <3>2. PICK r \in Reqs : AcceptWrite(r) \/ RejectWrite(r) \/ WithdrawWrite(r)
      BY <2>4, <3>1
         DEF Next, Arrive, Continue, vars, StartSend, StartDecision, SendBlockCheck,
             SendFind, SendIncr, SendExpire, Load, AcceptBlockCheck, Emit, Crash,
             Block, Unblock, KeyExpires
    <3> QED
      BY <2>2, <2>4, <3>2
         DEF AcceptWrite, RejectWrite, WithdrawWrite, Write, Writable, TypeOK
  <2> QED
    BY <2>3, <2>4
<1>2. CASE row[p].state # "UNUSED" /\ row[q].state # "UNUSED"
  BY <1>1, <1>2 DEF OnePerPair
<1>3. ASSUME NEW x \in PingIds, NEW y \in PingIds, x # y, row[x].state = "UNUSED",
             Live(x)', Live(y)', PairOf(x)' = PairOf(y)'
      PROVE  FALSE
  <2>1. row'[x] # row[x]
    BY <1>3 DEF Live, LiveStates
  <2>2. PICK r \in Reqs : SendCreate(r)
    BY <1>3, <2>1, RowStep DEF RowMoves
  <2>3. /\ row'[x] = [state |-> "PENDING", from |-> req[r].me, to |-> req[r].other]
        /\ ~PairTaken(req[r].me, req[r].other)
        /\ row'[y] = row[y]
    BY <1>3, <2>1, <2>2, CreateRow
  <2>4. PairOf(x)' = {req[r].me, req[r].other}
    BY <2>3 DEF PairOf
  <2>5. Live(y) /\ PairOf(y) = PairOf(x)'
    BY <1>3, <2>3 DEF Live, PairOf
  <2> QED
    BY <2>3, <2>4, <2>5 DEF PairTaken, LiveFor
<1> QED
  BY <1>2, <1>3

(* Two sends of the same pair can both find no row and both insert: still
   there is never more than one row for the pair.                          *)
THEOREM OneRowPerPair == Spec => []OnePerPair
<1>1. Init => OnePerPair
  BY DEF Init, OnePerPair, Live, LiveStates, NoRow
<1>2. TypeOK /\ Shape /\ OnePerPair /\ [Next]_vars => OnePerPair'
  BY OnePerPairStep
<1> QED
  BY <1>1, <1>2, TypeCorrect, ShapeCorrect, PTL DEF Spec

-----------------------------------------------------------------------------
(* Events follow the row.                                                  *)

(* A client that was told of a decision or a withdrawal never finds the ping
   still undecided: the event follows the commit, not the other way round. *)
EventsFollowTheRow ==
  \A p \in PingIds :
    /\ told[p] # {} => row[p].state # "UNUSED"
    /\ told[p] \ {"PING_RECEIVED"} # {} => row[p].state # "PENDING"

LEMMA EventsStep ==
  ASSUME TypeOK, Shape, EventsFollowTheRow, [Next]_vars
  PROVE  EventsFollowTheRow'
<1> SUFFICES ASSUME NEW p \in PingIds
             PROVE  /\ told'[p] # {} => row'[p].state # "UNUSED"
                    /\ told'[p] \ {"PING_RECEIVED"} # {} => row'[p].state # "PENDING"
  BY DEF EventsFollowTheRow
<1>1. RowMoves(p)
  BY RowStep
<1>2. row[p].state # "UNUSED" => row'[p].state # "UNUSED"
        /\ (row[p].state # "PENDING" => row'[p].state # "PENDING")
  BY <1>1 DEF RowMoves
<1>3. CASE told'[p] = told[p]
  BY <1>2, <1>3 DEF EventsFollowTheRow
<1>4. CASE told'[p] # told[p]
  <2>1. PICK r \in Reqs : Emit(r)
    BY <1>4
       DEF Next, Arrive, Continue, vars, StartSend, StartDecision, SendBlockCheck,
           SendFind, SendIncr, SendExpire, SendCreate, Load, AcceptBlockCheck,
           AcceptWrite, RejectWrite, WithdrawWrite, Write, Crash, Block, Unblock,
           KeyExpires
  <2>2. p = req[r].ping /\ row' = row
          /\ told'[p] = told[p] \cup {EventOf(req[r].op)}
    BY <1>4, <2>1 DEF Emit, Tell, TypeOK
  <2>3. req[r] \in ReqType /\ ReqShape(r)
    BY DEF TypeOK, Shape
  <2>4. CASE req[r].op = "send"
    BY <2>1, <2>2, <2>3, <2>4 DEF Emit, EventOf, ReqShape, EventsFollowTheRow
  <2>5. CASE req[r].op \in DecisionOps
    BY <2>1, <2>2, <2>3, <2>5 DEF Emit, ReqShape
  <2> QED
    BY <2>1, <2>3, <2>4, <2>5 DEF Emit, ReqType
<1> QED
  BY <1>3, <1>4

(* A decision is never announced before it is committed.                   *)
THEOREM EventsAfterCommit == Spec => []EventsFollowTheRow
<1>1. Init => EventsFollowTheRow
  BY DEF Init, EventsFollowTheRow
<1>2. TypeOK /\ Shape /\ EventsFollowTheRow /\ [Next]_vars => EventsFollowTheRow'
  BY EventsStep
<1> QED
  BY <1>1, <1>2, TypeCorrect, ShapeCorrect, PTL DEF Spec

-----------------------------------------------------------------------------
(* A settled decision is final.                                            *)

LEMMA SettledStep ==
  ASSUME TypeOK, Shape, [Next]_vars, NEW p \in PingIds, Settled(p)
  PROVE  Settled(p)' /\ row'[p] = row[p]
<1>1. row'[p] = row[p]
  <2>1. \A r \in Reqs : ~(SendCreate(r) /\ row'[p] # row[p])
    BY CreateRow DEF Settled
  <2>2. ASSUME NEW r \in Reqs, AcceptWrite(r) \/ RejectWrite(r) \/ WithdrawWrite(r)
        PROVE  row'[p] = row[p]
    BY <2>2 DEF AcceptWrite, RejectWrite, WithdrawWrite, Write, Settled, TypeOK
  <2> QED
    BY <2>1, <2>2
       DEF Next, Arrive, Continue, vars, StartSend, StartDecision, SendBlockCheck,
           SendFind, SendIncr, SendExpire, Load, AcceptBlockCheck, Emit, Crash,
           Block, Unblock, KeyExpires
<1>2. ASSUME NEW r \in Reqs, req'[r].ping = p, req'[r].pc \in {"recheck", "write"},
             req'[r] # req[r]
      PROVE  FALSE
  <2>1. Load(r) \/ AcceptBlockCheck(r)
    <3>1. PICK s \in Reqs : Arrive(s) \/ Continue(s) \/ Crash(s)
      BY <1>2 DEF Next, vars, Block, Unblock, KeyExpires
    <3>2. s = r
      BY <1>2, <3>1 DEF Arrive, StartSend, StartDecision, Continue, SendBlockCheck,
         SendFind, SendIncr, SendExpire, SendCreate, Load, AcceptBlockCheck,
         AcceptWrite, RejectWrite, WithdrawWrite, Write, Emit, Crash, Goto, Reply,
         Fail, Becomes, TypeOK
    <3> QED
      BY <1>2, <3>1, <3>2, NextPc DEF Continue
  <2>2. CASE AcceptBlockCheck(r)
    <3>1. req'[r].ping = req[r].ping
      BY <1>2, <2>2, GotoAt, BecomesAt DEF AcceptBlockCheck, Reply, IdleReq
    <3> QED
      BY <1>2, <2>2, <3>1 DEF AcceptBlockCheck, Settled
  <2>3. CASE Load(r)
    <3>1. ~Reply(r)
      BY <1>2, BecomesAt DEF Reply, IdleReq
    <3>2. MayAct(req[r].op, req[r].me, req[r].ping)
      BY <2>3, <3>1 DEF Load
    <3>3. PICK other : Becomes(r, [req[r] EXCEPT !.pc = AfterLoad(req[r].op),
                                                !.other = other])
      BY <2>3, <3>1 DEF Load
    <3>4. req'[r] = [req[r] EXCEPT !.pc = AfterLoad(req[r].op), !.other = other]
      BY <3>3, BecomesAt
    <3>5. [req[r] EXCEPT !.pc = AfterLoad(req[r].op), !.other = other].ping = req[r].ping
      BY RequestFields
    <3> QED
      BY <1>2, <3>2, <3>4, <3>5 DEF MayAct, Settled
  <2> QED
    BY <2>1, <2>2, <2>3
<1> QED
  BY <1>1, <1>2 DEF Settled

(* Once no request that saw the ping PENDING is left, a rejection is terminal
   and an accepted thread stays open, for ever.                            *)
THEOREM SettledIsFinal == Spec => SettledForGood
<1>1. TypeOK /\ Shape /\ [Next]_vars
        => [\A p \in PingIds : Settled(p) => Settled(p)' /\ row'[p] = row[p]]_vars
  BY SettledStep
<1> QED
  BY <1>1, TypeCorrect, ShapeCorrect, PTL DEF Spec, SettledForGood

-----------------------------------------------------------------------------
(* Blocks are honoured.                                                    *)

(* What "shut" records: a request is in it only while its pair is blocked. *)
BlockInv ==
  /\ BlockHonoured
  /\ \A r \in shut : Blocked(req[r].me, req[r].other)

LEMMA BlockInvStep ==
  ASSUME TypeOK, BlockInv, [Next]_vars
  PROVE  BlockInv'
<1> SUFFICES ASSUME NEW s \in Reqs
             PROVE  /\ PastBlockCheck(s)' => s \notin shut'
                    /\ s \in shut' => BlockedIn(blocks', req'[s].me, req'[s].other)
  <2>1. shut' \subseteq Reqs
    BY TypeStep DEF TypeOK
  <2> QED
    BY <2>1 DEF BlockInv, BlockHonoured, Blocked, BlockedIn
<1>0. /\ PastBlockCheck(s) => s \notin shut
      /\ s \in shut => BlockedIn(blocks, req[s].me, req[s].other)
      /\ req[s] \in ReqType
  BY DEF BlockInv, BlockHonoured, Blocked, TypeOK
<1>1. ASSUME req'[s] = req[s], blocks' = blocks, s \in shut' => s \in shut
      PROVE  /\ PastBlockCheck(s)' => s \notin shut'
             /\ s \in shut' => BlockedIn(blocks', req'[s].me, req'[s].other)
  BY <1>0, <1>1 DEF PastBlockCheck
<1>2. ASSUME NEW r \in Reqs, r # s, Arrive(r) \/ Continue(r) \/ Crash(r)
      PROVE  req'[s] = req[s] /\ blocks' = blocks /\ (s \in shut' => s \in shut)
  BY <1>2 DEF Arrive, Continue, Crash, StartSend, StartDecision, SendBlockCheck,
     SendFind, SendIncr, SendExpire, SendCreate, Load, AcceptBlockCheck, AcceptWrite,
     RejectWrite, WithdrawWrite, Write, Emit, Goto, Reply, Fail, Becomes, LearnsPair,
     TypeOK
<1>3. ASSUME NEW a \in Users, NEW b \in Users, Block(a, b) \/ Unblock(a, b)
      PROVE  /\ PastBlockCheck(s)' => s \notin shut'
             /\ s \in shut' => BlockedIn(blocks', req'[s].me, req'[s].other)
  BY <1>0, <1>3 DEF Block, Unblock, BlockedIn, PastBlockCheck
<1>4. ASSUME Arrive(s) \/ Continue(s) \/ Crash(s)
      PROVE  /\ PastBlockCheck(s)' => s \notin shut'
             /\ s \in shut' => BlockedIn(blocks', req'[s].me, req'[s].other)
  <2>0. UNCHANGED blocks
    BY <1>4 DEF Arrive, Continue, Crash, StartSend, StartDecision, SendBlockCheck,
       SendFind, SendIncr, SendExpire, SendCreate, Load, AcceptBlockCheck, AcceptWrite,
       RejectWrite, WithdrawWrite, Write, Emit
  <2>1. CASE s \notin shut'
    BY <2>1
  <2>2. CASE s \in shut'
    <3>1. ASSUME NEW a \in Users, NEW b \in Users, StartSend(s, a, b)
          PROVE  ~PastBlockCheck(s)' /\ BlockedIn(blocks', req'[s].me, req'[s].other)
      BY <2>0, <2>2, <3>1, BecomesAt
         DEF StartSend, LearnsPair, Blocked, PastBlockCheck
    <3>2. ASSUME Load(s)
          PROVE  ~PastBlockCheck(s)' /\ BlockedIn(blocks', req'[s].me, req'[s].other)
      <4>1. req[s].op \in DecisionOps /\ ~Reply(s)
        BY <2>2, <3>2 DEF Load, Reply
      <4>2. PICK other : /\ Becomes(s, [req[s] EXCEPT !.pc = AfterLoad(req[s].op),
                                                      !.other = other])
                         /\ LearnsPair(s, req[s].me, other)
        BY <3>2, <4>1 DEF Load
      <4>3. req'[s] = [req[s] EXCEPT !.pc = AfterLoad(req[s].op), !.other = other]
        BY <4>2, BecomesAt
      <4>4. /\ req'[s].me = req[s].me /\ req'[s].other = other
            /\ req'[s].op = req[s].op /\ req'[s].pc = AfterLoad(req[s].op)
        BY <1>0, <4>3 DEF ReqType
      <4> QED
        BY <2>0, <2>2, <4>1, <4>2, <4>4
           DEF LearnsPair, Blocked, PastBlockCheck, AfterLoad, DecisionOps
    <3>3. ASSUME NEW op \in {"reject", "withdraw"}, NEW state, Write(s, op, state)
          PROVE  ~PastBlockCheck(s)' /\ BlockedIn(blocks', req'[s].me, req'[s].other)
      <4>1. Goto(s, "emit") /\ req[s].op = op /\ s \in shut
        BY <2>2, <3>3 DEF Write, Fail, Goto
      <4> QED
        BY <1>0, <2>0, <4>1, GotoAt DEF PastBlockCheck
    <3>4. ASSUME SendBlockCheck(s) \/ AcceptBlockCheck(s) PROVE FALSE
      BY <1>0, <2>2, <3>4 DEF SendBlockCheck, AcceptBlockCheck, Goto, Reply, Blocked
    <3>5. ASSUME \/ SendFind(s) \/ SendIncr(s) \/ SendExpire(s) \/ SendCreate(s)
                 \/ AcceptWrite(s) \/ Emit(s) \/ Crash(s)
          PROVE  FALSE
      BY <1>0, <2>2, <3>5
         DEF SendFind, SendIncr, SendExpire, SendCreate, AcceptWrite, Write, Emit,
             Crash, Goto, Reply, Fail, PastBlockCheck
    <3>6. ASSUME NEW op, NEW a, NEW p, StartDecision(s, op, a, p) PROVE FALSE
      BY <2>2, <3>6 DEF StartDecision
    <3> QED
      BY <1>4, <3>1, <3>2, <3>3, <3>4, <3>5, <3>6
         DEF Arrive, Continue, RejectWrite, WithdrawWrite
  <2> QED
    BY <2>1, <2>2
<1>5. CASE UNCHANGED <<req, blocks, shut>>
  BY <1>1, <1>5
<1> QED
  BY <1>1, <1>2, <1>3, <1>4, <1>5 DEF Next, vars, KeyExpires

(* Whatever path a request takes through send and accept, a block that stood
   the whole time is seen before anything is written or announced.         *)
THEOREM BlocksAreHonoured == Spec => []BlockHonoured
<1>1. Init => BlockInv
  BY DEF Init, BlockInv, BlockHonoured, PastBlockCheck, IdleReq
<1>2. TypeOK /\ BlockInv /\ [Next]_vars => BlockInv'
  BY BlockInvStep
<1>3. BlockInv => BlockHonoured
  BY DEF BlockInv
<1> QED
  BY <1>1, <1>2, <1>3, TypeCorrect, PTL DEF Spec

-----------------------------------------------------------------------------
(* The daily budget.  WithinBudget alone is not inductive: the request that *)
(* created the Redis key has been counted but is let through one step       *)
(* later, after its expire.                                                 *)

Owes(r) == At(r, "send", "expire")

BudgetInv ==
  /\ \A u \in Users : passed[u] <= MaxPerDay /\ passed[u] <= rate[u]
  /\ \A u \in ttl : rate[u] > 0
  /\ \A r \in Reqs : Owes(r) =>
       /\ passed[req[r].me] + 1 <= rate[req[r].me]
       /\ passed[req[r].me] + 1 <= MaxPerDay
       /\ req[r].me \notin ttl
  /\ \A r, s \in Reqs : Owes(r) /\ Owes(s) /\ req[r].me = req[s].me => r = s

(* A step that neither counts nor forgets keeps it, if no request comes to
   owe anything.                                                           *)
LEMMA BudgetKept ==
  ASSUME TypeOK, BudgetInv, UNCHANGED <<rate, ttl, passed>>,
         \A r \in Reqs : Owes(r)' => req'[r] = req[r]
  PROVE  BudgetInv'
BY DEF BudgetInv, Owes

LEMMA BudgetStep ==
  ASSUME TypeOK, BudgetInv, [Next]_vars
  PROVE  BudgetInv'
<1>1. ASSUME NEW r \in Reqs, SendIncr(r) PROVE BudgetInv'
  <2> DEFINE u == req[r].me
  <2>1. /\ u \in Users /\ rate[u] \in 0..(MaxPerDay + 1) /\ passed[u] \in Nat
        /\ MaxPerDay \in Nat \ {0} /\ ~Owes(r)
    BY <1>1, PingsAssumption DEF SendIncr, TypeOK, ReqType, DecisionOps, Owes
  <2>2. /\ rate' = [rate EXCEPT ![u] = Bumped(u)] /\ ttl' = ttl
        /\ \A s \in Reqs \ {r} : req'[s] = req[s]
    BY <1>1, BecomesAt DEF SendIncr, Goto, Reply
  <2>3. \A v \in Users : rate[v] <= rate'[v]
    BY <2>1, <2>2 DEF TypeOK, Bumped
  <2>4. CASE Bumped(u) = 1
    <3>1. rate[u] = 0 /\ passed[u] = 0 /\ passed' = passed /\ Goto(r, "expire")
      BY <1>1, <2>1, <2>4 DEF SendIncr, Bumped, BudgetInv, WithinLimit
    <3>2. \A s \in Reqs : Owes(s) => req[s].me # u
      BY <2>1, <3>1 DEF BudgetInv
    <3>3. req'[r].me = u /\ u \notin ttl
      BY <2>1, <3>1, GotoAt DEF BudgetInv
    <3>4. rate'[u] = 1 /\ \A v \in Users \ {u} : rate'[v] = rate[v]
      BY <2>1, <2>2, <2>4 DEF TypeOK
    <3>5. \A s \in Reqs : Owes(s) => s # r /\ req[s].me \in Users \ {u}
      BY <2>1, <3>2 DEF TypeOK, ReqType, DecisionOps, Owes
    <3>6. \A s \in Reqs : Owes(s)' => s = r \/ (Owes(s) /\ req'[s] = req[s])
      BY <2>2 DEF Owes
    <3>7. \A v \in Users : passed'[v] <= MaxPerDay /\ passed'[v] <= rate'[v]
      BY <2>1, <3>1, <3>4 DEF BudgetInv, TypeOK
    <3>8. \A v \in ttl' : rate'[v] > 0
      BY <2>2, <3>4 DEF BudgetInv, TypeOK
    <3>9. \A s \in Reqs : Owes(s)' => /\ passed'[req'[s].me] + 1 <= rate'[req'[s].me]
                                      /\ passed'[req'[s].me] + 1 <= MaxPerDay
                                      /\ req'[s].me \notin ttl'
      BY <2>1, <2>2, <3>1, <3>3, <3>4, <3>5, <3>6 DEF BudgetInv
    <3>10. \A s, t \in Reqs : Owes(s)' /\ Owes(t)' /\ req'[s].me = req'[t].me => s = t
      BY <3>3, <3>5, <3>6 DEF BudgetInv
    <3> QED
      BY <3>7, <3>8, <3>9, <3>10 DEF BudgetInv
  <2>5. CASE Bumped(u) # 1
    <3>1. ~Owes(r)'
      <4>1. CASE Reply(r)
        BY <4>1 DEF Reply, Becomes, IdleReq, Owes, TypeOK
      <4>2. CASE Goto(r, "create")
        BY <4>2, GotoAt DEF Owes
      <4> QED
        BY <1>1, <2>5, <4>1, <4>2 DEF SendIncr
    <3>2. \/ passed' = passed
          \/ /\ passed' = [passed EXCEPT ![u] = @ + 1]
             /\ rate[u] + 1 <= MaxPerDay
             /\ rate'[u] = rate[u] + 1
      BY <1>1, <2>1, <2>2, <2>5 DEF SendIncr, Bumped, WithinLimit, TypeOK
    <3>3. \A v \in Users : v # u => rate'[v] = rate[v]
      BY <2>2 DEF TypeOK
    <3>4. \A s \in Reqs : Owes(s)' => s # r /\ Owes(s) /\ req'[s] = req[s]
                                         /\ req[s].me \in Users
      BY <2>2, <3>1 DEF Owes, TypeOK, ReqType, DecisionOps
    <3>5. CASE passed' = passed
      <4>1. rate'[u] \in Nat /\ \A v \in Users : rate[v] \in Nat /\ rate'[v] \in Nat
                                             /\ passed[v] \in Nat
        BY <2>1, <3>2, <3>3, <2>2, PingsAssumption DEF TypeOK, Bumped
      <4>2. \A v \in Users : passed'[v] <= MaxPerDay /\ passed'[v] <= rate'[v]
        BY <2>1, <2>3, <3>5, <4>1 DEF BudgetInv
      <4>3. \A v \in ttl' : rate'[v] > 0
        BY <2>2, <2>3, <4>1 DEF BudgetInv, TypeOK
      <4>4. \A s \in Reqs : Owes(s)' => /\ passed'[req[s].me] + 1 <= rate'[req[s].me]
                                        /\ passed'[req[s].me] + 1 <= MaxPerDay
        BY <2>1, <2>3, <3>4, <3>5, <4>1 DEF BudgetInv
      <4> QED
        BY <2>2, <3>4, <4>2, <4>3, <4>4 DEF BudgetInv
    <3>6. CASE /\ passed' = [passed EXCEPT ![u] = @ + 1]
               /\ rate[u] + 1 <= MaxPerDay
               /\ rate'[u] = rate[u] + 1
      <4>1. passed'[u] = passed[u] + 1 /\ \A v \in Users \ {u} : passed'[v] = passed[v]
        BY <2>1, <3>6 DEF TypeOK
      <4>2. \A v \in Users : passed'[v] <= MaxPerDay /\ passed'[v] <= rate'[v]
        BY <2>1, <2>3, <3>3, <3>6, <4>1 DEF BudgetInv, TypeOK
      <4>3. \A v \in ttl' : rate'[v] > 0
        BY <2>1, <2>2, <2>3, <3>3, <3>6 DEF BudgetInv, TypeOK
      <4>4. \A s \in Reqs : Owes(s)' => /\ passed'[req[s].me] + 1 <= rate'[req[s].me]
                                        /\ passed'[req[s].me] + 1 <= MaxPerDay
        BY <2>1, <3>3, <3>4, <3>6, <4>1 DEF BudgetInv, TypeOK
      <4> QED
        BY <2>2, <3>4, <4>2, <4>3, <4>4 DEF BudgetInv
    <3> QED
      BY <3>2, <3>5, <3>6
  <2> QED
    BY <2>4, <2>5
<1>2. ASSUME NEW r \in Reqs, SendExpire(r) PROVE BudgetInv'
  <2> DEFINE u == req[r].me
  <2>1. u \in Users /\ Owes(r) /\ passed[u] \in Nat /\ rate[u] \in Nat
    BY <1>2, PingsAssumption DEF SendExpire, TypeOK, ReqType, DecisionOps, Owes
  <2>2. /\ rate' = rate
        /\ passed'[u] = passed[u] + 1 /\ \A v \in Users \ {u} : passed'[v] = passed[v]
        /\ \A v \in ttl' : v \in ttl \/ (v = u /\ rate[u] > 0)
    BY <1>2, <2>1 DEF SendExpire, TypeOK
  <2>3. \A s \in Reqs : Owes(s)' => s # r /\ Owes(s) /\ req'[s] = req[s]
    BY <1>2, GotoAt, BecomesAt DEF SendExpire, Goto, Owes
  <2>4. \A s \in Reqs : Owes(s)' => req[s].me \in Users \ {u}
    BY <2>1, <2>3 DEF BudgetInv, TypeOK, ReqType, DecisionOps, Owes
  <2> QED
    BY <2>1, <2>2, <2>3, <2>4 DEF BudgetInv, TypeOK
<1>3. ASSUME NEW u \in Users, KeyExpires(u) PROVE BudgetInv'
  <2>1. \A r \in Reqs : Owes(r) => req[r].me \in Users \ {u}
    BY <1>3 DEF KeyExpires, BudgetInv, TypeOK, ReqType, DecisionOps, Owes
  <2> QED
    BY <1>3, <2>1, PingsAssumption DEF KeyExpires, BudgetInv, TypeOK, Owes
<1>4. ASSUME NEW r \in Reqs,
             \/ Arrive(r) \/ SendBlockCheck(r) \/ SendFind(r) \/ SendCreate(r) \/ Load(r)
             \/ AcceptBlockCheck(r) \/ AcceptWrite(r) \/ RejectWrite(r)
             \/ WithdrawWrite(r) \/ Emit(r) \/ Crash(r)
      PROVE  BudgetInv'
  <2>1. UNCHANGED <<rate, ttl, passed>> /\ \A s \in Reqs \ {r} : req'[s] = req[s]
    BY <1>4 DEF Arrive, StartSend, StartDecision, SendBlockCheck, SendFind, SendCreate,
       Load, AcceptBlockCheck, AcceptWrite, RejectWrite, WithdrawWrite, Write, Emit,
       Crash, Goto, Reply, Fail, Becomes, TypeOK
  <2>2. ~Owes(r)'
    BY <1>4, NextPc DEF Owes
  <2> QED
    BY <2>1, <2>2, BudgetKept
<1>5. CASE UNCHANGED <<rate, ttl, passed, req>>
  BY <1>5, BudgetKept
<1> QED
  BY <1>1, <1>2, <1>3, <1>4, <1>5 DEF Next, Continue, vars, Block, Unblock

(* However the increments of concurrent sends interleave, and whether or not
   a request dies before its expire, no window lets more than
   PING_MAX_PER_DAY of them through.                                       *)
THEOREM BudgetIsKept == Spec => []WithinBudget
<1>1. Init => BudgetInv
  BY PingsAssumption DEF Init, BudgetInv, Owes, IdleReq
<1>2. TypeOK /\ BudgetInv /\ [Next]_vars => BudgetInv'
  BY BudgetStep
<1>3. BudgetInv => WithinBudget
  BY DEF BudgetInv, WithinBudget
<1> QED
  BY <1>1, <1>2, <1>3, TypeCorrect, PTL DEF Spec

-----------------------------------------------------------------------------
(* Pings implements PairSlot: whatever the handlers interleave, a pair's   *)
(* slot is only ever taken, decided or given back.                         *)

(* The slot of a pair in a table t, which is row before or after a step.   *)

LiveIn(t, pair) ==
  {p \in PingIds : t[p].state \in LiveStates /\ {t[p].from, t[p].to} = pair}

SlotIn(t, pair) ==
  IF LiveIn(t, pair) = {} THEN [state |-> "FREE", asker |-> NoUser]
  ELSE LET p == CHOOSE q \in LiveIn(t, pair) : TRUE
       IN [state |-> t[p].state, asker |-> t[p].from]

Alone(t, p) ==
  \A q \in PingIds :
    t[q].state \in LiveStates /\ {t[q].from, t[q].to} = {t[p].from, t[p].to} => q = p

LEMMA SlotReads ==
  ASSUME NEW pair
  PROVE  SlotOf(pair) = SlotIn(row, pair) /\ SlotOf(pair)' = SlotIn(row', pair)
BY DEF SlotOf, SlotIn, LiveFor, LiveIn, Live, PairOf

LEMMA AloneReads ==
  ASSUME OnePerPair, OnePerPair', NEW p \in PingIds
  PROVE  /\ row[p].state \in LiveStates => Alone(row, p)
         /\ row'[p].state \in LiveStates => Alone(row', p)
BY DEF OnePerPair, Alone, Live, PairOf

LEMMA TakenSlot ==
  ASSUME NEW t, NEW p \in PingIds, t[p].state \in LiveStates, Alone(t, p)
  PROVE  SlotIn(t, {t[p].from, t[p].to}) = [state |-> t[p].state, asker |-> t[p].from]
<1> DEFINE live == LiveIn(t, {t[p].from, t[p].to})
<1>1. live = {p}
  BY DEF LiveIn, Alone
<1>2. (CHOOSE q \in live : TRUE) = p
  BY <1>1
<1> QED
  BY <1>1, <1>2 DEF SlotIn

(* A change of one row leaves the slots of the pairs that row is not of.   *)
LEMMA OtherSlot ==
  ASSUME NEW t, NEW u, NEW p \in PingIds, \A q \in PingIds \ {p} : u[q] = t[q],
         NEW pair, p \notin LiveIn(t, pair), p \notin LiveIn(u, pair)
  PROVE  SlotIn(u, pair) = SlotIn(t, pair)
<1> DEFINE live == LiveIn(t, pair)
           c    == CHOOSE q \in live : TRUE
<1>1. LiveIn(u, pair) = live
  BY DEF LiveIn
<1>2. CASE live = {}
  BY <1>1, <1>2 DEF SlotIn
<1>3. CASE live # {}
  <2>1. c \in live
    BY <1>3
  <2>2. c \in PingIds \ {p}
    BY <2>1 DEF LiveIn
  <2>3. u[c] = t[c]
    BY <2>2
  <2> QED
    BY <1>1, <1>3, <2>3 DEF SlotIn
<1> QED
  BY <1>2, <1>3

(* So a step that changes one row is a step of the slot of its pair.       *)
SlotTable == [pair \in Pairs |-> SlotOf(pair)]

OnlySlot(p, pair) ==
  /\ \A q \in PingIds \ {p} : row'[q] = row[q]
  /\ \A other : other # pair => p \notin LiveIn(row, other) /\ p \notin LiveIn(row', other)

LEMMA OneSlot ==
  ASSUME NEW p \in PingIds, NEW pair \in Pairs, OnlySlot(p, pair), NEW x,
         SlotIn(row', pair) = x
  PROVE  SlotTable' = [SlotTable EXCEPT ![pair] = x]
<1>1. \A q \in Pairs : SlotOf(q)' = IF q = pair THEN x ELSE SlotOf(q)
  BY SlotReads, OtherSlot DEF OnlySlot
<1>2. Pairs' = Pairs
  BY DEF Pairs
<1> QED
  BY <1>1, <1>2 DEF SlotTable

LEMMA AskStep ==
  ASSUME NEW p \in PingIds, NEW pair \in Pairs, OnlySlot(p, pair), NEW a \in pair,
         SlotOf(pair) = [state |-> "FREE", asker |-> NoUser],
         SlotIn(row', pair) = [state |-> "PENDING", asker |-> a]
  PROVE  Slots!Next
<1>1. SlotTable' = [SlotTable EXCEPT ![pair] = [state |-> "PENDING", asker |-> a]]
  BY OneSlot
<1>2. Slots!Ask(pair)
  BY <1>1 DEF Slots!Ask, Slots!FreeSlot, SlotTable
<1> QED
  BY <1>2 DEF Slots!Next, Slots!Pairs, Pairs

LEMMA DecideStep ==
  ASSUME NEW p \in PingIds, NEW pair \in Pairs, OnlySlot(p, pair), NEW old, NEW a,
         SlotOf(pair) = [state |-> old, asker |-> a], old # "FREE",
         NEW state \in {"ACCEPTED", "REJECTED"},
         SlotIn(row', pair) = [state |-> state, asker |-> a]
  PROVE  Slots!Next
<1>1. SlotTable' = [SlotTable EXCEPT ![pair] = [state |-> state, asker |-> a]]
  BY OneSlot
<1>2. SlotTable[pair] = [state |-> old, asker |-> a]
  BY DEF SlotTable
<1>3. [SlotTable[pair] EXCEPT !.state = state] = [state |-> state, asker |-> a]
  BY <1>2
<1>4. SlotTable' = [SlotTable EXCEPT ![pair].state = state]
  BY <1>1, <1>3
<1>5. SlotTable[pair] # Slots!FreeSlot
  BY <1>2 DEF Slots!FreeSlot
<1>6. Slots!Decide(pair)
  BY <1>4, <1>5 DEF Slots!Decide, SlotTable
<1> QED
  BY <1>6 DEF Slots!Next, Slots!Pairs, Pairs

LEMMA GiveBackStep ==
  ASSUME NEW p \in PingIds, NEW pair \in Pairs, OnlySlot(p, pair), NEW old, NEW a,
         SlotOf(pair) = [state |-> old, asker |-> a], old # "FREE",
         LiveIn(row', pair) = {}
  PROVE  Slots!Next
<1>1. SlotIn(row', pair) = Slots!FreeSlot
  BY DEF SlotIn, Slots!FreeSlot
<1>2. SlotTable' = [SlotTable EXCEPT ![pair] = Slots!FreeSlot]
  BY <1>1, OneSlot
<1>3. SlotTable[pair] # Slots!FreeSlot
  BY DEF Slots!FreeSlot, SlotTable
<1>4. Slots!GiveBack(pair)
  BY <1>2, <1>3 DEF Slots!GiveBack, SlotTable
<1> QED
  BY <1>4 DEF Slots!Next, Slots!Pairs, Pairs

-----------------------------------------------------------------------------

LEMMA SlotInit == Init => Slots!Init
<1> SUFFICES ASSUME Init PROVE Slots!Init
  OBVIOUS
<1>1. \A pair : LiveFor(pair) = {}
  BY DEF Init, LiveFor, Live, LiveStates, NoRow
<1> QED
  BY <1>1 DEF SlotOf, Slots!Init, Slots!FreeSlot, Slots!Pairs, Pairs

LEMMA CreateIsAsk ==
  ASSUME TypeOK, OnePerPair, OnePerPair', RowShape', NEW r \in Reqs, SendCreate(r),
         NEW p \in PingIds, row'[p] # row[p]
  PROVE  Slots!Next
<1> DEFINE a    == req[r].me
           b    == req[r].other
           pair == {a, b}
<1>1. /\ row[p].state = "UNUSED"
      /\ row'[p] = [state |-> "PENDING", from |-> a, to |-> b]
      /\ ~PairTaken(a, b)
      /\ \A q \in PingIds \ {p} : row'[q] = row[q]
  BY CreateRow
<1>2. a \in Users /\ b \in Users /\ a # b
  BY <1>1 DEF RowShape
<1>3. pair \in Pairs
  BY <1>2 DEF Pairs
<1>4. SlotOf(pair) = [state |-> "FREE", asker |-> NoUser]
  BY <1>1 DEF PairTaken, SlotOf
<1>5. SlotIn(row', pair) = [state |-> "PENDING", asker |-> a]
  <2>1. row'[p].state \in LiveStates
    BY <1>1 DEF LiveStates
  <2>2. Alone(row', p)
    BY <2>1, AloneReads
  <2> QED
    BY <1>1, <2>1, <2>2, TakenSlot
<1>6. a \in pair
  OBVIOUS
<1>7. OnlySlot(p, pair)
  BY <1>1 DEF OnlySlot, LiveIn, LiveStates
<1> HIDE DEF pair
<1> QED
  BY <1>3, <1>4, <1>5, <1>6, <1>7, AskStep

(* The write that a decision ends in finds its row live, whatever became   *)
(* of it since it was loaded.                                              *)
LEMMA WriteMovesSlot ==
  ASSUME TypeOK, OnePerPair, OnePerPair', RowShape, NEW r \in Reqs, NEW op,
         NEW state \in {"ACCEPTED", "REJECTED", "DELETED"},
         Write(r, op, state), row' # row
  PROVE  Slots!Next
<1> DEFINE p    == req[r].ping
           pair == PairOf(p)
<1>1. Live(p) /\ row' = [row EXCEPT ![p].state = state]
  BY DEF Write, Writable
<1>2. p \in PingIds
  BY <1>1 DEF TypeOK
<1>3. row[p] \in RowType /\ row[p].state \in LiveStates /\ row[p].state # "UNUSED"
  BY <1>1, <1>2 DEF TypeOK, Live, LiveStates
<1>4. pair \in Pairs
  BY <1>2, <1>3 DEF RowShape, PairOf, Pairs
<1>5. /\ row'[p].state = state /\ row'[p].from = row[p].from /\ row'[p].to = row[p].to
      /\ \A q \in PingIds \ {p} : row'[q] = row[q]
  BY <1>1, <1>2, <1>3 DEF TypeOK, RowType
<1>6. Alone(row, p)
  BY <1>2, <1>3, AloneReads
<1>7. SlotOf(pair) = [state |-> row[p].state, asker |-> row[p].from]
  BY <1>2, <1>3, <1>6, TakenSlot, SlotReads DEF PairOf
<1>8. OnlySlot(p, pair) /\ row[p].state # "FREE"
  BY <1>3, <1>5 DEF OnlySlot, LiveIn, PairOf, LiveStates
<1>9. CASE state = "DELETED"
  <2>1. LiveIn(row', pair) = {}
    BY <1>5, <1>6, <1>9 DEF LiveIn, Alone, PairOf, LiveStates
  <2> HIDE DEF pair
  <2> QED
    BY <1>2, <1>4, <1>7, <1>8, <2>1, GiveBackStep
<1>10. CASE state \in {"ACCEPTED", "REJECTED"}
  <2>1. row'[p].state \in LiveStates
    BY <1>5, <1>10 DEF LiveStates
  <2>2. Alone(row', p)
    BY <1>2, <2>1, AloneReads
  <2>3. SlotIn(row', pair) = [state |-> state, asker |-> row[p].from]
    BY <1>2, <1>5, <2>1, <2>2, TakenSlot DEF PairOf
  <2> HIDE DEF pair
  <2> QED
    BY <1>2, <1>4, <1>7, <1>8, <1>10, <2>3, DecideStep
<1> QED
  BY <1>9, <1>10

LEMMA SlotStep ==
  ASSUME TypeOK, OnePerPair, OnePerPair', Shape, Shape', [Next]_vars
  PROVE  [Slots!Next]_([pair \in Pairs |-> SlotOf(pair)])
<1>0. RowShape /\ RowShape'
  BY DEF Shape
<1>1. CASE row' = row
  <2>1. \A pair : SlotOf(pair)' = SlotOf(pair)
    BY <1>1, SlotReads
  <2>2. Pairs' = Pairs
    BY DEF Pairs
  <2> QED
    BY <2>1, <2>2
<1>2. ASSUME NEW r \in Reqs, SendCreate(r), row' # row PROVE Slots!Next
  <2>1. PICK p \in PingIds : row'[p] # row[p]
    BY <1>2 DEF SendCreate, TypeOK
  <2> QED
    BY <1>0, <1>2, <2>1, CreateIsAsk
<1>3. ASSUME NEW r \in Reqs, AcceptWrite(r) \/ RejectWrite(r) \/ WithdrawWrite(r), row' # row
      PROVE  Slots!Next
  BY <1>0, <1>3, WriteMovesSlot DEF AcceptWrite, RejectWrite, WithdrawWrite
<1> QED
  BY <1>1, <1>2, <1>3
     DEF Next, Arrive, Continue, vars, StartSend, StartDecision, SendBlockCheck,
         SendFind, SendIncr, SendExpire, Load, AcceptBlockCheck, Emit, Crash,
         Block, Unblock, KeyExpires

(* The ping table is a slot per pair of people: every step of every handler
   asks a free slot, decides a taken one, gives it back, or leaves all of
   them alone.                                                             *)
THEOREM PingsRefinePairSlot == Spec => ImplementsPairSlot
<1>1. Init => Slots!Init
  BY SlotInit
<1>2. TypeOK /\ OnePerPair /\ OnePerPair' /\ Shape /\ Shape' /\ [Next]_vars
        => [Slots!Next]_([pair \in Pairs |-> SlotOf(pair)])
  BY SlotStep
<1> QED
  BY <1>1, <1>2, TypeCorrect, ShapeCorrect, OneRowPerPair, PTL
     DEF Spec, ImplementsPairSlot, Slots!Spec

-----------------------------------------------------------------------------
(* What liveness rests on: as long as no instance dies, whatever is yet to  *)
(* happen is the next step of a request under way.  Fairness does the rest. *)

(* Request r has committed the op of ping p and has not announced it.      *)
Announces(r, op, p) == At(r, op, "emit") /\ req[r].ping = p

(* A decision that its ping's sender was not told is in the hands of a     *)
(* request that is about to tell.                                          *)
DecisionsAreOwed ==
  \A p \in PingIds :
    /\ row[p].state = "ACCEPTED" =>
         "PING_ACCEPTED" \in told[p] \/ \E r \in Reqs : Announces(r, "accept", p)
    /\ row[p].state = "REJECTED" =>
         "PING_REJECTED" \in told[p] \/ \E r \in Reqs : Announces(r, "reject", p)

(* A counter that Redis will not drop is in the hands of the request that  *)
(* created it and is about to give it its TTL.                             *)
CountersAreOwed ==
  \A u \in Users : rate[u] > 0 => u \in ttl \/ \E r \in Reqs : Owes(r) /\ req[r].me = u

(* A request that is at a step of its own is moved by that step alone.     *)
LEMMA OnlyItMoves ==
  ASSUME TypeOK, Next, CanCrash = FALSE, NEW r \in Reqs, InFlight(r), req'[r] # req[r]
  PROVE  Continue(r)
<1>1. PICK s \in Reqs : Arrive(s) \/ Continue(s) \/ Crash(s)
  BY DEF Next, Block, Unblock, KeyExpires
<1>2. s = r
  BY <1>1 DEF Arrive, StartSend, StartDecision, Continue, SendBlockCheck, SendFind, SendIncr,
     SendExpire, SendCreate, Load, AcceptBlockCheck, AcceptWrite, RejectWrite,
     WithdrawWrite, Write, Emit, Crash, Goto, Reply, Fail, Becomes, TypeOK
<1>3. ~Crash(r) /\ ~Arrive(r)
  BY DEF Crash, Arrive, StartSend, StartDecision
<1> QED
  BY <1>1, <1>2, <1>3

(* Nobody is untold.                                                       *)
LEMMA ToldGrows ==
  ASSUME TypeOK, [Next]_vars, NEW p \in PingIds
  PROVE  told[p] \subseteq told'[p]
<1>1. CASE told' = told
  BY <1>1
<1>2. CASE told' # told
  <2>1. PICK r \in Reqs : Emit(r)
    BY <1>2 DEF Next, Arrive, Continue, vars, StartSend, StartDecision, SendBlockCheck,
       SendFind, SendIncr, SendExpire, SendCreate, Load, AcceptBlockCheck, AcceptWrite,
       RejectWrite, WithdrawWrite, Write, Crash, Block, Unblock, KeyExpires
  <2> QED
    BY <2>1 DEF Emit, Tell, TypeOK
<1> QED
  BY <1>1, <1>2

LEMMA AnnouncerTells ==
  ASSUME TypeOK, Next, CanCrash = FALSE, NEW p \in PingIds, NEW op \in {"accept", "reject"},
         NEW r \in Reqs, Announces(r, op, p)
  PROVE  EventOf(op) \in told'[p] \/ Announces(r, op, p)'
<1>1. CASE req'[r] = req[r]
  BY <1>1 DEF Announces
<1>2. CASE req'[r] # req[r]
  <2>1. Continue(r)
    BY <1>2, OnlyItMoves DEF Announces
  <2>2. Emit(r)
    BY <2>1 DEF Announces, Continue, SendBlockCheck, SendFind, SendIncr, SendExpire,
       SendCreate, Load, AcceptBlockCheck, AcceptWrite, RejectWrite, WithdrawWrite, Write
  <2> QED
    BY <2>2 DEF Emit, Tell, Announces, TypeOK
<1> QED
  BY <1>1, <1>2

(* Who decides announces.                                                  *)
LEMMA DeciderAnnounces ==
  ASSUME TypeOK, Next, NEW p \in PingIds,
         row'[p].state \in {"ACCEPTED", "REJECTED"}, row'[p].state # row[p].state
  PROVE  \/ row'[p].state = "ACCEPTED" /\ \E r \in Reqs : Announces(r, "accept", p)'
         \/ row'[p].state = "REJECTED" /\ \E r \in Reqs : Announces(r, "reject", p)'
<1>1. ~ \E r \in Reqs : SendCreate(r) /\ row' # row
  <2> SUFFICES ASSUME NEW r \in Reqs, SendCreate(r) PROVE FALSE
    OBVIOUS
  <2>1. row'[p] = [state |-> "PENDING", from |-> req[r].me, to |-> req[r].other]
    BY CreateRow
  <2> QED
    BY <2>1
<1>2. PICK r \in Reqs : AcceptWrite(r) \/ RejectWrite(r) \/ WithdrawWrite(r)
  BY <1>1 DEF Next, Arrive, Continue, StartSend, StartDecision, SendBlockCheck, SendFind,
     SendIncr, SendExpire, SendCreate, Load, AcceptBlockCheck, Emit, Crash, Block, Unblock,
     KeyExpires
<1>3. ASSUME NEW op \in DecisionOps, NEW state \in {"ACCEPTED", "REJECTED", "DELETED"},
             Write(r, op, state)
      PROVE  /\ row'[p].state = state /\ req'[r].op = op /\ req'[r].pc = "emit"
             /\ req'[r].ping = p
  <2>1. Goto(r, "emit") /\ row' = [row EXCEPT ![req[r].ping].state = state]
    BY <1>3 DEF Write
  <2>2. req[r].ping = p
    BY <2>1 DEF TypeOK
  <2>3. row'[p].state = state
    BY <2>1, <2>2 DEF TypeOK, RowType
  <2> QED
    BY <1>3, <2>1, <2>2, <2>3, GotoAt DEF Write
<1>4. CASE AcceptWrite(r)
  BY <1>3, <1>4 DEF AcceptWrite, Announces, DecisionOps
<1>5. CASE RejectWrite(r)
  BY <1>3, <1>5 DEF RejectWrite, Announces, DecisionOps
<1>6. CASE WithdrawWrite(r)
  BY <1>3, <1>6 DEF WithdrawWrite, DecisionOps
<1> QED
  BY <1>2, <1>4, <1>5, <1>6

LEMMA DecisionsOwedStep ==
  ASSUME TypeOK, DecisionsAreOwed, [Next]_vars, CanCrash = FALSE
  PROVE  DecisionsAreOwed'
<1>1. CASE UNCHANGED vars
  BY <1>1 DEF vars, DecisionsAreOwed, Announces
<1>2. ASSUME Next, NEW p \in PingIds, NEW op \in {"accept", "reject"}, NEW state,
             state = (IF op = "accept" THEN "ACCEPTED" ELSE "REJECTED"),
             row'[p].state = state,
             row[p].state = state => EventOf(op) \in told[p]
                                       \/ \E r \in Reqs : Announces(r, op, p)
      PROVE  EventOf(op) \in told'[p] \/ \E r \in Reqs : Announces(r, op, p)'
  <2>1. CASE row[p].state = state
    BY <1>2, <2>1, ToldGrows, AnnouncerTells
  <2>2. CASE row[p].state # state
    BY <1>2, <2>2, DeciderAnnounces
  <2> QED
    BY <2>1, <2>2
<1>3. EventOf("accept") = "PING_ACCEPTED" /\ EventOf("reject") = "PING_REJECTED"
  BY DEF EventOf
<1>4. ASSUME Next, NEW p \in PingIds
      PROVE  /\ row'[p].state = "ACCEPTED" =>
                  "PING_ACCEPTED" \in told'[p] \/ \E r \in Reqs : Announces(r, "accept", p)'
             /\ row'[p].state = "REJECTED" =>
                  "PING_REJECTED" \in told'[p] \/ \E r \in Reqs : Announces(r, "reject", p)'
  BY <1>2, <1>3, <1>4 DEF DecisionsAreOwed
<1> QED
  BY <1>1, <1>4 DEF DecisionsAreOwed

(* As long as no instance dies, no decision is lost on its way from the
   database to the socket: whoever was not told yet is about to be.        *)
THEOREM NoDecisionIsForgotten ==
  ASSUME CanCrash = FALSE
  PROVE  Spec => []DecisionsAreOwed
<1>1. Init => DecisionsAreOwed
  BY DEF Init, DecisionsAreOwed, NoRow
<1>2. TypeOK /\ DecisionsAreOwed /\ [Next]_vars => DecisionsAreOwed'
  BY DecisionsOwedStep
<1> QED
  BY <1>1, <1>2, TypeCorrect, PTL DEF Spec

LEMMA CountersOwedStep ==
  ASSUME TypeOK, CountersAreOwed, [Next]_vars, CanCrash = FALSE
  PROVE  CountersAreOwed'
<1>1. CASE UNCHANGED <<rate, ttl, req>>
  BY <1>1 DEF CountersAreOwed, Owes
<1>2. ASSUME Next, NEW u \in Users, rate'[u] > 0, u \notin ttl'
      PROVE  \E r \in Reqs : Owes(r)' /\ req'[r].me = u
  <2>1. CASE rate[u] > 0 /\ u \notin ttl
    <3>1. PICK r \in Reqs : Owes(r) /\ req[r].me = u
      BY <2>1 DEF CountersAreOwed
    <3>2. CASE req'[r] = req[r]
      BY <3>1, <3>2 DEF Owes
    <3>3. CASE req'[r] # req[r]
      <4>1. Continue(r)
        BY <1>2, <3>1, <3>3, OnlyItMoves DEF Owes
      <4>2. SendExpire(r)
        BY <3>1, <4>1 DEF Owes, Continue, SendBlockCheck, SendFind, SendIncr, SendCreate,
           Load, AcceptBlockCheck, AcceptWrite, RejectWrite, WithdrawWrite, Write, Emit,
           DecisionOps
      <4> QED
        BY <1>2, <2>1, <3>1, <4>2 DEF SendExpire
    <3> QED
      BY <3>2, <3>3
  <2>2. CASE u \in ttl
    <3>1. PICK v \in Users : KeyExpires(v)
      BY <1>2, <2>2 DEF Next, Arrive, Continue, StartSend, StartDecision, SendBlockCheck,
         SendFind, SendIncr, SendExpire, SendCreate, Load, AcceptBlockCheck, AcceptWrite,
         RejectWrite, WithdrawWrite, Write, Emit, Crash, Block, Unblock
    <3> QED
      BY <1>2, <2>2, <3>1 DEF KeyExpires, TypeOK
  <2>3. CASE ~(rate[u] > 0)
    <3>1. rate[u] = 0
      BY <2>3, PingsAssumption DEF TypeOK
    <3>2. ~ \E v \in Users : KeyExpires(v)
      BY <1>2, <3>1 DEF KeyExpires, TypeOK
    <3>0. rate' # rate
      BY <1>2, <2>3
    <3>3. PICK r \in Reqs : SendIncr(r)
      BY <1>2, <3>2, <3>0 DEF Next, Arrive, Continue, StartSend, StartDecision,
         SendBlockCheck, SendFind, SendExpire, SendCreate, Load, AcceptBlockCheck,
         AcceptWrite, RejectWrite, WithdrawWrite, Write, Emit, Crash, Block, Unblock
    <3>4. req[r].me = u
      BY <1>2, <3>1, <3>3 DEF SendIncr, TypeOK
    <3>5. Goto(r, "expire")
      BY <3>1, <3>3, <3>4, PingsAssumption DEF SendIncr, Bumped
    <3> QED
      BY <3>3, <3>4, <3>5, GotoAt DEF SendIncr, Owes
  <2> QED
    BY <2>1, <2>2, <2>3
<1>3. CASE Next
  BY <1>2, <1>3 DEF CountersAreOwed
<1> QED
  BY <1>1, <1>3 DEF vars

(* As long as no instance dies, every counter of a day ends: it has its TTL,
   or the request that created it is about to give it one.                 *)
THEOREM NoCounterIsForEver ==
  ASSUME CanCrash = FALSE
  PROVE  Spec => []CountersAreOwed
<1>1. Init => CountersAreOwed
  BY DEF Init, CountersAreOwed
<1>2. TypeOK /\ CountersAreOwed /\ [Next]_vars => CountersAreOwed'
  BY CountersOwedStep
<1> QED
  BY <1>1, <1>2, TypeCorrect, PTL DEF Spec
=============================================================================
