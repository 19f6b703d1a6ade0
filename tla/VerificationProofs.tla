------------------------- MODULE VerificationProofs -------------------------
(***************************************************************************)
(* Proofs about Verification, for any users, vendor sessions, events and   *)
(* calls in flight.                                                        *)
(***************************************************************************)
EXTENDS Verification, TLAPS

-----------------------------------------------------------------------------
(* What a call in flight holds, by the step it is at.  The types alone are *)
(* not inductive: they allow a call to apply no outcome to no request.     *)

CallShape(x) ==
  /\ x.pc \in {"user", "pending", "assets", "session", "create"} =>
       x.op = "submit" /\ x.me \in Users
  /\ x.pc \in {"record", "find", "apply"} =>
       x.op \in {"webhook", "admin"} /\ x.request \in Requests /\ x.outcome \in Outcomes
       /\ x.me = NoUser
  /\ x.pc = "record" => x.event \in Events
  /\ x.pc = "create" =>
       /\ x.request \in Requests /\ session[x.request] = x.me
       /\ request[x.request] = "NONE"
  /\ x.pc = "apply" => request[x.request] # "NONE"

(* A row is of a session that was opened for somebody, and only the call   *)
(* that opened it is about to create the row.                              *)
Shape ==
  /\ \A c \in Calls : CallShape(call[c])
  /\ \A c, d \in Calls :
       call[c].pc = "create" /\ call[d].pc = "create" /\ call[c].request = call[d].request
         => c = d
  /\ \A q \in Requests : request[q] # "NONE" => session[q] \in Users
  /\ \A e \in Events : event[e].request # NoRequest =>
       event[e].request \in Requests /\ event[e].outcome \in Outcomes

VerificationInv == TypeOK /\ Shape

(* How the call that moves moves.                                          *)
LEMMA EndAt ==
  ASSUME TypeOK, NEW c \in Calls, End(c)
  PROVE  /\ call' \in [Calls -> CallType]
         /\ call'[c] = IdleCall
         /\ \A d \in Calls \ {c} : call'[d] = call[d]
<1>1. IdleCall \in CallType
  BY DEF IdleCall, CallType
<1> QED
  BY <1>1 DEF TypeOK, End

LEMMA GotoAt ==
  ASSUME TypeOK, NEW c \in Calls,
         NEW pc \in {"pending", "assets", "session", "find", "apply"}, Goto(c, pc)
  PROVE  /\ call' \in [Calls -> CallType]
         /\ call'[c] = [call[c] EXCEPT !.pc = pc]
         /\ call'[c].pc = pc /\ call'[c].op = call[c].op /\ call'[c].me = call[c].me
         /\ call'[c].request = call[c].request /\ call'[c].outcome = call[c].outcome
         /\ call'[c].event = call[c].event
         /\ \A d \in Calls \ {c} : call'[d] = call[d]
<1>1. call[c] \in CallType /\ call' = [call EXCEPT ![c] = [call[c] EXCEPT !.pc = pc]]
  BY DEF TypeOK, Goto
<1>2. [call[c] EXCEPT !.pc = pc] \in CallType
  BY <1>1 DEF CallType
<1>3. call'[c] = [call[c] EXCEPT !.pc = pc]
  BY <1>1 DEF TypeOK
<1>4. call' \in [Calls -> CallType] /\ \A d \in Calls \ {c} : call'[d] = call[d]
  BY <1>1, <1>2 DEF TypeOK
<1> QED
  BY <1>1, <1>3, <1>4 DEF CallType

LEMMA IdleShape == CallShape(IdleCall) /\ IdleCall.pc = "idle" /\ IdleCall.me = NoUser
BY DEF CallShape, IdleCall

(* A call that moves while the tables stand still.                         *)
LEMMA CallMoves ==
  ASSUME VerificationInv, NEW c \in Calls, UNCHANGED <<session, request, event>>,
         \A d \in Calls \ {c} : call'[d] = call[d],
         CallShape(call[c])', call'[c].pc # "create"
  PROVE  Shape'
<1>1. \A d \in Calls : CallShape(call[d])'
  BY DEF VerificationInv, Shape, CallShape
<1> QED
  BY <1>1 DEF VerificationInv, Shape

LEMMA CallEnds ==
  ASSUME VerificationInv, NEW c \in Calls, End(c), UNCHANGED <<session, request, event>>
  PROVE  Shape'
<1>1. call'[c] = IdleCall /\ \A d \in Calls \ {c} : call'[d] = call[d]
  BY EndAt DEF VerificationInv
<1>2. CallShape(call[c])' /\ call'[c].pc # "create"
  BY <1>1 DEF CallShape, IdleCall
<1> QED
  BY <1>1, <1>2, CallMoves

LEMMA VerificationInit == Init => VerificationInv
<1> SUFFICES ASSUME Init PROVE VerificationInv
  OBVIOUS
<1>1. TypeOK
  BY DEF Init, TypeOK, IdleCall, CallType
<1>2. Shape
  BY DEF Init, Shape, CallShape, IdleCall
<1> QED
  BY <1>1, <1>2 DEF VerificationInv

LEMMA VerificationStep == VerificationInv /\ [Next]_vars => VerificationInv'
<1> SUFFICES ASSUME VerificationInv, [Next]_vars PROVE TypeOK' /\ Shape'
  BY DEF VerificationInv
<1>0. TypeOK /\ Shape /\ \A c \in Calls : call[c] \in CallType /\ CallShape(call[c])
  BY DEF VerificationInv, TypeOK, Shape
<1>1. CASE UNCHANGED vars
  BY <1>0, <1>1 DEF TypeOK, Shape, CallShape, vars
<1>2. ASSUME NEW c \in Calls, NEW u \in Users, StartSubmit(c, u) PROVE TypeOK' /\ Shape'
  <2> DEFINE x == [IdleCall EXCEPT !.op = "submit", !.pc = "user", !.me = u]
  <2>1. x \in CallType /\ x.op = "submit" /\ x.pc = "user" /\ x.me = u
    BY DEF IdleCall, CallType
  <2> HIDE DEF x
  <2>2. call' \in [Calls -> CallType] /\ call'[c] = x
        /\ \A d \in Calls \ {c} : call'[d] = call[d]
    BY <1>0, <1>2, <2>1 DEF StartSubmit, TypeOK, x
  <2>3. UNCHANGED <<session, request, verified, ledger, event>>
    BY <1>2 DEF StartSubmit, Store
  <2>4. CallShape(call[c])' /\ call'[c].pc # "create"
    BY <2>1, <2>2 DEF CallShape
  <2>5. Shape'
    BY <2>2, <2>3, <2>4, CallMoves
  <2> QED
    BY <1>0, <2>2, <2>3, <2>5 DEF TypeOK
<1>3. ASSUME NEW c \in Calls, CheckVerified(c) \/ CheckPending(c) \/ CheckAssets(c)
      PROVE  TypeOK' /\ Shape'
  <2>1. UNCHANGED <<session, request, verified, ledger, event>>
    BY <1>3 DEF CheckVerified, CheckPending, CheckAssets, Store
  <2>2. CASE End(c)
    BY <1>0, <2>1, <2>2, EndAt, CallEnds DEF TypeOK
  <2>3. ASSUME NEW pc \in {"pending", "assets", "session"}, Goto(c, pc),
               call[c].pc \in {"user", "pending", "assets"}
        PROVE  TypeOK' /\ Shape'
    <3>1. /\ call' \in [Calls -> CallType]
          /\ call'[c].pc = pc /\ call'[c].op = call[c].op /\ call'[c].me = call[c].me
          /\ \A d \in Calls \ {c} : call'[d] = call[d]
      BY <1>0, <2>3, GotoAt
    <3>2. CallShape(call[c])' /\ call'[c].pc # "create"
      BY <1>0, <2>3, <3>1 DEF CallShape
    <3>3. Shape'
      BY <2>1, <3>1, <3>2, CallMoves
    <3> QED
      BY <1>0, <2>1, <3>1, <3>3 DEF TypeOK
  <2> QED
    BY <1>3, <2>2, <2>3 DEF CheckVerified, CheckPending, CheckAssets, At
<1>4. ASSUME NEW c \in Calls, OpenSession(c) PROVE TypeOK' /\ Shape'
  <2>1. PICK q \in Unopened :
          /\ session' = [session EXCEPT ![q] = call[c].me]
          /\ call' = [call EXCEPT ![c] = [call[c] EXCEPT !.pc = "create", !.request = q]]
    BY <1>0, <1>4 DEF OpenSession, TypeOK
  <2>2. /\ q \in Requests /\ session[q] = NoUser /\ request[q] = "NONE"
        /\ UNCHANGED <<request, verified, ledger, event>>
        /\ call[c].me \in Users /\ call[c].op = "submit"
    BY <1>0, <1>4, <2>1, VerificationAssumption
       DEF OpenSession, Unopened, Shape, CallShape, At
  <2> DEFINE x == [call[c] EXCEPT !.pc = "create", !.request = q]
  <2>3. x \in CallType /\ x.pc = "create" /\ x.request = q /\ x.op = "submit"
        /\ x.me = call[c].me
    BY <1>0, <2>2 DEF CallType
  <2> HIDE DEF x
  <2>4. call' \in [Calls -> CallType] /\ call'[c] = x
        /\ \A d \in Calls \ {c} : call'[d] = call[d]
    BY <1>0, <2>1, <2>3 DEF TypeOK, x
  <2>5. session' \in [Requests -> Users \cup {NoUser}] /\ session'[q] = call[c].me
        /\ \A p \in Requests \ {q} : session'[p] = session[p]
    BY <1>0, <2>1, <2>2 DEF TypeOK
  <2>6. \A d \in Calls \ {c} : call[d].pc = "create" => call[d].request # q
    BY <1>0, <2>2, VerificationAssumption DEF CallShape
  <2>7. \A d \in Calls : CallShape(call[d])'
    <3>1. CallShape(call[c])'
      BY <2>2, <2>3, <2>4, <2>5 DEF CallShape
    <3>2. ASSUME NEW d \in Calls \ {c} PROVE CallShape(call[d])'
      BY <1>0, <2>2, <2>4, <2>5, <2>6 DEF CallShape
    <3> QED
      BY <3>1, <3>2
  <2>8. Shape'
    BY <1>0, <2>2, <2>3, <2>4, <2>5, <2>6, <2>7 DEF Shape
  <2> QED
    BY <1>0, <2>2, <2>4, <2>5, <2>8 DEF TypeOK
<1>5. ASSUME NEW c \in Calls, CreateRequest(c) PROVE TypeOK' /\ Shape'
  <2> DEFINE q == call[c].request
  <2>1. /\ q \in Requests /\ session[q] \in Users /\ request[q] = "NONE"
        /\ call[c].pc = "create"
    BY <1>0, <1>5 DEF CreateRequest, At, CallShape
  <2>2. /\ request' = [request EXCEPT ![q] = "PENDING"]
        /\ UNCHANGED <<session, verified, ledger, event>>
        /\ End(c)
    BY <1>5 DEF CreateRequest
  <2>3. call' \in [Calls -> CallType] /\ call'[c] = IdleCall
        /\ \A d \in Calls \ {c} : call'[d] = call[d]
    BY <1>0, <2>2, EndAt
  <2>4. /\ request' \in [Requests -> {"NONE", "PENDING", "STALE"} \cup Decided]
        /\ request'[q] = "PENDING" /\ \A p \in Requests \ {q} : request'[p] = request[p]
    BY <1>0, <2>1, <2>2 DEF TypeOK
  <2>5. \A d \in Calls \ {c} : call[d].pc = "create" => call[d].request # q
    BY <1>0, <2>1 DEF Shape
  <2> HIDE DEF q
  <2>6. \A d \in Calls : CallShape(call[d])'
    <3>1. CallShape(call[c])'
      BY <2>3 DEF CallShape, IdleCall
    <3>2. ASSUME NEW d \in Calls \ {c} PROVE CallShape(call[d])'
      BY <1>0, <2>2, <2>3, <2>4, <2>5 DEF CallShape
    <3> QED
      BY <3>1, <3>2
  <2>7. Shape'
    BY <1>0, <2>1, <2>2, <2>3, <2>4, <2>6, IdleShape DEF Shape
  <2> QED
    BY <1>0, <2>2, <2>3, <2>4, <2>7 DEF TypeOK
<1>6. ASSUME NEW c \in Calls, RecordEvent(c) PROVE TypeOK' /\ Shape'
  <2>1. UNCHANGED <<session, request, verified, event>> /\ call[c].pc = "record"
        /\ ledger' = ledger \cup {call[c].event} /\ call[c].event \in Events
    BY <1>0, <1>6 DEF RecordEvent, At, CallShape
  <2>2. CASE End(c)
    BY <1>0, <2>1, <2>2, EndAt, CallEnds DEF TypeOK
  <2>3. CASE Goto(c, "find")
    <3>1. /\ call' \in [Calls -> CallType]
          /\ call'[c].pc = "find" /\ call'[c].op = call[c].op /\ call'[c].me = call[c].me
          /\ call'[c].request = call[c].request /\ call'[c].outcome = call[c].outcome
          /\ \A d \in Calls \ {c} : call'[d] = call[d]
      BY <1>0, <2>3, GotoAt
    <3>2. CallShape(call[c])' /\ call'[c].pc # "create"
      BY <1>0, <2>1, <3>1 DEF CallShape
    <3>3. Shape'
      BY <2>1, <3>1, <3>2, CallMoves
    <3> QED
      BY <1>0, <2>1, <3>1, <3>3 DEF TypeOK
  <2> QED
    BY <1>6, <2>2, <2>3 DEF RecordEvent
<1>7. ASSUME NEW c \in Calls, FindRequest(c) PROVE TypeOK' /\ Shape'
  <2>1. UNCHANGED <<session, request, verified, ledger, event>> /\ call[c].pc = "find"
    BY <1>7 DEF FindRequest, Store
  <2>2. CASE End(c)
    BY <1>0, <2>1, <2>2, EndAt, CallEnds DEF TypeOK
  <2>3. CASE Goto(c, "apply") /\ MayDecide(call[c].request)
    <3>1. /\ call' \in [Calls -> CallType]
          /\ call'[c].pc = "apply" /\ call'[c].op = call[c].op /\ call'[c].me = call[c].me
          /\ call'[c].request = call[c].request /\ call'[c].outcome = call[c].outcome
          /\ \A d \in Calls \ {c} : call'[d] = call[d]
      BY <1>0, <2>3, GotoAt
    <3>2. request[call[c].request] # "NONE"
      BY <2>3 DEF MayDecide, Pending
    <3>3. CallShape(call[c])' /\ call'[c].pc # "create"
      BY <1>0, <2>1, <3>1, <3>2 DEF CallShape
    <3>4. Shape'
      BY <2>1, <3>1, <3>3, CallMoves
    <3> QED
      BY <1>0, <2>1, <3>1, <3>4 DEF TypeOK
  <2> QED
    BY <1>7, <2>2, <2>3 DEF FindRequest
<1>8. ASSUME NEW c \in Calls, Apply(c) PROVE TypeOK' /\ Shape'
  <2> DEFINE q == call[c].request
  <2>1. /\ q \in Requests /\ request[q] # "NONE" /\ call[c].outcome \in Outcomes
        /\ call[c].pc = "apply" /\ session[q] \in Users
    BY <1>0, <1>8 DEF Apply, CallShape, Shape
  <2>2. /\ request' = [request EXCEPT ![q] = call[c].outcome]
        /\ UNCHANGED <<session, ledger, event>>
        /\ End(c) /\ verified' \subseteq verified \cup {session[q]}
    BY <1>8 DEF Apply
  <2>3. call' \in [Calls -> CallType] /\ call'[c] = IdleCall
        /\ \A d \in Calls \ {c} : call'[d] = call[d]
    BY <1>0, <2>2, EndAt
  <2>4. /\ request' \in [Requests -> {"NONE", "PENDING", "STALE"} \cup Decided]
        /\ request'[q] = call[c].outcome /\ request'[q] # "NONE"
        /\ \A p \in Requests \ {q} : request'[p] = request[p]
    BY <1>0, <2>1, <2>2 DEF TypeOK, Decided, Outcomes
  <2> HIDE DEF q
  <2>5. \A d \in Calls : CallShape(call[d])'
    <3>1. CallShape(call[c])'
      BY <2>3 DEF CallShape, IdleCall
    <3>2. ASSUME NEW d \in Calls \ {c} PROVE CallShape(call[d])'
      BY <1>0, <2>1, <2>2, <2>3, <2>4 DEF CallShape
    <3> QED
      BY <3>1, <3>2
  <2>6. Shape'
    BY <1>0, <2>1, <2>2, <2>3, <2>4, <2>5, IdleShape DEF Shape
  <2> QED
    BY <1>0, <2>1, <2>2, <2>3, <2>4, <2>6 DEF TypeOK
<1>9. ASSUME NEW c \in Calls, Crash(c) PROVE TypeOK' /\ Shape'
  BY <1>0, <1>9, EndAt, CallEnds DEF Crash, Store, TypeOK
<1>10. ASSUME NEW c \in Calls, NEW e \in Events, Deliver(c, e) PROVE TypeOK' /\ Shape'
  <2> DEFINE x == [op |-> "webhook", pc |-> "record", me |-> NoUser, event |-> e,
                   request |-> event[e].request, outcome |-> event[e].outcome]
  <2>1. event[e].request \in Requests /\ event[e].outcome \in Outcomes
    BY <1>0, <1>10 DEF Deliver, Shape
  <2>2. x \in CallType
    BY <2>1 DEF CallType
  <2>3. call' \in [Calls -> CallType] /\ call'[c] = x
        /\ \A d \in Calls \ {c} : call'[d] = call[d]
    BY <1>0, <1>10, <2>2 DEF Deliver, TypeOK
  <2>4. UNCHANGED <<session, request, verified, ledger, event>>
    BY <1>10 DEF Deliver, Store
  <2>5. CallShape(call[c])' /\ call'[c].pc # "create"
    BY <2>1, <2>3 DEF CallShape
  <2>6. Shape'
    BY <2>3, <2>4, <2>5, CallMoves
  <2> QED
    BY <1>0, <2>3, <2>4, <2>6 DEF TypeOK
<1>11. ASSUME NEW c \in Calls, NEW q \in Requests, NEW o \in Outcomes, StartAdmin(c, q, o)
       PROVE  TypeOK' /\ Shape'
  <2> DEFINE x == [IdleCall EXCEPT !.op = "admin", !.pc = "find", !.request = q,
                                   !.outcome = o]
  <2>1. /\ x \in CallType /\ x.op = "admin" /\ x.pc = "find" /\ x.request = q
        /\ x.outcome = o /\ x.me = NoUser
    BY DEF IdleCall, CallType
  <2> HIDE DEF x
  <2>2. call' \in [Calls -> CallType] /\ call'[c] = x
        /\ \A d \in Calls \ {c} : call'[d] = call[d]
    BY <1>0, <1>11, <2>1 DEF StartAdmin, TypeOK, x
  <2>3. UNCHANGED <<session, request, verified, ledger, event>>
    BY <1>11 DEF StartAdmin, Store
  <2>4. CallShape(call[c])' /\ call'[c].pc # "create"
    BY <2>1, <2>2 DEF CallShape
  <2>5. Shape'
    BY <2>2, <2>3, <2>4, CallMoves
  <2> QED
    BY <1>0, <2>2, <2>3, <2>5 DEF TypeOK
<1>12. ASSUME NEW e \in Events, NEW q \in Requests, NEW o \in Outcomes, VendorDecides(e, q, o)
       PROVE  TypeOK' /\ Shape'
  <2>1. event' = [event EXCEPT ![e] = [request |-> q, outcome |-> o]]
        /\ UNCHANGED <<session, request, verified, ledger, call>>
    BY <1>12 DEF VendorDecides
  <2>2. TypeOK'
    BY <1>0, <2>1 DEF TypeOK
  <2>3. \A f \in Events : event'[f] = IF f = e THEN [request |-> q, outcome |-> o] ELSE event[f]
    BY <1>0, <2>1 DEF TypeOK
  <2>4. Shape'
    BY <1>0, <2>1, <2>3 DEF Shape, CallShape
  <2> QED
    BY <2>2, <2>4
<1>13. ASSUME NEW q \in Requests, GrowsOld(q) PROVE TypeOK' /\ Shape'
  <2>1. /\ request[q] = "PENDING" /\ UNCHANGED <<session, verified, ledger, event, call>>
        /\ request' \in [Requests -> {"NONE", "PENDING", "STALE"} \cup Decided]
        /\ request'[q] = "STALE" /\ \A p \in Requests \ {q} : request'[p] = request[p]
    BY <1>0, <1>13 DEF GrowsOld, TypeOK
  <2>2. Shape'
    BY <1>0, <2>1 DEF Shape, CallShape
  <2> QED
    BY <1>0, <2>1, <2>2 DEF TypeOK
<1>14. CASE Sweep
  <2>1. /\ UNCHANGED <<session, verified, ledger, event, call>>
        /\ request' \in [Requests -> {"NONE", "PENDING", "STALE"} \cup Decided]
        /\ \A p \in Requests : request'[p] = "NONE" <=> request[p] = "NONE"
    BY <1>0, <1>14 DEF Sweep, Stale, TypeOK, Decided
  <2>2. Shape'
    BY <1>0, <2>1 DEF Shape, CallShape
  <2> QED
    BY <1>0, <2>1, <2>2 DEF TypeOK
<1> QED
  BY <1>1, <1>2, <1>3, <1>4, <1>5, <1>6, <1>7, <1>8, <1>9, <1>10, <1>11, <1>12, <1>13, <1>14
     DEF Next, Continue

(* Type correctness: tables and calls hold what the handlers are written
   for; in particular only a user is ever marked as verified.              *)
THEOREM VerificationTypeCorrect == Spec => []TypeOK
<1>1. VerificationInv => TypeOK
  BY DEF VerificationInv
<1> QED
  BY <1>1, VerificationInit, VerificationStep, PTL DEF Spec

-----------------------------------------------------------------------------
(* Decisions.  A call comes to apply a decision only by reading PENDING,   *)
(* and a row that nobody is about to write is not written.                 *)

LEMMA ApplyFrom ==
  ASSUME VerificationInv, [Next]_vars, NEW d \in Calls, call'[d].pc = "apply"
  PROVE  \/ call'[d] = call[d]
         \/ MayDecide(call[d].request) /\ call'[d].request = call[d].request
<1>0. TypeOK
  BY DEF VerificationInv
<1>1. ASSUME NEW c \in Calls, FindRequest(c)
      PROVE  \/ call'[d] = call[d]
             \/ MayDecide(call[d].request) /\ call'[d].request = call[d].request
  <2>1. CASE End(c)
    BY <1>0, <2>1, EndAt, IdleShape
  <2>2. CASE Goto(c, "apply") /\ MayDecide(call[c].request)
    BY <1>0, <2>2, GotoAt
  <2> QED
    BY <1>1, <2>1, <2>2 DEF FindRequest
<1>2. ASSUME NEW c \in Calls, NEW pc \in {"pending", "assets", "session", "find"},
             Goto(c, pc) \/ End(c)
      PROVE  call'[d] = call[d]
  BY <1>0, <1>2, EndAt, GotoAt, IdleShape
<1>3. ASSUME NEW c \in Calls,
             \/ CheckVerified(c) \/ CheckPending(c) \/ CheckAssets(c) \/ RecordEvent(c)
             \/ CreateRequest(c) \/ Apply(c) \/ Crash(c)
      PROVE  call'[d] = call[d]
  BY <1>2, <1>3 DEF CheckVerified, CheckPending, CheckAssets, RecordEvent, CreateRequest,
                    Apply, Crash
<1>4. ASSUME NEW c \in Calls, OpenSession(c) PROVE call'[d] = call[d]
  <2>1. PICK q \in Unopened :
          call' = [call EXCEPT ![c] = [call[c] EXCEPT !.pc = "create", !.request = q]]
    BY <1>0, <1>4 DEF OpenSession, TypeOK
  <2>2. [call[c] EXCEPT !.pc = "create", !.request = q].pc = "create"
    BY <1>0 DEF TypeOK, CallType
  <2> QED
    BY <1>0, <2>1, <2>2 DEF TypeOK
<1>5. ASSUME NEW c \in Calls, NEW x, x.pc # "apply", call' = [call EXCEPT ![c] = x]
      PROVE  call'[d] = call[d]
  BY <1>0, <1>5 DEF TypeOK
<1>6. ASSUME NEW c \in Calls, NEW u \in Users, StartSubmit(c, u) PROVE call'[d] = call[d]
  BY <1>5, <1>6 DEF StartSubmit, IdleCall
<1>7. ASSUME NEW c \in Calls, NEW e \in Events, Deliver(c, e) PROVE call'[d] = call[d]
  BY <1>5, <1>7 DEF Deliver
<1>8. ASSUME NEW c \in Calls, NEW q \in Requests, NEW o \in Outcomes, StartAdmin(c, q, o)
      PROVE  call'[d] = call[d]
  BY <1>5, <1>8 DEF StartAdmin, IdleCall
<1>9. CASE UNCHANGED call
  BY <1>9
<1> QED
  BY <1>1, <1>3, <1>4, <1>6, <1>7, <1>8, <1>9
     DEF Next, Continue, VendorDecides, GrowsOld, Sweep, vars

(* Which steps write a row.                                                *)
LEMMA RowFrom ==
  ASSUME VerificationInv, [Next]_vars, NEW q \in Requests, request'[q] # request[q]
  PROVE  request[q] \notin Decided \/ \E c \in Calls : call[c].pc = "apply" /\ call[c].request = q
<1>0. TypeOK /\ Shape
  BY DEF VerificationInv
<1>1. ASSUME NEW c \in Calls, CreateRequest(c) PROVE request[q] \notin Decided
  <2>1. request[call[c].request] = "NONE" /\ request' = [request EXCEPT ![call[c].request] = "PENDING"]
    BY <1>0, <1>1 DEF CreateRequest, At, Shape, CallShape
  <2> QED
    BY <1>0, <2>1 DEF TypeOK, Decided, Outcomes
<1>2. ASSUME NEW c \in Calls, Apply(c) PROVE call[c].pc = "apply" /\ call[c].request = q
  BY <1>0, <1>2 DEF Apply, TypeOK
<1>3. ASSUME NEW p \in Requests, GrowsOld(p) PROVE request[q] \notin Decided
  BY <1>0, <1>3 DEF GrowsOld, TypeOK, Decided, Outcomes
<1>4. CASE Sweep
  BY <1>0, <1>4 DEF Sweep, Stale, TypeOK, Decided, Outcomes
<1>5. ~UNCHANGED request
  OBVIOUS
<1> QED
  BY <1>1, <1>2, <1>3, <1>4, <1>5
     DEF Next, Continue, CheckVerified, CheckPending, CheckAssets, OpenSession, RecordEvent,
         FindRequest, Crash, StartSubmit, Deliver, StartAdmin, VendorDecides, Store, vars

LEMMA SettledStep ==
  ASSUME VerificationInv, [Next]_vars, NEW q \in Requests, Settled(q)
  PROVE  Settled(q)' /\ request'[q] = request[q]
<1>1. request'[q] = request[q]
  BY RowFrom DEF Settled
<1>2. ASSUME NEW d \in Calls, call'[d].pc = "apply" PROVE call'[d].request # q
  BY <1>2, ApplyFrom DEF Settled, MayDecide, Pending, Decided, Outcomes
<1>3. Decided' = Decided
  BY DEF Decided, Outcomes
<1> QED
  BY <1>1, <1>2, <1>3 DEF Settled

(* D-038: a request that is decided or expired stays so, once no call that
   read it PENDING is under way, however its events are repeated.          *)
THEOREM DecisionsSettle == Spec => SettledForGood
<1>1. VerificationInv /\ [Next]_vars =>
        [\A q \in Requests : Settled(q) => Settled(q)' /\ request'[q] = request[q]]_vars
  BY SettledStep
<1> QED
  BY <1>1, VerificationInit, VerificationStep, PTL DEF Spec, SettledForGood

-----------------------------------------------------------------------------
(* Submissions.  Past the test for a request in progress comes only who    *)
(* found none.                                                             *)

LEMMA SubmitFrom ==
  ASSUME VerificationInv, [Next]_vars, NEW d \in Calls, NEW u \in Users,
         PendingOf(u) # {}, call[d].me = u => call[d].pc \in {"user", "pending"},
         call'[d].me = u
  PROVE  call'[d].pc \in {"user", "pending"}
<1>0. TypeOK /\ Shape /\ u # NoUser /\ call[d] \in CallType /\ CallShape(call[d])
  BY VerificationAssumption DEF VerificationInv, TypeOK, Shape
<1>1. CASE call'[d] = call[d]
  BY <1>1
<1>2. ASSUME NEW c \in Calls, End(c) PROVE call'[d] = call[d]
  BY <1>0, <1>2, EndAt, IdleShape
<1>3. ASSUME NEW c \in Calls, CheckVerified(c) PROVE call'[d].pc \in {"user", "pending"}
  BY <1>0, <1>1, <1>2, <1>3, GotoAt DEF CheckVerified
<1>4. ASSUME NEW c \in Calls, CheckPending(c) PROVE call'[d].pc \in {"user", "pending"}
  <2>1. CASE End(c)
    BY <1>1, <1>2, <2>1
  <2>2. CASE Goto(c, "assets") /\ ~InProgress(call[c].me)
    BY <1>0, <1>1, <2>2, GotoAt DEF InProgress
  <2> QED
    BY <1>4, <2>1, <2>2 DEF CheckPending
<1>5. ASSUME NEW c \in Calls, NEW pc \in {"session", "find", "apply"}, Goto(c, pc),
             call[c].pc \in {"assets", "record", "find"}
      PROVE  call'[d] = call[d]
  BY <1>0, <1>5, GotoAt
<1>6. ASSUME NEW c \in Calls, CheckAssets(c) \/ RecordEvent(c) \/ FindRequest(c)
      PROVE  call'[d] = call[d]
  BY <1>2, <1>5, <1>6 DEF CheckAssets, RecordEvent, FindRequest, At
<1>7. ASSUME NEW c \in Calls, OpenSession(c) PROVE call'[d] = call[d]
  <2>1. PICK q \in Unopened :
          call' = [call EXCEPT ![c] = [call[c] EXCEPT !.pc = "create", !.request = q]]
    BY <1>0, <1>7 DEF OpenSession, TypeOK
  <2>2. [call[c] EXCEPT !.pc = "create", !.request = q].me = call[c].me /\ call[c].pc = "session"
    BY <1>0, <1>7 DEF TypeOK, CallType, OpenSession, At
  <2> QED
    BY <1>0, <2>1, <2>2 DEF TypeOK
<1>8. ASSUME NEW c \in Calls, CreateRequest(c) \/ Apply(c) \/ Crash(c) PROVE call'[d] = call[d]
  BY <1>2, <1>8 DEF CreateRequest, Apply, Crash
<1>9. ASSUME NEW c \in Calls, NEW x, call' = [call EXCEPT ![c] = x],
             x.me # NoUser => x.pc = "user"
      PROVE  call'[d].pc \in {"user", "pending"}
  BY <1>0, <1>1, <1>9 DEF TypeOK
<1>10. ASSUME NEW c \in Calls, NEW v \in Users, StartSubmit(c, v)
       PROVE  call'[d].pc \in {"user", "pending"}
  BY <1>9, <1>10 DEF StartSubmit, IdleCall
<1>11. ASSUME NEW c \in Calls, NEW e \in Events, Deliver(c, e)
       PROVE  call'[d].pc \in {"user", "pending"}
  BY <1>9, <1>11 DEF Deliver
<1>12. ASSUME NEW c \in Calls, NEW q \in Requests, NEW o \in Outcomes, StartAdmin(c, q, o)
       PROVE  call'[d].pc \in {"user", "pending"}
  BY <1>9, <1>12 DEF StartAdmin, IdleCall
<1> QED
  BY <1>1, <1>3, <1>4, <1>6, <1>7, <1>8, <1>10, <1>11, <1>12
     DEF Next, Continue, VendorDecides, GrowsOld, Sweep, vars

LEMMA SecondStep ==
  ASSUME VerificationInv, [Next]_vars, NEW u \in Users, OneInProgress(u)
  PROVE  OneInProgress(u)' \/ PendingOf(u)' = {}
BY SubmitFrom DEF OneInProgress

(* While a request is in progress and no earlier submission is past the
   test, none of that user's submissions passes it.                        *)
THEOREM OneAttemptAtATime == Spec => NoSecondAttempt
<1>1. VerificationInv /\ [Next]_vars =>
        [\A u \in Users : OneInProgress(u) => OneInProgress(u)' \/ PendingOf(u)' = {}]_vars
  BY SecondStep
<1> QED
  BY <1>1, VerificationInit, VerificationStep, PTL DEF Spec, NoSecondAttempt
=============================================================================
