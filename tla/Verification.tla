---------------------------- MODULE Verification ----------------------------
(***************************************************************************)
(* Identity verification (modules/verification/verification.service.ts and *)
(* processors/verification.processor.ts): a user submits, a vendor or an   *)
(* operator decides, a sweep expires what nobody decided.                  *)
(*                                                                         *)
(* The vendor is outside the code: it opens a session when asked, decides, *)
(* and posts signed events, each of them any number of times and to any    *)
(* instance.  A body with a bad signature, or that is no decision, changes *)
(* nothing and is left out.                                                *)
(***************************************************************************)
EXTENDS Integers, FiniteSets

CONSTANTS
  Users,
  Requests,  \* vendor sessions, each of which may get one row of
             \* verification_requests: bounds the submissions
  Events,    \* ids of vendor events
  Calls,     \* requests and deliveries in flight at once
  NoUser, NoRequest, NoEvent,
  Admins,    \* whether operators decide too
  CanCrash   \* whether an API instance may die under a call

ASSUME VerificationAssumption ==
  /\ NoUser \notin Users /\ NoRequest \notin Requests /\ NoEvent \notin Events
  /\ Admins \in BOOLEAN /\ CanCrash \in BOOLEAN

VARIABLES
  session,   \* the vendor's sessions, by request: the user each was opened for
  request,   \* the requests table
  verified,  \* the users with is_verified
  ledger,    \* the event ids recorded in kyc_webhook_events
  event,     \* what the vendor's events say
  call       \* the calls in flight

vars == <<session, request, verified, ledger, event, call>>

Outcomes == {"APPROVED", "REJECTED"}

Decided == Outcomes \cup {"EXPIRED"}

IdleCall == [op |-> "none", pc |-> "idle", me |-> NoUser, request |-> NoRequest,
             outcome |-> "NONE", event |-> NoEvent]

CallType ==
  [op : {"none", "submit", "webhook", "admin"},
   pc : {"idle", "user", "pending", "assets", "session", "create",
         "record", "find", "apply"},
   me : Users \cup {NoUser}, request : Requests \cup {NoRequest},
   outcome : Outcomes \cup {"NONE"}, event : Events \cup {NoEvent}]

TypeOK ==
  /\ session \in [Requests -> Users \cup {NoUser}]
  /\ request \in [Requests -> {"NONE", "PENDING", "STALE"} \cup Decided]
  /\ verified \in SUBSET Users
  /\ ledger \in SUBSET Events
  /\ event \in [Events -> [request : Requests \cup {NoRequest},
                           outcome : Outcomes \cup {"NONE"}]]
  /\ call \in [Calls -> CallType]

Init ==
  /\ session = [q \in Requests |-> NoUser]
  /\ request = [q \in Requests |-> "NONE"]
  /\ verified = {}
  /\ ledger = {}
  /\ event = [e \in Events |-> [request |-> NoRequest, outcome |-> "NONE"]]
  /\ call = [c \in Calls |-> IdleCall]

-----------------------------------------------------------------------------
(* "STALE" is PENDING for longer than KYC_REQUEST_TTL_HOURS.               *)
Pending(q) == request[q] \in {"PENDING", "STALE"}

PendingOf(u) == {q \in Requests : Pending(q) /\ session[q] = u}

Unopened == {q \in Requests : session[q] = NoUser}

Idle(c) == call[c].pc = "idle"

At(c, op, pc) == call[c].op = op /\ call[c].pc = pc

Goto(c, pc) == call' = [call EXCEPT ![c].pc = pc]

End(c) == call' = [call EXCEPT ![c] = IdleCall]

Store == <<session, request, verified, ledger, event>>

-----------------------------------------------------------------------------
(* submit                                                                  *)

(* The bound on submissions: each may need a session of its own.           *)
StartSubmit(c, u) ==
  /\ Idle(c)
  /\ Cardinality(Unopened) > Cardinality({d \in Calls : call[d].op = "submit"})
  /\ call' = [call EXCEPT ![c] = [IdleCall EXCEPT !.op = "submit", !.pc = "user", !.me = u]]
  /\ UNCHANGED Store

CheckVerified(c) ==
  /\ At(c, "submit", "user")
  /\ IF call[c].me \in verified THEN End(c) ELSE Goto(c, "pending")
  /\ UNCHANGED Store

(* Mutant: the request in progress is not looked for.                      *)
NeverInProgress(u) == FALSE

InProgress(u) == PendingOf(u) # {}

CheckPending(c) ==
  /\ At(c, "submit", "pending")
  /\ IF InProgress(call[c].me) THEN End(c) ELSE Goto(c, "assets")
  /\ UNCHANGED Store

(* Whether the selfie and the document are usable is for Media to say.     *)
CheckAssets(c) ==
  /\ At(c, "submit", "assets")
  /\ Goto(c, "session") \/ End(c)
  /\ UNCHANGED Store

(* The vendor opens the session before there is a row that knows of it.    *)
OpenSession(c) ==
  /\ At(c, "submit", "session")
  /\ \E q \in Unopened :
       /\ session' = [session EXCEPT ![q] = call[c].me]
       /\ call' = [call EXCEPT ![c].pc = "create", ![c].request = q]
  /\ UNCHANGED <<request, verified, ledger, event>>

CreateRequest(c) ==
  /\ At(c, "submit", "create")
  /\ request' = [request EXCEPT ![call[c].request] = "PENDING"]
  /\ End(c)
  /\ UNCHANGED <<session, verified, ledger, event>>

-----------------------------------------------------------------------------
(* handleWebhook and adminDecide                                           *)

(* The vendor decides, once or more, about a session it opened.            *)
VendorDecides(e, q, outcome) ==
  /\ event[e].request = NoRequest
  /\ session[q] # NoUser
  /\ event' = [event EXCEPT ![e] = [request |-> q, outcome |-> outcome]]
  /\ UNCHANGED <<session, request, verified, ledger, call>>

(* Mutant: the event that is looked up does not say what it decides.       *)
DeliverUndecided(c, e) ==
  /\ Idle(c)
  /\ event[e].request # NoRequest
  /\ call' = [call EXCEPT ![c] = [op |-> "webhook", pc |-> "record", event |-> e,
                                  request |-> event[e].request]]
  /\ UNCHANGED Store

Deliver(c, e) ==
  /\ Idle(c)
  /\ event[e].request # NoRequest
  /\ call' = [call EXCEPT ![c] =
                [op |-> "webhook", pc |-> "record", me |-> NoUser, event |-> e,
                 request |-> event[e].request, outcome |-> event[e].outcome]]
  /\ UNCHANGED Store

Seen(e) == e \in ledger

(* One insert: the unique index answers a duplicate.                       *)
RecordEvent(c) ==
  /\ At(c, "webhook", "record")
  /\ IF Seen(call[c].event) THEN End(c) ELSE Goto(c, "find")
  /\ ledger' = ledger \cup {call[c].event}
  /\ UNCHANGED <<session, request, verified, event>>

StartAdmin(c, q, outcome) ==
  /\ Admins /\ Idle(c)
  /\ call' = [call EXCEPT ![c] = [IdleCall EXCEPT !.op = "admin", !.pc = "find",
                                     !.request = q, !.outcome = outcome]]
  /\ UNCHANGED Store

(* Mutant: a request that was decided may be decided again.                *)
MayDecideAgain(q) == request[q] # "NONE"

(* The row must be there, and PENDING when it is read.                     *)
MayDecide(q) == Pending(q)

FindRequest(c) ==
  /\ call[c].op \in {"webhook", "admin"} /\ call[c].pc = "find"
  /\ IF MayDecide(call[c].request) THEN Goto(c, "apply") ELSE End(c)
  /\ UNCHANGED Store

(* applyDecision: one transaction, by id, whatever the state is by now.    *)
Apply(c) ==
  LET q == call[c].request
  IN /\ call[c].pc = "apply"
     /\ request' = [request EXCEPT ![q] = call[c].outcome]
     /\ verified' = IF call[c].outcome = "APPROVED" THEN verified \cup {session[q]}
                                                    ELSE verified
     /\ End(c)
     /\ UNCHANGED <<session, ledger, event>>

-----------------------------------------------------------------------------
(* KYC_REQUEST_TTL_HOURS pass.                                             *)
GrowsOld(q) ==
  /\ request[q] = "PENDING"
  /\ request' = [request EXCEPT ![q] = "STALE"]
  /\ UNCHANGED <<session, verified, ledger, event, call>>

(* Mutant: the sweep finds nothing.                                        *)
StaleNever == {}

Stale == {q \in Requests : request[q] = "STALE"}

(* sweepExpired: one updateMany.                                           *)
Sweep ==
  /\ Stale # {}
  /\ request' = [q \in Requests |-> IF q \in Stale THEN "EXPIRED" ELSE request[q]]
  /\ UNCHANGED <<session, verified, ledger, event, call>>

Crash(c) ==
  /\ CanCrash /\ ~Idle(c)
  /\ End(c)
  /\ UNCHANGED Store

Continue(c) ==
  \/ CheckVerified(c) \/ CheckPending(c) \/ CheckAssets(c) \/ OpenSession(c)
  \/ CreateRequest(c) \/ RecordEvent(c) \/ FindRequest(c) \/ Apply(c)

Next ==
  \/ \E c \in Calls : Continue(c) \/ Crash(c)
  \/ \E c \in Calls, u \in Users : StartSubmit(c, u)
  \/ \E c \in Calls, e \in Events : Deliver(c, e)
  \/ \E c \in Calls, q \in Requests, o \in Outcomes : StartAdmin(c, q, o)
  \/ \E e \in Events, q \in Requests, o \in Outcomes : VendorDecides(e, q, o)
  \/ \E q \in Requests : GrowsOld(q)
  \/ Sweep

Spec == Init /\ [][Next]_vars

(* Time passes, and the repeatable job runs again and again.               *)
FairSpec ==
  Spec /\ WF_vars(Sweep) /\ \A q \in Requests : WF_vars(GrowsOld(q))

-----------------------------------------------------------------------------
(* Submissions that overlap may leave a user with two requests in progress,
   but when one is in progress and no other submission is past the check,
   none is added until it is decided.                                      *)
OneInProgress(u) ==
  /\ PendingOf(u) # {}
  /\ \A c \in Calls : call[c].me = u => call[c].pc \in {"user", "pending"}

NoSecondAttempt ==
  [][\A u \in Users : OneInProgress(u) => OneInProgress(u)' \/ PendingOf(u)' = {}]_vars

(* D-038, guard 3, and the sweep ("it can never revoke a decision"): once a
   request is decided or expired, and no call that read it PENDING is under
   way, it stays as it is.                                                 *)
Settled(q) ==
  /\ request[q] \in Decided
  /\ \A c \in Calls : call[c].pc = "apply" => call[c].request # q

SettledForGood ==
  [][\A q \in Requests : Settled(q) => Settled(q)' /\ request'[q] = request[q]]_vars

(* No event, lost, burnt or never sent, and no crash leaves a user with a
   request that is in progress forever.                                    *)
PendingEnds == \A q \in Requests : Pending(q) ~> ~Pending(q)

(* D-038: "a verified user with no approved request behind it".  Refuted: an
   operator and the vendor, or two events, that both read PENDING.         *)
VerifiedIsApproved ==
  \A u \in verified : \E q \in Requests : session[q] = u /\ request[q] = "APPROVED"
=============================================================================
