------------------------------ MODULE Sessions ------------------------------
(***************************************************************************)
(* Login sessions (modules/auth/token.service.ts; logout, logoutAll and    *)
(* refresh of auth.service.ts).  A session is a family of refresh tokens:  *)
(* each refresh spends a token and issues its successor.  As in Pings, a   *)
(* call is cut at its database statements; the transaction of rotate is    *)
(* one step, and so is the read of a token with its family.                *)
(***************************************************************************)
EXTENDS Integers, FiniteSets

CONSTANTS
  Users,
  Families,  \* ids of refresh_token_families: bounds the logins
  Tokens,    \* ids of refresh_tokens: bounds the rotations
  Calls,     \* requests in flight at once
  NoUser, NoFamily, NoToken,
  CanCrash   \* whether an answer may be lost, with its instance or on its way

ASSUME SessionsAssumption ==
  /\ NoUser \notin Users
  /\ NoFamily \notin Families
  /\ NoToken \notin Tokens
  /\ CanCrash \in BOOLEAN

VARIABLES
  family,  \* the families table
  token,   \* the tokens table; parent is history: the token it replaced
  call,    \* the calls in flight
  held,    \* the token the client of each family was given last
  strayed  \* history: the families with a token in the hands of a thief, or
           \* an answer that did not reach the client

vars == <<family, token, call, held, strayed>>

Reasons == {"TOKEN_REUSE", "USER_LOGOUT", "USER_LOGOUT_ALL"}

FamilyType == [state : {"UNUSED", "LIVE", "REVOKED"},
               owner : Users \cup {NoUser}, reason : Reasons \cup {"NONE"}]

TokenType == [state : {"UNUSED", "FRESH", "EXPIRED", "USED"},
              family : Families \cup {NoFamily}, parent : Tokens \cup {NoToken}]

IdleCall == [op |-> "none", pc |-> "idle", me |-> NoUser, family |-> NoFamily,
             token |-> NoToken]

CallType == [op : {"none", "login", "refresh", "logout"},
             pc : {"idle", "family", "token", "read", "revoke", "swap", "reply"},
             me : Users \cup {NoUser}, family : Families \cup {NoFamily},
             token : Tokens \cup {NoToken}]

TypeOK ==
  /\ family \in [Families -> FamilyType]
  /\ token \in [Tokens -> TokenType]
  /\ call \in [Calls -> CallType]
  /\ held \in [Families -> Tokens \cup {NoToken}]
  /\ strayed \in SUBSET Families

Init ==
  /\ family = [f \in Families |-> [state |-> "UNUSED", owner |-> NoUser,
                                   reason |-> "NONE"]]
  /\ token = [t \in Tokens |-> [state |-> "UNUSED", family |-> NoFamily,
                                parent |-> NoToken]]
  /\ call = [c \in Calls |-> IdleCall]
  /\ held = [f \in Families |-> NoToken]
  /\ strayed = {}

-----------------------------------------------------------------------------
Issued(t) == token[t].state # "UNUSED"

TokensOf(f) == {t \in Tokens : Issued(t) /\ token[t].family = f}

Children(t) == {s \in Tokens : Issued(s) /\ token[s].parent = t}

Idle(c) == call[c].pc = "idle"

Begin(c, fields) == Idle(c) /\ call' = [call EXCEPT ![c] = fields]

Goto(c, pc) == call' = [call EXCEPT ![c].pc = pc]

End(c) == call' = [call EXCEPT ![c] = IdleCall]

(* Mutant: a token is stored without its family.                           *)
NewTokenAlone(f, parent) == [state |-> "FRESH", parent |-> parent]

NewToken(f, parent) == [state |-> "FRESH", family |-> f, parent |-> parent]

Unborn == {t \in Tokens : ~Issued(t)}

(* The bounds: every call that may still insert a row has an id left.      *)
RoomForToken ==
  Cardinality(Unborn)
    > Cardinality({c \in Calls : call[c].pc \in {"family", "token", "swap"}
                                  \/ (call[c].op = "refresh" /\ call[c].pc = "read")})

RoomForFamily ==
  Cardinality({f \in Families : family[f].state = "UNUSED"})
    > Cardinality({c \in Calls : call[c].pc = "family"})

-----------------------------------------------------------------------------
(* createSession: two inserts, and no transaction around them.             *)

StartLogin(c, u) ==
  /\ RoomForFamily /\ RoomForToken
  /\ Begin(c, [IdleCall EXCEPT !.op = "login", !.pc = "family", !.me = u])
  /\ UNCHANGED <<family, token, held, strayed>>

CreateFamily(c) ==
  /\ call[c].pc = "family"
  /\ \E f \in Families :
       /\ family[f].state = "UNUSED"
       /\ family' = [family EXCEPT ![f] = [state |-> "LIVE", owner |-> call[c].me,
                                           reason |-> "NONE"]]
       /\ call' = [call EXCEPT ![c].pc = "token", ![c].family = f]
  /\ UNCHANGED <<token, held, strayed>>

IssueFirst(c) ==
  /\ call[c].pc = "token"
  /\ \E t \in Unborn :
       /\ token' = [token EXCEPT ![t] = NewToken(call[c].family, NoToken)]
       /\ call' = [call EXCEPT ![c].pc = "reply", ![c].token = t]
  /\ UNCHANGED <<family, held, strayed>>

-----------------------------------------------------------------------------
(* rotate                                                                  *)

(* An honest client presents the token it was given last, one call at a    *)
(* time.                                                                   *)
Honest(t) ==
  /\ held[token[t].family] = t
  /\ \A c \in Calls : call[c].family # token[t].family

(* Anybody may present any token that was ever issued, at any time.        *)
Present(t) ==
  /\ Issued(t)
  /\ strayed' = IF Honest(t) THEN strayed ELSE strayed \cup {token[t].family}

StartRefresh(c, t) ==
  /\ RoomForToken
  /\ Present(t)
  /\ Begin(c, [IdleCall EXCEPT !.op = "refresh", !.pc = "read", !.token = t,
                               !.family = token[t].family])
  /\ UNCHANGED <<family, token, held>>

(* Mutant: used_at is not tested.                                          *)
VerdictReplay(t) ==
  IF family[token[t].family].state = "REVOKED" \/ token[t].state = "EXPIRED"
  THEN "idle" ELSE "swap"

(* Mutant: the family is not tested.                                       *)
VerdictRevoked(t) ==
  CASE token[t].state = "USED"    -> "revoke"
    [] token[t].state = "EXPIRED" -> "idle"
    [] OTHER                      -> "swap"

(* The order of the tests is the code's: revoked, used, expired.           *)
Verdict(t) ==
  IF family[token[t].family].state = "REVOKED" THEN "idle"
  ELSE CASE token[t].state = "USED"    -> "revoke"
         [] token[t].state = "EXPIRED" -> "idle"
         [] OTHER                      -> "swap"

ReadToken(c) ==
  LET next == Verdict(call[c].token)
  IN /\ call[c].op = "refresh" /\ call[c].pc = "read"
     /\ IF next = "idle" THEN End(c) ELSE Goto(c, next)
     /\ UNCHANGED <<family, token, held, strayed>>

(* Spending the token and issuing its successor, in one transaction.  The  *)
(* update is by id alone: it does not look at used_at again.               *)
Swap(c) ==
  LET t == call[c].token
  IN /\ call[c].pc = "swap"
     /\ \E s \in Unborn :
          /\ token' = [token EXCEPT ![t].state = "USED",
                                    ![s] = NewToken(token[t].family, t)]
          /\ call' = [call EXCEPT ![c].pc = "reply", ![c].token = s]
     /\ UNCHANGED <<family, held, strayed>>

(* Mutant: the answer holds the token that was presented.                  *)
ReplyPresented(c) ==
  /\ call[c].pc = "reply"
  /\ IF token[call[c].token].parent = NoToken
     THEN held' = [held EXCEPT ![call[c].family] = call[c].token]
     ELSE UNCHANGED held
  /\ End(c)
  /\ UNCHANGED <<family, token, strayed>>

(* The answer reaches the client, which keeps the token it got last.       *)
Reply(c) ==
  /\ call[c].pc = "reply"
  /\ held' = [held EXCEPT ![call[c].family] = call[c].token]
  /\ End(c)
  /\ UNCHANGED <<family, token, strayed>>

-----------------------------------------------------------------------------
(* Revocation                                                              *)

StartLogout(c, t) ==
  /\ Present(t)
  /\ Begin(c, [IdleCall EXCEPT !.op = "logout", !.pc = "read", !.token = t,
                               !.family = token[t].family])
  /\ UNCHANGED <<family, token, held>>

(* revokeByToken: any token that exists will do, used or expired.          *)
FindToken(c) ==
  /\ call[c].op = "logout" /\ call[c].pc = "read"
  /\ Goto(c, "revoke")
  /\ UNCHANGED <<family, token, held, strayed>>

(* revokeFamily: by id alone, the reason of an earlier revocation is lost. *)
RevokeFamily(c) ==
  LET reason == IF call[c].op = "refresh" THEN "TOKEN_REUSE" ELSE "USER_LOGOUT"
  IN /\ call[c].pc = "revoke"
     /\ family' = [family EXCEPT ![call[c].family].state = "REVOKED",
                                 ![call[c].family].reason = reason]
     /\ End(c)
     /\ UNCHANGED <<token, held, strayed>>

(* revokeAllForUser: one updateMany, on families not revoked yet.          *)
LogoutAll(u) ==
  /\ family' = [f \in Families |->
                  IF family[f].owner = u /\ family[f].state = "LIVE"
                  THEN [family[f] EXCEPT !.state = "REVOKED", !.reason = "USER_LOGOUT_ALL"]
                  ELSE family[f]]
  /\ UNCHANGED <<token, call, held, strayed>>

-----------------------------------------------------------------------------
(* The expiry of a token that is spent is never looked at.                 *)
TokenExpires(t) ==
  /\ token[t].state = "FRESH"
  /\ token' = [token EXCEPT ![t].state = "EXPIRED"]
  /\ UNCHANGED <<family, call, held, strayed>>

(* What was done stays done, and the client is not told.                   *)
Crash(c) ==
  /\ CanCrash /\ ~Idle(c)
  /\ strayed' = strayed \cup ({call[c].family} \ {NoFamily})
  /\ End(c)
  /\ UNCHANGED <<family, token, held>>

Continue(c) ==
  \/ CreateFamily(c) \/ IssueFirst(c) \/ ReadToken(c) \/ Swap(c) \/ Reply(c)
  \/ FindToken(c) \/ RevokeFamily(c)

Next ==
  \/ \E c \in Calls : Continue(c) \/ Crash(c)
  \/ \E c \in Calls, u \in Users : StartLogin(c, u)
  \/ \E c \in Calls, t \in Tokens : StartRefresh(c, t) \/ StartLogout(c, t)
  \/ \E u \in Users : LogoutAll(u)
  \/ \E t \in Tokens : TokenExpires(t)

Spec == Init /\ [][Next]_vars

-----------------------------------------------------------------------------
(* A token has as many successors as calls that read it before the first of
   them spent it; once it is spent and those are done, no more.            *)
ForkNeedsOverlap == \A t \in Tokens : Cardinality(Children(t)) <= Cardinality(Calls)

(* A revoked session is over: when no call that saw it alive is left, it
   never issues a token again and is never revived.                        *)
Over(f) ==
  /\ family[f].state = "REVOKED"
  /\ \A c \in Calls : call[c].family = f => call[c].pc \notin {"token", "swap"}

RevokedIsOver ==
  [][\A f \in Families : Over(f) => Over(f)' /\ TokensOf(f)' = TokensOf(f)]_vars

(* No client is taken for a thief that presents its tokens in turn and gets
   its answers: whatever other sessions do, and however often it refreshes. *)
HonestIsNeverRevoked ==
  \A f \in Families : family[f].reason = "TOKEN_REUSE" => f \in strayed
=============================================================================
