--------------------------- MODULE SessionsProofs ---------------------------
(***************************************************************************)
(* Proofs about Sessions, for any users, families, tokens and calls in     *)
(* flight, with or without lost answers.                                   *)
(***************************************************************************)
EXTENDS Sessions, FiniteSetTheorems, TLAPS

-----------------------------------------------------------------------------
(* What a call in flight holds.  The type alone is not inductive: it allows *)
(* a call to swap no token.                                                *)

CallShape(x) ==
  /\ x.pc = "family" => x.op = "login" /\ x.me \in Users /\ x.family = NoFamily
  /\ x.pc = "token" => x.op = "login" /\ x.family \in Families
  /\ x.pc \in {"read", "swap", "revoke", "reply"} =>
       /\ x.token \in Tokens /\ Issued(x.token)
       /\ x.family \in Families /\ token[x.token].family = x.family
  /\ x.pc = "read" => x.op \in {"refresh", "logout"}
  /\ x.pc = "swap" => x.op = "refresh"
  /\ x.family \in Families => family[x.family].state # "UNUSED"
  /\ x.pc = "idle" => x.family = NoFamily

Shape ==
  /\ \A c \in Calls : CallShape(call[c])
  /\ \A t \in Tokens : Issued(t) =>
       token[t].family \in Families /\ family[token[t].family].state # "UNUSED"

SessionsInv == TypeOK /\ Shape

(* How the call that moves moves.                                          *)
LEMMA CallAt ==
  ASSUME TypeOK, NEW c \in Calls, NEW x \in CallType, call' = [call EXCEPT ![c] = x]
  PROVE  /\ call' \in [Calls -> CallType] /\ call'[c] = x
         /\ \A d \in Calls \ {c} : call'[d] = call[d]
BY DEF TypeOK

LEMMA EndAt ==
  ASSUME TypeOK, NEW c \in Calls, End(c)
  PROVE  /\ call' \in [Calls -> CallType] /\ call'[c] = IdleCall
         /\ \A d \in Calls \ {c} : call'[d] = call[d]
<1>1. IdleCall \in CallType
  BY DEF IdleCall, CallType
<1> QED
  BY <1>1, CallAt DEF End

LEMMA IdleFields ==
  /\ IdleCall.pc = "idle" /\ IdleCall.op = "none" /\ IdleCall.family = NoFamily
  /\ CallShape(IdleCall)
BY SessionsAssumption DEF IdleCall, CallShape

LEMMA GotoAt ==
  ASSUME TypeOK, NEW c \in Calls, NEW pc \in {"revoke", "swap"}, Goto(c, pc)
  PROVE  /\ call' \in [Calls -> CallType]
         /\ call'[c].pc = pc /\ call'[c].op = call[c].op /\ call'[c].me = call[c].me
         /\ call'[c].family = call[c].family /\ call'[c].token = call[c].token
         /\ \A d \in Calls \ {c} : call'[d] = call[d]
<1> DEFINE x == [call[c] EXCEPT !.pc = pc]
<1>1. call[c] \in CallType /\ call' = [call EXCEPT ![c] = x]
  BY DEF TypeOK, Goto
<1>2. /\ x \in CallType /\ x.pc = pc /\ x.op = call[c].op /\ x.me = call[c].me
      /\ x.family = call[c].family /\ x.token = call[c].token
  BY <1>1 DEF CallType
<1> HIDE DEF x
<1> QED
  BY <1>1, <1>2, CallAt

(* A call that arrives with a token, as Begin has it.                      *)
LEMMA PresentAt ==
  ASSUME SessionsInv, NEW c \in Calls, NEW t \in Tokens,
         StartRefresh(c, t) \/ StartLogout(c, t)
  PROVE  /\ call' \in [Calls -> CallType]
         /\ call'[c].pc = "read" /\ call'[c].op \in {"refresh", "logout"}
         /\ call'[c].token = t /\ call'[c].family = token[t].family
         /\ Issued(t) /\ token[t].family \in Families /\ call[c].pc = "idle"
         /\ \A d \in Calls \ {c} : call'[d] = call[d]
         /\ UNCHANGED <<family, token, held>>
         /\ strayed' = IF Honest(t) THEN strayed ELSE strayed \cup {token[t].family}
<1>1. /\ Issued(t) /\ token[t].family \in Families /\ call[c].pc = "idle"
      /\ UNCHANGED <<family, token, held>>
      /\ strayed' = IF Honest(t) THEN strayed ELSE strayed \cup {token[t].family}
  BY DEF StartRefresh, StartLogout, Present, Begin, Idle, SessionsInv, Shape
<1>2. PICK op \in {"refresh", "logout"} :
        call' = [call EXCEPT ![c] = [IdleCall EXCEPT !.op = op, !.pc = "read", !.token = t,
                                                     !.family = token[t].family]]
  BY DEF StartRefresh, StartLogout, Begin
<1> DEFINE x == [IdleCall EXCEPT !.op = op, !.pc = "read", !.token = t,
                                 !.family = token[t].family]
<1>3. x \in CallType /\ x.pc = "read" /\ x.op = op /\ x.token = t /\ x.family = token[t].family
  BY <1>1 DEF IdleCall, CallType
<1> HIDE DEF x
<1> QED
  BY <1>1, <1>2, <1>3, CallAt DEF SessionsInv, x

LEMMA CreateAt ==
  ASSUME SessionsInv, NEW c \in Calls, CreateFamily(c)
  PROVE  \E f \in Families :
           /\ family[f].state = "UNUSED" /\ family'[f].state = "LIVE"
           /\ family'[f].reason = "NONE" /\ family'[f] \in FamilyType
           /\ \A g \in Families \ {f} : family'[g] = family[g]
           /\ family' \in [Families -> FamilyType]
           /\ call' \in [Calls -> CallType]
           /\ call'[c].pc = "token" /\ call'[c].family = f /\ call'[c].op = "login"
           /\ \A d \in Calls \ {c} : call'[d] = call[d]
           /\ UNCHANGED <<token, held, strayed>>
<1>0. TypeOK /\ call[c] \in CallType /\ call[c].op = "login" /\ call[c].me \in Users
  BY DEF SessionsInv, TypeOK, Shape, CallShape, CreateFamily
<1>1. PICK f \in Families :
        /\ family[f].state = "UNUSED"
        /\ family' = [family EXCEPT ![f] = [state |-> "LIVE", owner |-> call[c].me,
                                            reason |-> "NONE"]]
        /\ call' = [call EXCEPT ![c] = [call[c] EXCEPT !.pc = "token", !.family = f]]
  BY <1>0 DEF CreateFamily, TypeOK
<1> DEFINE x == [call[c] EXCEPT !.pc = "token", !.family = f]
<1>2. x \in CallType /\ x.pc = "token" /\ x.family = f /\ x.op = "login"
  BY <1>0 DEF CallType
<1> HIDE DEF x
<1>3. [state |-> "LIVE", owner |-> call[c].me, reason |-> "NONE"] \in FamilyType
  BY <1>0 DEF FamilyType
<1>4. /\ family' \in [Families -> FamilyType]
      /\ family'[f] = [state |-> "LIVE", owner |-> call[c].me, reason |-> "NONE"]
      /\ \A g \in Families \ {f} : family'[g] = family[g]
  BY <1>0, <1>1, <1>3 DEF TypeOK
<1>5. UNCHANGED <<token, held, strayed>>
  BY DEF CreateFamily
<1>6. /\ call' \in [Calls -> CallType] /\ call'[c] = x
      /\ \A d \in Calls \ {c} : call'[d] = call[d]
  BY <1>0, <1>1, <1>2, CallAt DEF x
<1> QED
  BY <1>1, <1>2, <1>3, <1>4, <1>5, <1>6

(* A token is born, to a login or in the place of another.                 *)
Born(c, s, f, parent) ==
  /\ s \in Unborn
  /\ token' \in [Tokens -> TokenType]
  /\ token'[s] = NewToken(f, parent)
  /\ call' \in [Calls -> CallType]
  /\ call'[c].pc = "reply" /\ call'[c].token = s
  /\ call'[c].family = f /\ call'[c].op = call[c].op
  /\ \A d \in Calls \ {c} : call'[d] = call[d]
  /\ UNCHANGED <<family, held, strayed>>

LEMMA IssueAt ==
  ASSUME SessionsInv, NEW c \in Calls, IssueFirst(c)
  PROVE  /\ call[c].family \in Families
         /\ \E s \in Tokens : /\ Born(c, s, call[c].family, NoToken)
                              /\ \A t \in Tokens \ {s} : token'[t] = token[t]
<1>0. TypeOK /\ call[c] \in CallType /\ call[c].op = "login" /\ call[c].family \in Families
  BY DEF SessionsInv, TypeOK, Shape, CallShape, IssueFirst
<1>1. PICK s \in Unborn :
        /\ token' = [token EXCEPT ![s] = NewToken(call[c].family, NoToken)]
        /\ call' = [call EXCEPT ![c] = [call[c] EXCEPT !.pc = "reply", !.token = s]]
  BY <1>0 DEF IssueFirst, TypeOK
<1>2. s \in Tokens
  BY DEF Unborn
<1> DEFINE x == [call[c] EXCEPT !.pc = "reply", !.token = s]
<1>3. x \in CallType /\ x.pc = "reply" /\ x.token = s /\ x.family = call[c].family
      /\ x.op = call[c].op
  BY <1>0, <1>2 DEF CallType
<1> HIDE DEF x
<1>4. NewToken(call[c].family, NoToken) \in TokenType
  BY <1>0 DEF NewToken, TokenType
<1>5. /\ token' \in [Tokens -> TokenType] /\ token'[s] = NewToken(call[c].family, NoToken)
      /\ \A t \in Tokens \ {s} : token'[t] = token[t]
  BY <1>0, <1>1, <1>2, <1>4 DEF TypeOK
<1>6. /\ call' \in [Calls -> CallType] /\ call'[c] = x
      /\ \A d \in Calls \ {c} : call'[d] = call[d]
  BY <1>0, <1>1, <1>3, CallAt DEF x
<1>7. UNCHANGED <<family, held, strayed>>
  BY DEF IssueFirst
<1> QED
  BY <1>0, <1>1, <1>2, <1>3, <1>5, <1>6, <1>7 DEF Born

LEMMA SwapAt ==
  ASSUME SessionsInv, NEW c \in Calls, Swap(c)
  PROVE  LET t == call[c].token
         IN /\ t \in Tokens /\ Issued(t) /\ call[c].op = "refresh" /\ call[c].pc = "swap"
            /\ call[c].family \in Families /\ token[t].family = call[c].family
            /\ token'[t] = [token[t] EXCEPT !.state = "USED"]
            /\ token'[t].state = "USED" /\ token'[t].family = token[t].family
            /\ token'[t].parent = token[t].parent
            /\ \E s \in Tokens \ {t} :
                 /\ Born(c, s, call[c].family, t)
                 /\ \A u \in Tokens \ {s, t} : token'[u] = token[u]
<1> DEFINE t == call[c].token
           f == call[c].family
<1>0. /\ TypeOK /\ call[c] \in CallType /\ call[c].op = "refresh" /\ f \in Families
      /\ t \in Tokens /\ Issued(t) /\ token[t].family = f /\ call[c].pc = "swap"
  BY DEF SessionsInv, TypeOK, Shape, CallShape, Swap
<1>1. PICK s \in Unborn :
        /\ token' = [[token EXCEPT ![t] = [token[t] EXCEPT !.state = "USED"]]
                       EXCEPT ![s] = NewToken(f, t)]
        /\ call' = [call EXCEPT ![c] = [call[c] EXCEPT !.pc = "reply", !.token = s]]
  BY <1>0 DEF Swap, TypeOK
<1>2. s \in Tokens \ {t}
  BY <1>0 DEF Unborn
<1> DEFINE x == [call[c] EXCEPT !.pc = "reply", !.token = s]
           old == [token[t] EXCEPT !.state = "USED"]
<1>3. x \in CallType /\ x.pc = "reply" /\ x.token = s /\ x.family = f
      /\ x.op = call[c].op
  BY <1>0, <1>2 DEF CallType
<1>4. /\ old \in TokenType /\ old.state = "USED" /\ old.family = token[t].family
      /\ old.parent = token[t].parent /\ NewToken(f, t) \in TokenType
  BY <1>0 DEF NewToken, TokenType, TypeOK
<1> HIDE DEF x, old
<1>5. /\ token' \in [Tokens -> TokenType] /\ token'[s] = NewToken(f, t) /\ token'[t] = old
      /\ \A u \in Tokens \ {s, t} : token'[u] = token[u]
  BY <1>0, <1>1, <1>2, <1>4 DEF TypeOK, old
<1>6. /\ call' \in [Calls -> CallType] /\ call'[c] = x
      /\ \A d \in Calls \ {c} : call'[d] = call[d]
  BY <1>0, <1>1, <1>3, CallAt DEF x
<1>7. UNCHANGED <<family, held, strayed>>
  BY DEF Swap
<1>8. Born(c, s, f, t)
  BY <1>0, <1>1, <1>2, <1>3, <1>5, <1>6, <1>7 DEF Born
<1> QED
  BY <1>0, <1>2, <1>4, <1>5, <1>8 DEF old

-----------------------------------------------------------------------------
(* Rows are never taken back: what was issued stays, with its family.      *)
Kept ==
  /\ \A t \in Tokens : Issued(t) => Issued(t)' /\ token'[t].family = token[t].family
  /\ \A f \in Families : family[f].state # "UNUSED" => family'[f].state # "UNUSED"

LEMMA ShapeKept ==
  ASSUME SessionsInv, Kept, NEW c \in Calls, \A d \in Calls \ {c} : call'[d] = call[d],
         CallShape(call[c])',
         \A t \in Tokens : Issued(t)' =>
           Issued(t) \/ (token'[t].family \in Families
                         /\ family'[token'[t].family].state # "UNUSED")
  PROVE  Shape'
<1>1. \A d \in Calls : CallShape(call[d])'
  <2>1. ASSUME NEW d \in Calls \ {c} PROVE CallShape(call[d])'
    BY <2>1 DEF SessionsInv, Shape, CallShape, Kept
  <2> QED
    BY <2>1
<1> QED
  BY <1>1 DEF SessionsInv, Shape, Kept

LEMMA EndKeeps ==
  ASSUME SessionsInv, NEW c \in Calls, End(c), UNCHANGED token,
         \A f \in Families : family[f].state # "UNUSED" => family'[f].state # "UNUSED"
  PROVE  Shape' /\ call' \in [Calls -> CallType]
<1>1. /\ call' \in [Calls -> CallType] /\ call'[c] = IdleCall
      /\ \A d \in Calls \ {c} : call'[d] = call[d]
  BY EndAt DEF SessionsInv
<1>2. CallShape(call[c])'
  BY <1>1, SessionsAssumption DEF CallShape, IdleCall
<1>3. Kept /\ \A t \in Tokens : Issued(t)' => Issued(t)
  BY DEF Kept, Issued
<1> QED
  BY <1>1, <1>2, <1>3, ShapeKept

LEMMA GotoKeeps ==
  ASSUME SessionsInv, NEW c \in Calls, NEW pc \in {"revoke", "swap"}, Goto(c, pc),
         UNCHANGED <<token, family>>, call[c].pc = "read",
         pc = "swap" => call[c].op = "refresh"
  PROVE  Shape' /\ call' \in [Calls -> CallType]
<1>1. /\ call' \in [Calls -> CallType]
      /\ call'[c].pc = pc /\ call'[c].op = call[c].op /\ call'[c].me = call[c].me
      /\ call'[c].family = call[c].family /\ call'[c].token = call[c].token
      /\ \A d \in Calls \ {c} : call'[d] = call[d]
  BY GotoAt DEF SessionsInv
<1>2. CallShape(call[c])
  BY DEF SessionsInv, Shape
<1>3. CallShape(call[c])'
  BY <1>1, <1>2 DEF CallShape, Issued
<1>4. Kept /\ \A t \in Tokens : Issued(t)' => Issued(t)
  BY DEF Kept, Issued
<1> QED
  BY <1>1, <1>3, <1>4, ShapeKept

LEMMA SessionsInit == Init => SessionsInv
<1> SUFFICES ASSUME Init PROVE SessionsInv
  OBVIOUS
<1>1. TypeOK
  BY DEF Init, TypeOK, FamilyType, TokenType, IdleCall, CallType
<1>2. Shape
  BY IdleFields DEF Init, Shape, Issued
<1> QED
  BY <1>1, <1>2 DEF SessionsInv

LEMMA SessionsStep == SessionsInv /\ [Next]_vars => SessionsInv'
<1> SUFFICES ASSUME SessionsInv, [Next]_vars PROVE TypeOK' /\ Shape'
  BY DEF SessionsInv
<1>0. TypeOK /\ Shape /\ \A c \in Calls : call[c] \in CallType /\ CallShape(call[c])
  BY DEF SessionsInv, TypeOK, Shape
<1>1. CASE UNCHANGED vars
  BY <1>0, <1>1 DEF TypeOK, Shape, CallShape, Issued, vars
<1>2. ASSUME NEW c \in Calls, NEW u \in Users, StartLogin(c, u) PROVE TypeOK' /\ Shape'
  <2> DEFINE x == [IdleCall EXCEPT !.op = "login", !.pc = "family", !.me = u]
  <2>1. /\ x \in CallType /\ x.pc = "family" /\ x.op = "login" /\ x.me = u
        /\ x.family = NoFamily
    BY DEF IdleCall, CallType
  <2> HIDE DEF x
  <2>2. UNCHANGED <<family, token, held, strayed>>
    BY <1>2 DEF StartLogin
  <2>3. /\ call' \in [Calls -> CallType] /\ call'[c] = x
        /\ \A d \in Calls \ {c} : call'[d] = call[d]
    BY <1>0, <1>2, <2>1, CallAt DEF StartLogin, Begin, x
  <2>4. CallShape(call[c])'
    BY <2>1, <2>3, SessionsAssumption DEF CallShape
  <2>5. Kept /\ \A t \in Tokens : Issued(t)' => Issued(t)
    BY <2>2 DEF Kept, Issued
  <2>6. Shape'
    BY <2>3, <2>4, <2>5, ShapeKept
  <2> QED
    BY <1>0, <2>2, <2>3, <2>6 DEF TypeOK
<1>3. ASSUME NEW c \in Calls, CreateFamily(c) PROVE TypeOK' /\ Shape'
  <2>1. PICK f \in Families :
           /\ family[f].state = "UNUSED" /\ family'[f].state = "LIVE"
           /\ \A g \in Families \ {f} : family'[g] = family[g]
           /\ family' \in [Families -> FamilyType]
           /\ call' \in [Calls -> CallType]
           /\ call'[c].pc = "token" /\ call'[c].family = f /\ call'[c].op = "login"
           /\ \A d \in Calls \ {c} : call'[d] = call[d]
           /\ UNCHANGED <<token, held, strayed>>
    BY <1>3, CreateAt
  <2>2. CallShape(call[c])'
    BY <2>1, SessionsAssumption DEF CallShape
  <2>3. Kept /\ \A t \in Tokens : Issued(t)' => Issued(t)
    BY <2>1 DEF Kept, Issued
  <2>4. Shape'
    BY <2>1, <2>2, <2>3, ShapeKept
  <2> QED
    BY <1>0, <2>1, <2>4 DEF TypeOK
<1>4. ASSUME NEW c \in Calls, NEW s \in Tokens, NEW f \in Families, NEW parent,
             Born(c, s, f, parent), family[f].state # "UNUSED",
             \A t \in Tokens \ {s} : (Issued(t)' <=> Issued(t)) /\ token'[t].family = token[t].family
      PROVE  TypeOK' /\ Shape'
  <2>1. token'[s].state = "FRESH" /\ token'[s].family = f /\ ~Issued(s)
    BY <1>4 DEF Born, NewToken, Unborn
  <2>2. CallShape(call[c])'
    BY <1>4, <2>1 DEF Born, CallShape, Issued
  <2>3. /\ Kept
        /\ \A t \in Tokens : Issued(t)' =>
             Issued(t) \/ (token'[t].family \in Families
                           /\ family'[token'[t].family].state # "UNUSED")
    BY <1>4, <2>1 DEF Kept, Born
  <2>4. Shape'
    BY <1>4, <2>2, <2>3, ShapeKept DEF Born
  <2> QED
    BY <1>0, <1>4, <2>4 DEF Born, TypeOK
<1>5. ASSUME NEW c \in Calls, IssueFirst(c) PROVE TypeOK' /\ Shape'
  <2>1. call[c].family \in Families /\ family[call[c].family].state # "UNUSED"
    BY <1>0, <1>5, IssueAt DEF CallShape
  <2>2. PICK s \in Tokens : /\ Born(c, s, call[c].family, NoToken)
                            /\ \A t \in Tokens \ {s} : token'[t] = token[t]
    BY <1>5, IssueAt
  <2>3. \A t \in Tokens \ {s} : (Issued(t)' <=> Issued(t)) /\ token'[t].family = token[t].family
    BY <2>2 DEF Issued
  <2> QED
    BY <1>4, <2>1, <2>2, <2>3
<1>6. ASSUME NEW c \in Calls, Swap(c) PROVE TypeOK' /\ Shape'
  <2> DEFINE t == call[c].token
  <2>1. /\ t \in Tokens /\ Issued(t) /\ call[c].family \in Families
        /\ token'[t].state = "USED" /\ token'[t].family = token[t].family
        /\ \E s \in Tokens \ {t} :
             /\ Born(c, s, call[c].family, t)
             /\ \A u \in Tokens \ {s, t} : token'[u] = token[u]
    BY <1>6, SwapAt
  <2>2. PICK s \in Tokens \ {t} :
             /\ Born(c, s, call[c].family, t)
             /\ \A u \in Tokens \ {s, t} : token'[u] = token[u]
    BY <2>1
  <2>3. family[call[c].family].state # "UNUSED"
    BY <1>0, <2>1 DEF CallShape
  <2> HIDE DEF t
  <2>4. ASSUME NEW u \in Tokens \ {s}
        PROVE  (Issued(u)' <=> Issued(u)) /\ token'[u].family = token[u].family
    BY <2>1, <2>2 DEF Issued
  <2> QED
    BY <1>4, <2>1, <2>2, <2>3, <2>4
<1>7. ASSUME NEW c \in Calls, ReadToken(c) PROVE TypeOK' /\ Shape'
  <2>1. /\ UNCHANGED <<family, token, held, strayed>>
        /\ call[c].op = "refresh" /\ call[c].pc = "read"
        /\ End(c) \/ Goto(c, "revoke") \/ Goto(c, "swap")
    BY <1>7 DEF ReadToken, Verdict
  <2>2. Shape' /\ call' \in [Calls -> CallType]
    BY <2>1, EndKeeps, GotoKeeps
  <2> QED
    BY <1>0, <2>1, <2>2 DEF TypeOK
<1>8. ASSUME NEW c \in Calls, FindToken(c) PROVE TypeOK' /\ Shape'
  <2>1. Shape' /\ call' \in [Calls -> CallType]
    BY <1>8, GotoKeeps DEF FindToken
  <2> QED
    BY <1>0, <1>8, <2>1 DEF FindToken, TypeOK
<1>9. ASSUME NEW c \in Calls, Reply(c) PROVE TypeOK' /\ Shape'
  <2>1. Shape' /\ call' \in [Calls -> CallType]
    BY <1>9, EndKeeps DEF Reply
  <2>2. call[c].token \in Tokens
    BY <1>0, <1>9 DEF Reply, CallShape
  <2> QED
    BY <1>0, <1>9, <2>1, <2>2 DEF Reply, TypeOK
<1>10. ASSUME NEW c \in Calls, RevokeFamily(c) PROVE TypeOK' /\ Shape'
  <2> DEFINE f == call[c].family
  <2>1. f \in Families
    BY <1>0, <1>10 DEF RevokeFamily, CallShape
  <2>2. PICK reason \in Reasons :
          family' = [family EXCEPT ![f] = [family[f] EXCEPT !.state = "REVOKED", !.reason = reason]]
    BY <1>0, <1>10, <2>1 DEF RevokeFamily, Reasons, TypeOK
  <2> DEFINE y == [family[f] EXCEPT !.state = "REVOKED", !.reason = reason]
  <2> HIDE DEF f
  <2>3. y \in FamilyType /\ y.state = "REVOKED"
    <3>1. family[f] \in FamilyType
      BY <1>0, <2>1 DEF TypeOK
    <3> QED
      BY <3>1 DEF FamilyType
  <2> HIDE DEF y
  <2>4. /\ family' \in [Families -> FamilyType]
        /\ \A g \in Families : family[g].state # "UNUSED" => family'[g].state # "UNUSED"
    BY <1>0, <2>1, <2>2, <2>3 DEF TypeOK, y
  <2>5. Shape' /\ call' \in [Calls -> CallType]
    BY <1>10, <2>4, EndKeeps DEF RevokeFamily
  <2> QED
    BY <1>0, <1>10, <2>4, <2>5 DEF RevokeFamily, TypeOK
<1>11. ASSUME NEW c \in Calls, Crash(c) PROVE TypeOK' /\ Shape'
  <2>1. Shape' /\ call' \in [Calls -> CallType]
    BY <1>11, EndKeeps DEF Crash
  <2>2. strayed' \subseteq Families
    BY <1>0, <1>11 DEF Crash, TypeOK, CallType
  <2> QED
    BY <1>0, <1>11, <2>1, <2>2 DEF Crash, TypeOK
<1>12. ASSUME NEW c \in Calls, NEW t \in Tokens, StartRefresh(c, t) \/ StartLogout(c, t)
       PROVE  TypeOK' /\ Shape'
  <2>1. /\ call' \in [Calls -> CallType]
        /\ call'[c].pc = "read" /\ call'[c].op \in {"refresh", "logout"}
        /\ call'[c].token = t /\ call'[c].family = token[t].family
        /\ Issued(t) /\ token[t].family \in Families /\ call[c].pc = "idle"
        /\ \A d \in Calls \ {c} : call'[d] = call[d]
        /\ UNCHANGED <<family, token, held>>
        /\ strayed' = IF Honest(t) THEN strayed ELSE strayed \cup {token[t].family}
    BY <1>12, PresentAt
  <2>2. CallShape(call[c])'
    BY <1>0, <2>1 DEF CallShape, Issued, Shape
  <2>3. Kept /\ \A u \in Tokens : Issued(u)' => Issued(u)
    BY <2>1 DEF Kept, Issued
  <2>4. Shape'
    BY <2>1, <2>2, <2>3, ShapeKept
  <2> QED
    BY <1>0, <2>1, <2>4 DEF TypeOK
<1>13. ASSUME NEW u \in Users, LogoutAll(u) PROVE TypeOK' /\ Shape'
  <2>1. UNCHANGED <<token, call, held, strayed>>
    BY <1>13 DEF LogoutAll
  <2>2. ASSUME NEW f \in Families
        PROVE  family'[f] \in FamilyType
               /\ (family[f].state # "UNUSED" => family'[f].state # "UNUSED")
    <3>1. family[f] \in FamilyType
      BY <1>0 DEF TypeOK
    <3>2. family'[f] = family[f]
          \/ family'[f] = [family[f] EXCEPT !.state = "REVOKED", !.reason = "USER_LOGOUT_ALL"]
      BY <1>13 DEF LogoutAll
    <3> QED
      BY <3>1, <3>2 DEF FamilyType, Reasons
  <2>3. family' \in [Families -> FamilyType]
    BY <1>13, <2>2 DEF LogoutAll
  <2>4. Shape'
    BY <1>0, <2>1, <2>2 DEF Shape, CallShape, Issued
  <2> QED
    BY <1>0, <2>1, <2>3, <2>4 DEF TypeOK
<1>14. ASSUME NEW t \in Tokens, TokenExpires(t) PROVE TypeOK' /\ Shape'
  <2> DEFINE y == [token[t] EXCEPT !.state = "EXPIRED"]
  <2>1. /\ token' = [token EXCEPT ![t] = y] /\ token[t].state = "FRESH"
        /\ UNCHANGED <<family, call, held, strayed>>
    BY <1>0, <1>14 DEF TokenExpires, TypeOK
  <2>2. y \in TokenType /\ y.state = "EXPIRED" /\ y.family = token[t].family
    BY <1>0 DEF TypeOK, TokenType
  <2> HIDE DEF y
  <2>3. /\ token' \in [Tokens -> TokenType] /\ token'[t] = y
        /\ \A u \in Tokens \ {t} : token'[u] = token[u]
    BY <1>0, <2>1, <2>2 DEF TypeOK
  <2>4. \A u \in Tokens : (Issued(u)' <=> Issued(u)) /\ token'[u].family = token[u].family
    BY <2>1, <2>2, <2>3 DEF Issued
  <2>5. \A c \in Calls : CallShape(call[c])'
    BY <1>0, <2>1, <2>4 DEF CallShape
  <2>6. Shape'
    BY <1>0, <2>1, <2>4, <2>5 DEF Shape
  <2> QED
    BY <1>0, <2>1, <2>3, <2>6 DEF TypeOK
<1> QED
  BY <1>1, <1>2, <1>3, <1>5, <1>6, <1>7, <1>8, <1>9, <1>10, <1>11, <1>12, <1>13, <1>14
     DEF Next, Continue

(* Type correctness: a token always has its family, and a call that goes on
   with one has one.                                                       *)
THEOREM SessionsTypeCorrect == Spec => []TypeOK
<1>1. SessionsInv => TypeOK
  BY DEF SessionsInv
<1> QED
  BY <1>1, SessionsInit, SessionsStep, PTL DEF Spec

-----------------------------------------------------------------------------
(* Revocation.  A call comes to issue a token only in a family that it     *)
(* created, or that it read alive.                                         *)

LEMMA OverStep ==
  ASSUME SessionsInv, [Next]_vars, NEW f \in Families, Over(f)
  PROVE  Over(f)' /\ TokensOf(f)' = TokensOf(f)
<1>0. TypeOK /\ Shape /\ \A c \in Calls : call[c] \in CallType /\ CallShape(call[c])
  BY DEF SessionsInv, TypeOK, Shape
<1>1. /\ family[f].state = "REVOKED"
      /\ \A c \in Calls : call[c].family = f => call[c].pc \notin {"token", "swap"}
  BY DEF Over
(* The three things to show, of a call c that moves alone.                 *)
<1> DEFINE Same(u) == (Issued(u)' <=> Issued(u)) /\ token'[u].family = token[u].family
<1>2. ASSUME \A u \in Tokens : Same(u)
      PROVE  TokensOf(f)' = TokensOf(f)
  BY <1>2 DEF TokensOf
<1>3. ASSUME UNCHANGED token PROVE TokensOf(f)' = TokensOf(f)
  BY <1>3 DEF TokensOf, Issued
<1>4. ASSUME NEW c \in Calls, \A d \in Calls \ {c} : call'[d] = call[d],
             call'[c].family = f => call'[c].pc \notin {"token", "swap"},
             family'[f].state = "REVOKED"
      PROVE  Over(f)'
  BY <1>1, <1>4 DEF Over
<1>5. ASSUME NEW c \in Calls, End(c), family'[f].state = "REVOKED"
      PROVE  Over(f)'
  <2>1. call'[c].pc = "idle" /\ \A d \in Calls \ {c} : call'[d] = call[d]
    BY <1>0, <1>5, EndAt, IdleFields
  <2> QED
    BY <1>4, <1>5, <2>1
<1>6. CASE UNCHANGED vars
  BY <1>1, <1>3, <1>6 DEF Over, vars
<1>7. ASSUME NEW c \in Calls, NEW u \in Users, StartLogin(c, u)
      PROVE  Over(f)' /\ TokensOf(f)' = TokensOf(f)
  <2> DEFINE x == [IdleCall EXCEPT !.op = "login", !.pc = "family", !.me = u]
  <2>1. x \in CallType /\ x.pc = "family"
    BY DEF IdleCall, CallType
  <2> HIDE DEF x
  <2>2. call'[c] = x /\ \A d \in Calls \ {c} : call'[d] = call[d]
    BY <1>0, <1>7, <2>1, CallAt DEF StartLogin, Begin, x
  <2> QED
    BY <1>1, <1>3, <1>4, <1>7, <2>1, <2>2 DEF StartLogin
<1>8. ASSUME NEW c \in Calls, CreateFamily(c) PROVE Over(f)' /\ TokensOf(f)' = TokensOf(f)
  <2>1. PICK g \in Families :
           /\ family[g].state = "UNUSED"
           /\ \A h \in Families \ {g} : family'[h] = family[h]
           /\ call'[c].family = g
           /\ \A d \in Calls \ {c} : call'[d] = call[d]
           /\ UNCHANGED token
    BY <1>8, CreateAt
  <2>2. g # f /\ family'[f].state = "REVOKED"
    BY <1>1, <2>1
  <2> QED
    BY <1>3, <1>4, <2>1, <2>2
<1>9. ASSUME NEW c \in Calls, NEW s \in Tokens, NEW g \in Families \ {f}, NEW parent,
             Born(c, s, g, parent), \A u \in Tokens \ {s} : Same(u)
      PROVE  Over(f)' /\ TokensOf(f)' = TokensOf(f)
  <2>1. Over(f)'
    BY <1>1, <1>4, <1>9 DEF Born
  <2>2. token'[s].family = g /\ ~Issued(s)
    BY <1>9 DEF Born, NewToken, Unborn
  <2> QED
    BY <1>9, <2>1, <2>2 DEF TokensOf
<1>10. ASSUME NEW c \in Calls, IssueFirst(c) PROVE Over(f)' /\ TokensOf(f)' = TokensOf(f)
  <2>1. call[c].family \in Families \ {f}
    BY <1>1, <1>10, IssueAt DEF IssueFirst
  <2>2. PICK s \in Tokens : /\ Born(c, s, call[c].family, NoToken)
                            /\ \A t \in Tokens \ {s} : token'[t] = token[t]
    BY <1>10, IssueAt
  <2>3. \A u \in Tokens \ {s} : Same(u)
    BY <2>2 DEF Issued
  <2> QED
    BY <1>9, <2>1, <2>2, <2>3
<1>11. ASSUME NEW c \in Calls, Swap(c) PROVE Over(f)' /\ TokensOf(f)' = TokensOf(f)
  <2> DEFINE t == call[c].token
  <2>1. /\ t \in Tokens /\ Issued(t) /\ call[c].family \in Families \ {f}
        /\ token'[t].state = "USED" /\ token'[t].family = token[t].family
        /\ \E s \in Tokens \ {t} :
             /\ Born(c, s, call[c].family, t)
             /\ \A u \in Tokens \ {s, t} : token'[u] = token[u]
    BY <1>1, <1>11, SwapAt
  <2>2. PICK s \in Tokens \ {t} :
             /\ Born(c, s, call[c].family, t)
             /\ \A u \in Tokens \ {s, t} : token'[u] = token[u]
    BY <2>1
  <2> HIDE DEF t
  <2>3. \A u \in Tokens \ {s} : Same(u)
    BY <2>1, <2>2 DEF Issued
  <2> QED
    BY <1>9, <2>1, <2>2, <2>3
<1>12. ASSUME NEW c \in Calls, ReadToken(c) PROVE Over(f)' /\ TokensOf(f)' = TokensOf(f)
  <2>1. /\ UNCHANGED <<family, token>> /\ call[c].pc = "read"
        /\ token[call[c].token].family = call[c].family
    BY <1>0, <1>12 DEF ReadToken, CallShape
  <2>2. CASE End(c)
    BY <1>1, <1>3, <1>5, <2>1, <2>2
  <2>3. CASE Goto(c, "revoke")
    BY <1>0, <1>1, <1>3, <1>4, <2>1, <2>3, GotoAt
  <2>4. CASE Goto(c, "swap") /\ call[c].family # f
    BY <1>0, <1>1, <1>3, <1>4, <2>1, <2>4, GotoAt
  <2>5. call[c].family = f => Verdict(call[c].token) = "idle"
    BY <1>1, <2>1 DEF Verdict
  <2>6. Verdict(call[c].token) \in {"idle", "revoke", "swap"}
    BY DEF Verdict
  <2> QED
    BY <1>12, <2>2, <2>3, <2>4, <2>5, <2>6 DEF ReadToken
<1>13. ASSUME NEW c \in Calls, FindToken(c) PROVE Over(f)' /\ TokensOf(f)' = TokensOf(f)
  BY <1>0, <1>1, <1>3, <1>4, <1>13, GotoAt DEF FindToken
<1>14. ASSUME NEW c \in Calls, RevokeFamily(c) PROVE Over(f)' /\ TokensOf(f)' = TokensOf(f)
  <2>1. family'[f].state = "REVOKED"
    <3>1. family[f] \in FamilyType
      BY <1>0 DEF TypeOK
    <3>2. CASE call[c].family = f
      BY <1>0, <1>14, <3>1, <3>2 DEF RevokeFamily, TypeOK, FamilyType
    <3>3. CASE call[c].family # f
      BY <1>0, <1>1, <1>14, <3>3 DEF RevokeFamily, TypeOK
    <3> QED
      BY <3>2, <3>3
  <2> QED
    BY <1>3, <1>5, <1>14, <2>1 DEF RevokeFamily
<1>15. ASSUME NEW c \in Calls, Reply(c) \/ Crash(c)
       PROVE  Over(f)' /\ TokensOf(f)' = TokensOf(f)
  BY <1>1, <1>3, <1>5, <1>15 DEF Reply, Crash
<1>16. ASSUME NEW c \in Calls, NEW t \in Tokens, StartRefresh(c, t) \/ StartLogout(c, t)
       PROVE  Over(f)' /\ TokensOf(f)' = TokensOf(f)
  <2>1. /\ call'[c].pc = "read" /\ \A d \in Calls \ {c} : call'[d] = call[d]
        /\ UNCHANGED <<family, token, held>>
    BY <1>16, PresentAt
  <2> QED
    BY <1>1, <1>3, <1>4, <2>1
<1>17. ASSUME NEW u \in Users, LogoutAll(u) PROVE Over(f)' /\ TokensOf(f)' = TokensOf(f)
  BY <1>1, <1>3, <1>17 DEF LogoutAll, Over
<1>18. ASSUME NEW t \in Tokens, TokenExpires(t) PROVE Over(f)' /\ TokensOf(f)' = TokensOf(f)
  <2>1. /\ token[t] \in TokenType /\ token[t].state = "FRESH"
        /\ token' = [token EXCEPT ![t] = [token[t] EXCEPT !.state = "EXPIRED"]]
        /\ UNCHANGED <<family, call>>
    BY <1>0, <1>18 DEF TokenExpires, TypeOK
  <2>2. \A u \in Tokens : Same(u)
    BY <1>0, <2>1 DEF TypeOK, TokenType, Issued
  <2> QED
    BY <1>1, <1>2, <2>1, <2>2 DEF Over
<1> QED
  BY <1>6, <1>7, <1>8, <1>10, <1>11, <1>12, <1>13, <1>14, <1>15, <1>16, <1>17, <1>18
     DEF Next, Continue

(* A revoked session is over: once no call that saw it alive is under way,
   it issues no token and is never revived, whatever is presented.         *)
THEOREM RevocationHolds == Spec => RevokedIsOver
<1>1. SessionsInv /\ [Next]_vars =>
        [\A f \in Families : Over(f) => Over(f)' /\ TokensOf(f)' = TokensOf(f)]_vars
  BY OverStep
<1> QED
  BY <1>1, SessionsInit, SessionsStep, PTL DEF Spec, RevokedIsOver

-----------------------------------------------------------------------------
(* HonestIsNeverRevoked needs to know what an honest client is doing: of a  *)
(* family that never strayed there is one call at a time, it refreshes the  *)
(* token that was given last, and that token is spent only while the answer *)
(* with its successor is on its way.                                       *)

InStep(f) ==
  /\ family[f].reason # "TOKEN_REUSE"
  /\ \A c, d \in Calls : call[c].family = f /\ call[d].family = f => c = d
  /\ \A c \in Calls : call[c].family = f =>
       /\ call[c].op = "refresh" /\ call[c].pc \in {"read", "swap"} =>
            call[c].token = held[f] /\ token[held[f]].state # "USED"
       /\ call[c].pc = "reply" => token[call[c].token].state # "USED"
       /\ call[c].op = "refresh" => call[c].pc # "revoke"
  /\ held[f] \in Tokens /\ token[held[f]].state = "USED" =>
       \E c \in Calls : call[c].family = f /\ call[c].pc = "reply"

HeldIsOwn ==
  \A f \in Families : held[f] \in Tokens => Issued(held[f]) /\ token[held[f]].family = f

HonestInv ==
  /\ SessionsInv
  /\ HeldIsOwn
  /\ \A f \in Families \ strayed : InStep(f)

(* The calls and the rows of another session are none of f's business.     *)
LEMMA OtherSession ==
  ASSUME HonestInv, NEW f \in Families, InStep(f),
         \A d \in Calls : call[d].family = f \/ call'[d].family = f => call'[d] = call[d],
         held'[f] = held[f], family'[f].reason # "TOKEN_REUSE",
         \A t \in Tokens : Issued(t) /\ token[t].family = f /\ token'[t].state = "USED"
                             => token[t].state = "USED"
  PROVE  InStep(f)'
<1>1. \A d \in Calls : call'[d].family = f => call'[d] = call[d] /\ call[d].family = f
  OBVIOUS
<1>2. ASSUME NEW d \in Calls, call[d].family = f, call[d].pc \in {"read", "swap", "reply"}
      PROVE  /\ call[d].token \in Tokens
             /\ token'[call[d].token].state = "USED" => token[call[d].token].state = "USED"
  BY <1>2 DEF HonestInv, SessionsInv, Shape, CallShape
<1>3. held[f] \in Tokens /\ token'[held[f]].state = "USED" => token[held[f]].state = "USED"
  BY DEF HonestInv, HeldIsOwn
<1> QED
  BY <1>1, <1>2, <1>3 DEF InStep

(* A call of f ends that was not about to answer.                          *)
LEMMA EndsInStep ==
  ASSUME HonestInv, NEW f \in Families, InStep(f), NEW c \in Calls, call[c].family = f,
         End(c), call[c].pc # "reply", UNCHANGED <<token, held>>,
         family'[f].reason # "TOKEN_REUSE"
  PROVE  InStep(f)'
<1>1. /\ call'[c] = IdleCall /\ \A d \in Calls \ {c} : call'[d] = call[d]
  BY EndAt DEF HonestInv, SessionsInv
<1>2. \A d \in Calls : call'[d].family # f
  BY <1>1, IdleFields, SessionsAssumption DEF InStep
<1>3. ~ (held[f] \in Tokens /\ token[held[f]].state = "USED")
  BY DEF InStep
<1> QED
  BY <1>2, <1>3 DEF InStep

LEMMA HonestInit == Init => HonestInv
<1> SUFFICES ASSUME Init PROVE HonestInv
  OBVIOUS
<1>1. SessionsInv
  BY SessionsInit
<1>2. HeldIsOwn /\ \A f \in Families : InStep(f)
  BY IdleFields, SessionsAssumption DEF Init, HeldIsOwn, InStep
<1> QED
  BY <1>1, <1>2 DEF HonestInv

LEMMA HeldStep == HonestInv /\ [Next]_vars => HeldIsOwn'
<1> SUFFICES ASSUME HonestInv, [Next]_vars, NEW f \in Families, held'[f] \in Tokens
             PROVE  token'[held'[f]].state # "UNUSED" /\ token'[held'[f]].family = f
  BY DEF HeldIsOwn, Issued
<1>0. SessionsInv /\ SessionsInv'
  BY SessionsStep DEF HonestInv
<1>1. \A t \in Tokens : Issued(t) => Issued(t)' /\ token'[t].family = token[t].family
  <2> SUFFICES ASSUME NEW t \in Tokens, Issued(t)
               PROVE  Issued(t)' /\ token'[t].family = token[t].family
    OBVIOUS
  <2>1. ASSUME NEW c \in Calls, IssueFirst(c)
        PROVE  Issued(t)' /\ token'[t].family = token[t].family
    BY <1>0, <2>1, IssueAt DEF Born, Unborn, Issued
  <2>2. ASSUME NEW c \in Calls, Swap(c)
        PROVE  Issued(t)' /\ token'[t].family = token[t].family
    BY <1>0, <2>2, SwapAt DEF Born, Unborn, Issued
  <2>3. ASSUME NEW u \in Tokens, TokenExpires(u)
        PROVE  Issued(t)' /\ token'[t].family = token[t].family
    BY <1>0, <2>3 DEF TokenExpires, SessionsInv, TypeOK, TokenType, Issued
  <2>4. CASE UNCHANGED token
    BY <2>4 DEF Issued
  <2> QED
    BY <2>1, <2>2, <2>3, <2>4 DEF Next, Continue, StartLogin, CreateFamily, ReadToken,
       Reply, FindToken, RevokeFamily, Crash, StartRefresh, StartLogout, LogoutAll, vars
<1>2. CASE held' = held
  BY <1>1, <1>2 DEF HonestInv, HeldIsOwn, Issued
<1>3. ASSUME NEW c \in Calls, Reply(c)
      PROVE  token'[held'[f]].state # "UNUSED" /\ token'[held'[f]].family = f
  <2>1. /\ CallShape(call[c]) /\ call[c].pc = "reply"
        /\ held' = [held EXCEPT ![call[c].family] = call[c].token]
    BY <1>0, <1>3 DEF Reply, SessionsInv, Shape
  <2> QED
    BY <1>0, <1>1, <2>1 DEF CallShape, HonestInv, HeldIsOwn, SessionsInv, TypeOK, Issued
<1> QED
  BY <1>2, <1>3 DEF Next, Continue, StartLogin, CreateFamily, IssueFirst, Swap, ReadToken,
     FindToken, RevokeFamily, Crash, StartRefresh, StartLogout, LogoutAll, TokenExpires, vars

LEMMA InStepStep ==
  ASSUME HonestInv, [Next]_vars, NEW f \in Families \ strayed'
  PROVE  InStep(f)'
<1>0. /\ SessionsInv /\ TypeOK /\ HeldIsOwn
      /\ \A c \in Calls : call[c] \in CallType /\ CallShape(call[c])
      /\ \A t \in Tokens : token[t] \in TokenType
  BY DEF HonestInv, SessionsInv, TypeOK, Shape
<1>1. strayed \subseteq strayed'
  BY DEF Next, Continue, StartLogin, CreateFamily, IssueFirst, Swap, ReadToken, Reply,
     FindToken, RevokeFamily, Crash, StartRefresh, StartLogout, Present, LogoutAll,
     TokenExpires, vars
<1>2. InStep(f)
  BY <1>1 DEF HonestInv
<1>3. CASE UNCHANGED vars
  BY <1>2, <1>3, OtherSession DEF vars, InStep
<1>4. ASSUME NEW c \in Calls, NEW u \in Users, StartLogin(c, u) PROVE InStep(f)'
  <2> DEFINE x == [IdleCall EXCEPT !.op = "login", !.pc = "family", !.me = u]
  <2>1. /\ x \in CallType /\ x.family = NoFamily
    BY DEF IdleCall, CallType
  <2> HIDE DEF x
  <2>2. UNCHANGED <<family, token, held>> /\ call[c].family = NoFamily
    BY <1>0, <1>4 DEF StartLogin, Begin, Idle, CallShape
  <2>3. /\ call'[c] = x /\ \A d \in Calls \ {c} : call'[d] = call[d]
    BY <1>0, <1>4, <2>1, CallAt DEF StartLogin, Begin, x
  <2> QED
    BY <1>2, <2>1, <2>2, <2>3, OtherSession, SessionsAssumption DEF InStep
<1>5. ASSUME NEW c \in Calls, CreateFamily(c) PROVE InStep(f)'
  <2>1. PICK g \in Families :
           /\ family[g].state = "UNUSED" /\ family'[g].reason = "NONE"
           /\ \A h \in Families \ {g} : family'[h] = family[h]
           /\ call'[c].pc = "token" /\ call'[c].family = g /\ call'[c].op = "login"
           /\ \A d \in Calls \ {c} : call'[d] = call[d]
           /\ UNCHANGED <<token, held>>
    BY <1>0, <1>5, CreateAt
  <2>2. call[c].family = NoFamily
    BY <1>0, <1>5 DEF CreateFamily, CallShape
  <2>3. CASE f = g
    <3>1. \A d \in Calls : call[d].family # g /\ held[g] \notin Tokens
      BY <1>0, <2>1 DEF CallShape, HeldIsOwn, SessionsInv, Shape
    <3> QED
      BY <2>1, <2>3, <3>1 DEF InStep
  <2>4. CASE f # g
    BY <1>2, <2>1, <2>2, <2>4, OtherSession, SessionsAssumption DEF InStep
  <2> QED
    BY <2>3, <2>4
<1>6. ASSUME NEW c \in Calls, NEW s \in Tokens, NEW parent, Born(c, s, call[c].family, parent),
             call[c].family \in Families, call[c].pc # "reply",
             \A t \in Tokens \ {s} : token[t].family = f /\ token'[t].state = "USED"
                                       => token[t].state = "USED" \/ call[c].family = f
      PROVE  InStep(f)'
  <2>1. /\ token'[s].state = "FRESH" /\ ~Issued(s)
        /\ call'[c].pc = "reply" /\ call'[c].token = s /\ call'[c].family = call[c].family
        /\ \A d \in Calls \ {c} : call'[d] = call[d]
        /\ UNCHANGED <<family, held>>
    BY <1>6 DEF Born, NewToken, Unborn
  <2>2. CASE call[c].family = f
    BY <1>2, <2>1, <2>2 DEF InStep
  <2>3. CASE call[c].family # f
    BY <1>2, <1>6, <2>1, <2>3, OtherSession DEF InStep
  <2> QED
    BY <2>2, <2>3
<1>7. ASSUME NEW c \in Calls, IssueFirst(c) PROVE InStep(f)'
  <2>1. PICK s \in Tokens : /\ Born(c, s, call[c].family, NoToken)
                            /\ \A t \in Tokens \ {s} : token'[t] = token[t]
    BY <1>0, <1>7, IssueAt
  <2>2. call[c].family \in Families /\ call[c].pc # "reply"
    BY <1>0, <1>7, IssueAt DEF IssueFirst
  <2> QED
    BY <1>6, <2>1, <2>2
<1>8. ASSUME NEW c \in Calls, Swap(c) PROVE InStep(f)'
  <2> DEFINE t == call[c].token
  <2>1. /\ t \in Tokens /\ call[c].family \in Families /\ token[t].family = call[c].family
        /\ call[c].pc = "swap"
        /\ \E s \in Tokens \ {t} :
             /\ Born(c, s, call[c].family, t)
             /\ \A u \in Tokens \ {s, t} : token'[u] = token[u]
    BY <1>0, <1>8, SwapAt
  <2>2. PICK s \in Tokens \ {t} :
             /\ Born(c, s, call[c].family, t)
             /\ \A u \in Tokens \ {s, t} : token'[u] = token[u]
    BY <2>1
  <2> HIDE DEF t
  <2> QED
    BY <1>6, <2>1, <2>2
<1>9. ASSUME NEW c \in Calls, ReadToken(c) PROVE InStep(f)'
  <2>1. /\ UNCHANGED <<family, token, held>>
        /\ call[c].op = "refresh" /\ call[c].pc = "read" /\ call[c].token \in Tokens
        /\ End(c) \/ Goto(c, Verdict(call[c].token))
    BY <1>0, <1>9 DEF ReadToken, CallShape
  <2>2. family'[f].reason # "TOKEN_REUSE"
    BY <1>2, <2>1 DEF InStep
  <2>3. Verdict(call[c].token) \in {"idle", "revoke", "swap"}
    BY DEF Verdict
  <2>4. CASE End(c)
    <3>1. call'[c].family = NoFamily /\ \A d \in Calls \ {c} : call'[d] = call[d]
      BY <1>0, <2>4, EndAt, IdleFields
    <3>2. CASE call[c].family = f
      BY <1>2, <2>1, <2>2, <2>4, <3>2, EndsInStep
    <3>3. CASE call[c].family # f
      BY <1>2, <2>1, <2>2, <3>1, <3>3, OtherSession, SessionsAssumption
    <3> QED
      BY <3>2, <3>3
  <2>5. ASSUME NEW pc \in {"revoke", "swap"}, Goto(c, pc), pc = Verdict(call[c].token)
        PROVE  InStep(f)'
    <3>1. /\ call'[c].pc = pc /\ call'[c].op = call[c].op
          /\ call'[c].family = call[c].family /\ call'[c].token = call[c].token
          /\ \A d \in Calls \ {c} : call'[d] = call[d]
      BY <1>0, <2>5, GotoAt
    <3>2. CASE call[c].family = f
      <4>1. call[c].token = held[f] /\ token[held[f]].state # "USED"
        BY <1>2, <2>1, <3>2 DEF InStep
      <4>2. pc = "swap"
        BY <2>1, <2>5, <4>1 DEF Verdict
      <4> QED
        BY <1>2, <2>1, <3>1, <3>2, <4>1, <4>2 DEF InStep
    <3>3. CASE call[c].family # f
      BY <1>2, <2>1, <2>2, <3>1, <3>3, OtherSession
    <3> QED
      BY <3>2, <3>3
  <2> QED
    BY <1>9, <2>3, <2>4, <2>5 DEF ReadToken
<1>10. ASSUME NEW c \in Calls, FindToken(c) PROVE InStep(f)'
  <2>1. /\ call'[c].pc = "revoke" /\ call'[c].op = call[c].op
        /\ call'[c].family = call[c].family /\ call'[c].token = call[c].token
        /\ \A d \in Calls \ {c} : call'[d] = call[d]
        /\ UNCHANGED <<family, token, held>> /\ call[c].op = "logout" /\ call[c].pc = "read"
    BY <1>0, <1>10, GotoAt DEF FindToken
  <2>2. CASE call[c].family = f
    BY <1>2, <2>1, <2>2 DEF InStep
  <2>3. CASE call[c].family # f
    BY <1>2, <2>1, <2>3, OtherSession DEF InStep
  <2> QED
    BY <2>2, <2>3
<1>11. ASSUME NEW c \in Calls, RevokeFamily(c) PROVE InStep(f)'
  <2>1. /\ UNCHANGED <<token, held>> /\ End(c) /\ call[c].pc = "revoke"
        /\ call[c].family \in Families
        /\ \A g \in Families \ {call[c].family} : family'[g] = family[g]
        /\ call[c].op # "refresh" => family'[call[c].family].reason = "USER_LOGOUT"
    <3>1. \A g \in Families : family[g] \in FamilyType
      BY <1>0 DEF TypeOK
    <3> QED
      BY <1>0, <1>11, <3>1 DEF RevokeFamily, CallShape, TypeOK, FamilyType
  <2>2. call'[c].family = NoFamily /\ \A d \in Calls \ {c} : call'[d] = call[d]
    BY <1>0, <2>1, EndAt, IdleFields
  <2>3. CASE call[c].family = f
    <3>1. call[c].op # "refresh"
      BY <1>2, <2>1, <2>3 DEF InStep
    <3> QED
      BY <1>2, <2>1, <2>3, <3>1, EndsInStep
  <2>4. CASE call[c].family # f
    BY <1>2, <2>1, <2>2, <2>4, OtherSession, SessionsAssumption DEF InStep
  <2> QED
    BY <2>3, <2>4
<1>12. ASSUME NEW c \in Calls, Reply(c) PROVE InStep(f)'
  <2>1. /\ UNCHANGED <<family, token>> /\ End(c) /\ call[c].pc = "reply"
        /\ call[c].family \in Families /\ call[c].token \in Tokens
        /\ held'[call[c].family] = call[c].token
        /\ \A g \in Families \ {call[c].family} : held'[g] = held[g]
    BY <1>0, <1>12 DEF Reply, CallShape, TypeOK
  <2>2. call'[c].family = NoFamily /\ \A d \in Calls \ {c} : call'[d] = call[d]
    BY <1>0, <2>1, EndAt, IdleFields
  <2>3. CASE call[c].family = f
    <3>1. \A d \in Calls : call'[d].family # f
      BY <1>2, <2>2, <2>3, SessionsAssumption DEF InStep
    <3>2. token'[held'[f]].state # "USED"
      BY <1>2, <2>1, <2>3 DEF InStep
    <3> QED
      BY <1>2, <2>1, <3>1, <3>2 DEF InStep
  <2>4. CASE call[c].family # f
    BY <1>2, <2>1, <2>2, <2>4, OtherSession, SessionsAssumption DEF InStep
  <2> QED
    BY <2>3, <2>4
<1>13. ASSUME NEW c \in Calls, Crash(c) PROVE InStep(f)'
  <2>1. /\ UNCHANGED <<family, token, held>> /\ End(c)
        /\ call[c].family # f
    BY <1>13, SessionsAssumption DEF Crash
  <2>2. call'[c].family = NoFamily /\ \A d \in Calls \ {c} : call'[d] = call[d]
    BY <1>0, <2>1, EndAt, IdleFields
  <2> QED
    BY <1>2, <2>1, <2>2, OtherSession, SessionsAssumption DEF InStep
<1>14. ASSUME NEW c \in Calls, NEW t \in Tokens, StartRefresh(c, t) \/ StartLogout(c, t)
       PROVE  InStep(f)'
  <2>1. /\ call'[c].pc = "read" /\ call'[c].token = t /\ call'[c].family = token[t].family
        /\ call[c].pc = "idle" /\ call[c].family = NoFamily
        /\ \A d \in Calls \ {c} : call'[d] = call[d]
        /\ UNCHANGED <<family, token, held>>
        /\ strayed' = IF Honest(t) THEN strayed ELSE strayed \cup {token[t].family}
    BY <1>0, <1>14, PresentAt DEF CallShape
  <2>2. CASE token[t].family = f
    <3>1. held[f] = t /\ \A d \in Calls : call[d].family # f
      BY <2>1, <2>2 DEF Honest
    <3>2. token[t].state # "USED"
      BY <1>2, <3>1 DEF InStep
    <3> QED
      BY <1>2, <2>1, <2>2, <3>1, <3>2 DEF InStep
  <2>3. CASE token[t].family # f
    BY <1>2, <2>1, <2>3, OtherSession, SessionsAssumption DEF InStep
  <2> QED
    BY <2>2, <2>3
<1>15. ASSUME NEW u \in Users, LogoutAll(u) PROVE InStep(f)'
  <2>1. family'[f].reason = family[f].reason \/ family'[f].reason = "USER_LOGOUT_ALL"
    <3>1. family[f] \in FamilyType
      BY <1>0 DEF TypeOK
    <3> QED
      BY <1>15, <3>1 DEF LogoutAll, FamilyType
  <2> QED
    BY <1>2, <1>15, <2>1, OtherSession DEF LogoutAll, InStep
<1>16. ASSUME NEW t \in Tokens, TokenExpires(t) PROVE InStep(f)'
  <2>1. \A u \in Tokens : token'[u].state = "USED" => token[u].state = "USED"
    BY <1>0, <1>16 DEF TokenExpires, TypeOK, TokenType
  <2> QED
    BY <1>2, <1>16, <2>1, OtherSession DEF TokenExpires, InStep
<1> QED
  BY <1>3, <1>4, <1>5, <1>7, <1>8, <1>9, <1>10, <1>11, <1>12, <1>13, <1>14, <1>15, <1>16
     DEF Next, Continue

(* A client that presents its tokens in turn and gets its answers is never
   taken for a thief, whatever other sessions do.                          *)
THEOREM HonestClientsStay == Spec => []HonestIsNeverRevoked
<1>1. HonestInv /\ [Next]_vars => HonestInv'
  BY SessionsStep, HeldStep, InStepStep DEF HonestInv
<1>2. HonestInv => HonestIsNeverRevoked
  BY DEF HonestInv, InStep, HonestIsNeverRevoked
<1> QED
  BY <1>1, <1>2, HonestInit, PTL DEF Spec

-----------------------------------------------------------------------------
(* Forks.  A token that is spent has for each of its successors a call that *)
(* read it in time, and nobody joins those that have not swapped it yet.    *)

Swappers(t) == {c \in Calls : call[c].pc = "swap" /\ call[c].token = t}

Forks(t) ==
  /\ IsFiniteSet(Children(t))
  /\ token[t].state # "USED" => Children(t) = {}
  /\ token[t].state = "USED" =>
       Cardinality(Children(t)) + Cardinality(Swappers(t)) <= Cardinality(Calls)

ForkInv == \A t \in Tokens : Forks(t)

LEMMA SwappersFinite ==
  ASSUME IsFiniteSet(Calls), NEW t
  PROVE  /\ IsFiniteSet(Swappers(t)) /\ Cardinality(Swappers(t)) \in Nat
         /\ Cardinality(Swappers(t)) <= Cardinality(Calls)
BY FS_Subset, FS_CardinalityType DEF Swappers

LEMMA FewerSwappers ==
  ASSUME IsFiniteSet(Calls), NEW t, Forks(t), Children(t)' = Children(t),
         token'[t].state = token[t].state,
         token[t].state = "USED" => Swappers(t)' \subseteq Swappers(t)
  PROVE  Forks(t)'
<1>1. CASE token[t].state = "USED"
  <2>1. Swappers(t)' \in SUBSET Swappers(t) /\ IsFiniteSet(Swappers(t))
    BY <1>1, SwappersFinite
  <2>2. IsFiniteSet(Swappers(t)') /\ Cardinality(Swappers(t)') <= Cardinality(Swappers(t))
    BY <2>1, FS_Subset
  <2>3. /\ Cardinality(Swappers(t)') \in Nat /\ Cardinality(Swappers(t)) \in Nat
        /\ Cardinality(Children(t)) \in Nat /\ Cardinality(Calls) \in Nat
    BY <2>1, <2>2, FS_CardinalityType DEF Forks
  <2>4. Cardinality(Children(t)) + Cardinality(Swappers(t)') <= Cardinality(Calls)
    BY <1>1, <2>2, <2>3 DEF Forks
  <2>5. Cardinality(Children(t)') + Cardinality(Swappers(t)') <= Cardinality(Calls)
    BY <2>4
  <2> QED
    BY <1>1, <2>5 DEF Forks
<1>2. CASE token[t].state # "USED"
  BY <1>2 DEF Forks
<1> QED
  BY <1>1, <1>2

(* The swap of t itself: one more successor, one swapper less.             *)
LEMMA SwapForks ==
  ASSUME IsFiniteSet(Calls), SessionsInv, ForkInv, NEW c \in Calls, Swap(c),
         NEW t \in Tokens, call[c].token = t
  PROVE  Forks(t)'
<1>1. /\ call[c].pc = "swap" /\ token'[t].state = "USED"
      /\ token'[t].parent = token[t].parent /\ Issued(t)
      /\ \E s \in Tokens \ {t} :
           /\ Born(c, s, call[c].family, t)
           /\ \A u \in Tokens \ {s, t} : token'[u] = token[u]
  BY SwapAt
<1>2. PICK s \in Tokens \ {t} :
           /\ Born(c, s, call[c].family, t)
           /\ \A u \in Tokens \ {s, t} : token'[u] = token[u]
  BY <1>1
<1>3. /\ token'[s].state = "FRESH" /\ token'[s].parent = t /\ ~Issued(s)
      /\ call'[c].pc = "reply" /\ \A d \in Calls \ {c} : call'[d] = call[d]
  BY <1>2 DEF Born, NewToken, Unborn
<1>4. c \in Swappers(t)
  BY <1>1 DEF Swappers
<1>5. Children(t)' = Children(t) \cup {s} /\ s \notin Children(t)
  BY <1>1, <1>2, <1>3 DEF Children, Issued
<1>6. Swappers(t)' = Swappers(t) \ {c}
  BY <1>3 DEF Swappers
<1>7. IsFiniteSet(Children(t)) /\ IsFiniteSet(Swappers(t))
  BY <1>1, SwappersFinite DEF ForkInv, Forks
<1>8. /\ IsFiniteSet(Children(t)')
      /\ Cardinality(Children(t)') = Cardinality(Children(t)) + 1
      /\ Cardinality(Swappers(t)') = Cardinality(Swappers(t)) - 1
  <2>1. /\ IsFiniteSet(Children(t) \cup {s})
        /\ Cardinality(Children(t) \cup {s}) = Cardinality(Children(t)) + 1
    BY <1>5, <1>7, FS_AddElement
  <2>2. Cardinality(Swappers(t) \ {c}) = Cardinality(Swappers(t)) - 1
    BY <1>4, <1>7, FS_RemoveElement
  <2> QED
    BY <1>5, <1>6, <2>1, <2>2
<1>9. Cardinality(Children(t)) + Cardinality(Swappers(t)) <= Cardinality(Calls)
  <2>1. CASE token[t].state = "USED"
    BY <1>1, <2>1 DEF ForkInv, Forks
  <2>2. CASE token[t].state # "USED"
    <3>1. Cardinality(Children(t)) = 0
      BY <1>1, <2>2, FS_EmptySet DEF ForkInv, Forks
    <3> QED
      BY <3>1, SwappersFinite
  <2> QED
    BY <2>1, <2>2
<1>10. /\ Cardinality(Children(t)) \in Nat /\ Cardinality(Swappers(t)) \in Nat
       /\ Cardinality(Calls) \in Nat
  BY <1>7, FS_CardinalityType
<1>11. Cardinality(Children(t)') + Cardinality(Swappers(t)') <= Cardinality(Calls)
  BY <1>8, <1>9, <1>10
<1> QED
  BY <1>1, <1>8, <1>11 DEF Forks

LEMMA ForkStep ==
  ASSUME IsFiniteSet(Calls), SessionsInv, ForkInv, [Next]_vars
  PROVE  ForkInv'
<1> SUFFICES ASSUME NEW t \in Tokens PROVE Forks(t)'
  BY DEF ForkInv
<1>0. /\ TypeOK /\ Forks(t)
      /\ \A c \in Calls : call[c] \in CallType /\ CallShape(call[c])
      /\ \A u \in Tokens : token[u] \in TokenType
  BY DEF SessionsInv, TypeOK, Shape, ForkInv
<1>1. ASSUME UNCHANGED token, NEW c \in Calls, \A d \in Calls \ {c} : call'[d] = call[d],
             call'[c].pc = "swap" => token[call'[c].token].state # "USED"
      PROVE  Forks(t)'
  <2>1. Children(t)' = Children(t) /\ token'[t].state = token[t].state
    BY <1>1 DEF Children, Issued
  <2>2. token[t].state = "USED" => Swappers(t)' \subseteq Swappers(t)
    BY <1>1 DEF Swappers
  <2> QED
    BY <1>0, <2>1, <2>2, FewerSwappers
<1>2. ASSUME NEW c \in Calls, End(c), UNCHANGED token PROVE Forks(t)'
  BY <1>0, <1>1, <1>2, EndAt, IdleFields
<1>3. CASE UNCHANGED <<token, call>>
  <2>1. /\ Children(t)' = Children(t) /\ token'[t].state = token[t].state
        /\ Swappers(t)' = Swappers(t)
    BY <1>3 DEF Children, Issued, Swappers
  <2> QED
    BY <1>0, <2>1, FewerSwappers
<1>4. ASSUME NEW c \in Calls, NEW u \in Users, StartLogin(c, u) PROVE Forks(t)'
  <2> DEFINE x == [IdleCall EXCEPT !.op = "login", !.pc = "family", !.me = u]
  <2>1. x \in CallType /\ x.pc = "family"
    BY DEF IdleCall, CallType
  <2> HIDE DEF x
  <2>2. /\ call'[c] = x /\ \A d \in Calls \ {c} : call'[d] = call[d]
    BY <1>0, <1>4, <2>1, CallAt DEF StartLogin, Begin, x
  <2> QED
    BY <1>1, <1>4, <2>1, <2>2 DEF StartLogin
<1>5. ASSUME NEW c \in Calls, CreateFamily(c) PROVE Forks(t)'
  <2>1. /\ call'[c].pc = "token" /\ \A d \in Calls \ {c} : call'[d] = call[d]
        /\ UNCHANGED token
    BY <1>5, CreateAt
  <2> QED
    BY <1>1, <2>1
<1>6. ASSUME NEW c \in Calls, NEW s \in Tokens, NEW parent, parent # t,
             Born(c, s, call[c].family, parent),
             token'[t].state = "USED" => token[t].state = "USED" /\ s # t,
             \A u \in Tokens \ {s} : (Issued(u)' <=> Issued(u)) /\ token'[u].parent = token[u].parent,
             s # t => token'[t].state = token[t].state
      PROVE  Forks(t)'
  <2>1. /\ token'[s].state = "FRESH" /\ token'[s].parent = parent /\ ~Issued(s)
        /\ call'[c].pc = "reply" /\ \A d \in Calls \ {c} : call'[d] = call[d]
    BY <1>6 DEF Born, NewToken, Unborn
  <2>2. Children(t)' = Children(t)
    BY <1>6, <2>1 DEF Children
  <2>3. Swappers(t)' \subseteq Swappers(t)
    BY <2>1 DEF Swappers
  <2>4. CASE s = t
    BY <1>0, <2>1, <2>2, <2>4 DEF Forks, Issued
  <2>5. CASE s # t
    BY <1>0, <1>6, <2>2, <2>3, <2>5, FewerSwappers
  <2> QED
    BY <2>4, <2>5
<1>7. ASSUME NEW c \in Calls, IssueFirst(c) PROVE Forks(t)'
  <2>1. PICK s \in Tokens : /\ Born(c, s, call[c].family, NoToken)
                            /\ \A u \in Tokens \ {s} : token'[u] = token[u]
    BY <1>7, IssueAt
  <2>2. token'[s].state = "FRESH" /\ NoToken # t
    BY <2>1, SessionsAssumption DEF Born, NewToken
  <2>3. \A u \in Tokens \ {s} : (Issued(u)' <=> Issued(u)) /\ token'[u].parent = token[u].parent
    BY <2>1 DEF Issued
  <2> QED
    BY <1>6, <2>1, <2>2, <2>3
<1>8. ASSUME NEW c \in Calls, Swap(c), call[c].token # t PROVE Forks(t)'
  <2> DEFINE p == call[c].token
  <2>1. /\ p \in Tokens /\ Issued(p) /\ token'[p].state = "USED"
        /\ token'[p].parent = token[p].parent
        /\ \E s \in Tokens \ {p} :
             /\ Born(c, s, call[c].family, p)
             /\ \A u \in Tokens \ {s, p} : token'[u] = token[u]
    BY <1>8, SwapAt
  <2>2. PICK s \in Tokens \ {p} :
             /\ Born(c, s, call[c].family, p)
             /\ \A u \in Tokens \ {s, p} : token'[u] = token[u]
    BY <2>1
  <2>3. p # t /\ token'[s].state = "FRESH"
    BY <1>8, <2>2 DEF Born, NewToken
  <2> HIDE DEF p
  <2>4. \A u \in Tokens \ {s} : (Issued(u)' <=> Issued(u)) /\ token'[u].parent = token[u].parent
    BY <2>1, <2>2 DEF Issued
  <2> QED
    BY <1>6, <2>2, <2>3, <2>4
<1>9. ASSUME NEW c \in Calls, Swap(c), call[c].token = t PROVE Forks(t)'
  BY <1>9, SwapForks
<1>10. ASSUME NEW c \in Calls, ReadToken(c) PROVE Forks(t)'
  <2>1. UNCHANGED token /\ Verdict(call[c].token) \in {"idle", "revoke", "swap"}
    BY <1>10 DEF ReadToken, Verdict
  <2>2. CASE End(c)
    BY <1>2, <2>1, <2>2
  <2>3. CASE Goto(c, "revoke")
    BY <1>0, <1>1, <2>1, <2>3, GotoAt
  <2>4. CASE Goto(c, "swap") /\ Verdict(call[c].token) = "swap"
    <3>1. token[call[c].token].state # "USED"
      BY <2>4 DEF Verdict
    <3> QED
      BY <1>0, <1>1, <2>1, <2>4, <3>1, GotoAt
  <2> QED
    BY <1>10, <2>1, <2>2, <2>3, <2>4 DEF ReadToken
<1>11. ASSUME NEW c \in Calls, FindToken(c) PROVE Forks(t)'
  BY <1>0, <1>1, <1>11, GotoAt DEF FindToken
<1>12. ASSUME NEW c \in Calls, Reply(c) \/ RevokeFamily(c) \/ Crash(c) PROVE Forks(t)'
  BY <1>2, <1>12 DEF Reply, RevokeFamily, Crash
<1>13. ASSUME NEW c \in Calls, NEW u \in Tokens, StartRefresh(c, u) \/ StartLogout(c, u)
       PROVE  Forks(t)'
  <2>1. /\ call'[c].pc = "read" /\ \A d \in Calls \ {c} : call'[d] = call[d]
        /\ UNCHANGED token
    BY <1>13, PresentAt
  <2> QED
    BY <1>1, <2>1
<1>14. ASSUME NEW u \in Users, LogoutAll(u) PROVE Forks(t)'
  BY <1>3, <1>14 DEF LogoutAll
<1>15. ASSUME NEW u \in Tokens, TokenExpires(u) PROVE Forks(t)'
  <2>1. /\ token[u].state = "FRESH" /\ UNCHANGED call
        /\ token' = [token EXCEPT ![u] = [token[u] EXCEPT !.state = "EXPIRED"]]
    BY <1>0, <1>15 DEF TokenExpires, TypeOK
  <2>2. \A s \in Tokens : /\ Issued(s)' <=> Issued(s)
                          /\ token'[s].parent = token[s].parent
                          /\ token'[s].state = "USED" <=> token[s].state = "USED"
    BY <1>0, <2>1 DEF TypeOK, TokenType, Issued
  <2>3. Children(t)' = Children(t) /\ Swappers(t)' = Swappers(t)
    BY <2>1, <2>2 DEF Children, Swappers
  <2> QED
    BY <1>0, <2>2, <2>3 DEF Forks
<1> QED
  BY <1>3, <1>4, <1>5, <1>7, <1>8, <1>9, <1>10, <1>11, <1>12, <1>13, <1>14, <1>15
     DEF Next, Continue, vars

(* A token has at most as many successors as there are calls that can have
   read it before it was spent.                                            *)
THEOREM ForksAreOverlaps ==
  ASSUME IsFiniteSet(Calls)
  PROVE  Spec => []ForkNeedsOverlap
<1>1. Init => ForkInv
  <2> SUFFICES ASSUME Init, NEW t \in Tokens PROVE Forks(t)
    BY DEF ForkInv
  <2>1. Children(t) = {} /\ token[t].state # "USED"
    BY DEF Init, Children, Issued
  <2> QED
    BY <2>1, FS_EmptySet DEF Forks
<1>2. SessionsInv /\ ForkInv /\ [Next]_vars => ForkInv'
  BY ForkStep
<1>3. ForkInv => ForkNeedsOverlap
  <2> SUFFICES ASSUME ForkInv, NEW t \in Tokens
               PROVE  Cardinality(Children(t)) <= Cardinality(Calls)
    BY DEF ForkNeedsOverlap
  <2>1. /\ Cardinality(Children(t)) \in Nat /\ Cardinality(Swappers(t)) \in Nat
        /\ Cardinality(Calls) \in Nat
    BY SwappersFinite, FS_CardinalityType DEF ForkInv, Forks
  <2>2. CASE token[t].state = "USED"
    BY <2>1, <2>2 DEF ForkInv, Forks
  <2>3. CASE token[t].state # "USED"
    BY <2>1, <2>3, FS_EmptySet DEF ForkInv, Forks
  <2> QED
    BY <2>2, <2>3
<1> QED
  BY <1>1, <1>2, <1>3, SessionsInit, SessionsStep, PTL DEF Spec
=============================================================================
