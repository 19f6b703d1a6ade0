------------------------------ MODULE OtpProofs ------------------------------
(***************************************************************************)
(* Proofs about Otp, for any finite number of challenges and of requests   *)
(* in flight, and for any of the three limits.                             *)
(***************************************************************************)
EXTENDS Otp, FiniteSetTheorems, TLAPS

-----------------------------------------------------------------------------
(* The inductive invariant: what each variable looks like, then one part   *)
(* for each of the bounds.                                                 *)

RowType == [state : {"UNUSED", "LIVE", "CONSUMED", "EXPIRED"}, attempts : Nat,
            born : 0..Cardinality(Challenges)]

CallType == [pc : Steps, code : Challenges \cup {NoChallenge},
             found : Challenges \cup {NoChallenge}, try : 1..MaxTries]

RowsOK == challenge \in [Challenges -> RowType]

CountersOK ==
  /\ rate \in 0..(MaxPerHour + 1) /\ ttl \in BOOLEAN
  /\ account \in 0..1 /\ ticket \in BOOLEAN
  /\ grants \in [Challenges -> Nat]

(* A request past FindChallenge has a challenge in hand.                   *)
CallKnows(x) ==
  x.pc \in {"burn", "compare", "miss", "consume", "user", "grant"} => x.found \in Challenges

CallsOK == call \in [Calls -> CallType] /\ \A c \in Calls : CallKnows(call[c])

TypeInv == RowsOK /\ CountersOK /\ CallsOK

(* The requests that may yet count a miss against h.                       *)
Tries(x, h) == x.pc \in {"compare", "miss"} /\ x.found = h

Trying(h) == {c \in Calls : Tries(call[c], h)}

(* A request under way has its place among the Cardinality(Calls) misses   *)
(* that the cap may be overrun by, from the moment it passes the cap.      *)
GuessInv ==
  \A h \in Challenges :
    challenge[h].attempts + Cardinality(Trying(h)) <= MaxAttempts - 1 + Cardinality(Calls)

(* The requests that have closed the earlier codes, and not yet sent one.  *)
Creating == {c \in Calls : call[c].pc = "create"}

LiveInv == Cardinality(LiveCodes) + Cardinality(Creating) <= Cardinality(Calls)

OtpInv == TypeInv /\ GuessInv /\ LiveInv

-----------------------------------------------------------------------------
(* Facts about the sets that are counted.                                  *)

LEMMA Sizes ==
  /\ Cardinality(Calls) \in Nat /\ Cardinality(Challenges) \in Nat
  /\ IsFiniteSet(LiveCodes) /\ Cardinality(LiveCodes) \in Nat
  /\ IsFiniteSet(Creating) /\ Cardinality(Creating) \in Nat
  /\ Cardinality(Creating) <= Cardinality(Calls)
  /\ \A h : /\ IsFiniteSet(Trying(h)) /\ Cardinality(Trying(h)) \in Nat
            /\ Cardinality(Trying(h)) <= Cardinality(Calls)
<1>1. Cardinality(Calls) \in Nat /\ Cardinality(Challenges) \in Nat
  BY OtpAssumption, FS_CardinalityType
<1>3. LiveCodes \subseteq Challenges /\ Creating \subseteq Calls
  BY DEF LiveCodes, Creating
<1>4. IsFiniteSet(LiveCodes) /\ Cardinality(LiveCodes) \in Nat
  BY <1>3, OtpAssumption, FS_Subset, FS_CardinalityType
<1>5. IsFiniteSet(Creating) /\ Cardinality(Creating) \in Nat
      /\ Cardinality(Creating) <= Cardinality(Calls)
  BY <1>3, OtpAssumption, FS_Subset, FS_CardinalityType
<1>6. ASSUME NEW h
      PROVE  /\ IsFiniteSet(Trying(h)) /\ Cardinality(Trying(h)) \in Nat
             /\ Cardinality(Trying(h)) <= Cardinality(Calls)
  <2>1. Trying(h) \subseteq Calls
    BY DEF Trying
  <2> QED
    BY <2>1, OtpAssumption, FS_Subset, FS_CardinalityType
<1> QED
  BY <1>1, <1>4, <1>5, <1>6

(* What is no larger than a finite set has no more elements.               *)
LEMMA Fewer ==
  ASSUME NEW S, NEW T, IsFiniteSet(T), S \subseteq T
  PROVE  /\ Cardinality(S) \in Nat /\ Cardinality(T) \in Nat
         /\ Cardinality(S) <= Cardinality(T)
BY FS_Subset, FS_CardinalityType

(* Without one of its elements a set has one element fewer.                *)
LEMMA OneFewer ==
  ASSUME NEW S, NEW T, NEW x, IsFiniteSet(T), x \in T, S \subseteq T \ {x}
  PROVE  /\ Cardinality(S) \in Nat /\ Cardinality(T) \in Nat
         /\ Cardinality(S) + 1 <= Cardinality(T)
<1>1. IsFiniteSet(T \ {x}) /\ Cardinality(T \ {x}) = Cardinality(T) - 1
  BY FS_RemoveElement
<1>2. Cardinality(S) <= Cardinality(T \ {x}) /\ Cardinality(S) \in Nat
  BY <1>1, Fewer
<1>3. Cardinality(T) \in Nat
  BY FS_CardinalityType
<1> QED
  BY <1>1, <1>2, <1>3

(* With one more element a set has at most one element more.               *)
LEMMA OneMore ==
  ASSUME NEW S, NEW T, NEW x, IsFiniteSet(T), S \subseteq T \cup {x}
  PROVE  /\ Cardinality(S) \in Nat /\ Cardinality(T) \in Nat
         /\ Cardinality(S) <= Cardinality(T) + 1
<1>1. IsFiniteSet(T \cup {x}) /\ Cardinality(T \cup {x}) <= Cardinality(T) + 1
  <2>1. Cardinality(T) \in Nat
    BY FS_CardinalityType
  <2>2. IsFiniteSet(T \cup {x})
    BY FS_AddElement
  <2>3. Cardinality(T \cup {x}) = IF x \in T THEN Cardinality(T) ELSE Cardinality(T) + 1
    BY FS_AddElement
  <2> QED
    BY <2>1, <2>2, <2>3
<1>2. Cardinality(S) <= Cardinality(T \cup {x}) /\ Cardinality(S) \in Nat
  BY <1>1, Fewer
<1>3. Cardinality(T) \in Nat /\ Cardinality(T \cup {x}) \in Nat
  BY <1>1, FS_CardinalityType
<1> QED
  BY <1>1, <1>2, <1>3

-----------------------------------------------------------------------------
(* A request gets its new record and the others keep theirs.               *)

LEMMA IdleFacts == IdleCall \in CallType /\ CallKnows(IdleCall) /\ IdleCall.pc = "idle"
                   /\ IdleCall.found = NoChallenge
BY OtpAssumption DEF IdleCall, CallType, CallKnows, Steps

LEMMA CallMoves ==
  ASSUME CallsOK, NEW c \in Calls, NEW x \in CallType, CallKnows(x),
         call' = [call EXCEPT ![c] = x]
  PROVE  /\ CallsOK' /\ call'[c] = x
         /\ \A d \in Calls \ {c} : call'[d] = call[d]
BY DEF CallsOK

LEMMA EndMoves ==
  ASSUME CallsOK, NEW c \in Calls, End(c)
  PROVE  /\ CallsOK' /\ call'[c] = IdleCall
         /\ \A d \in Calls \ {c} : call'[d] = call[d]
BY IdleFacts, CallMoves DEF End

LEMMA GotoMoves ==
  ASSUME CallsOK, NEW c \in Calls, NEW p \in Steps, Goto(c, p),
         \/ p \notin {"burn", "compare", "miss", "consume", "user", "grant"}
         \/ call[c].found \in Challenges
  PROVE  /\ CallsOK' /\ call'[c].pc = p /\ call'[c].found = call[c].found
         /\ \A d \in Calls \ {c} : call'[d] = call[d]
<1> DEFINE x == [call[c] EXCEPT !.pc = p]
<1>1. call[c] \in CallType
  BY DEF CallsOK
<1>2. x \in CallType /\ x.pc = p /\ x.found = call[c].found
  BY <1>1 DEF CallType
<1>3. CallKnows(x)
  BY <1>2 DEF CallKnows
<1>4. call' = [call EXCEPT ![c] = x]
  BY DEF Goto
<1> HIDE DEF x
<1> QED
  BY <1>2, <1>3, <1>4, CallMoves

-----------------------------------------------------------------------------
(* What a step may do to the requests and to the rows.  A step that does   *)
(* none of these disturbs neither bound.                                   *)

NoTry == \A d \in Calls, h \in Challenges : Tries(call'[d], h) => Tries(call[d], h)

NoCreate == \A d \in Calls : call'[d].pc = "create" => call[d].pc = "create"

NoMiss == \A h \in Challenges : challenge'[h].attempts = challenge[h].attempts

NoLive == \A h \in Challenges : challenge'[h].state = "LIVE" => challenge[h].state = "LIVE"

Calm == NoTry /\ NoCreate /\ NoMiss /\ NoLive

LEMMA GuessKept == ASSUME OtpInv, TypeInv', NoTry, NoMiss PROVE GuessInv'
<1> SUFFICES ASSUME NEW h \in Challenges
             PROVE  challenge'[h].attempts + Cardinality(Trying(h)')
                      <= MaxAttempts - 1 + Cardinality(Calls)
  BY DEF GuessInv
<1>1. Trying(h)' \subseteq Trying(h)
  BY DEF Trying, NoTry
<1>2. IsFiniteSet(Trying(h))
  BY Sizes
<1>3. /\ Cardinality(Trying(h)') \in Nat /\ Cardinality(Trying(h)) \in Nat
      /\ Cardinality(Trying(h)') <= Cardinality(Trying(h))
  BY <1>1, <1>2, Fewer
<1>4. challenge'[h].attempts = challenge[h].attempts /\ challenge[h].attempts \in Nat
  BY DEF NoMiss, OtpInv, TypeInv, RowsOK, RowType
<1>5. challenge[h].attempts + Cardinality(Trying(h)) <= MaxAttempts - 1 + Cardinality(Calls)
  BY DEF OtpInv, GuessInv
<1> QED
  BY <1>3, <1>4, <1>5, OtpAssumption, Sizes

LEMMA LiveKept == ASSUME OtpInv, NoCreate, NoLive PROVE LiveInv'
<1>1. LiveCodes' \subseteq LiveCodes
  BY DEF LiveCodes, NoLive
<1>2. Creating' \subseteq Creating
  BY DEF Creating, NoCreate
<1>3. Cardinality(LiveCodes') \in Nat /\ Cardinality(LiveCodes') <= Cardinality(LiveCodes)
  BY <1>1, Sizes, Fewer
<1>4. Cardinality(Creating') \in Nat /\ Cardinality(Creating') <= Cardinality(Creating)
  BY <1>2, Sizes, Fewer
<1>5. Cardinality(LiveCodes) + Cardinality(Creating) <= Cardinality(Calls)
  BY DEF OtpInv, LiveInv
<1>6. Cardinality(LiveCodes)' + Cardinality(Creating)' <= Cardinality(Calls)
  BY <1>3, <1>4, <1>5, Sizes
<1> QED
  BY <1>6 DEF LiveInv

LEMMA CalmStep == ASSUME OtpInv, TypeInv', Calm PROVE OtpInv'
<1>1. GuessInv'
  BY GuessKept DEF Calm
<1>2. LiveInv'
  BY LiveKept DEF Calm
<1> QED
  BY <1>1, <1>2 DEF OtpInv

(* A request that neither tries a code nor is about to send one.           *)
LEMMA CalmCall ==
  ASSUME NEW c \in Calls, call'[c].pc \notin {"compare", "miss", "create"},
         \A d \in Calls \ {c} : call'[d] = call[d]
  PROVE  NoTry /\ NoCreate
BY DEF NoTry, NoCreate, Tries

LEMMA CalmEnd ==
  ASSUME CallsOK, NEW c \in Calls, End(c)
  PROVE  CallsOK' /\ NoTry /\ NoCreate
<1>1. CallsOK' /\ call'[c] = IdleCall /\ \A d \in Calls \ {c} : call'[d] = call[d]
  BY EndMoves
<1> QED
  BY <1>1, IdleFacts, CalmCall

LEMMA CalmGoto ==
  ASSUME CallsOK, NEW c \in Calls, NEW p \in Steps, Goto(c, p),
         p \notin {"compare", "miss", "create"},
         p \notin {"burn", "consume", "user", "grant"} \/ call[c].found \in Challenges
  PROVE  CallsOK' /\ NoTry /\ NoCreate
<1>1. CallsOK' /\ call'[c].pc = p /\ \A d \in Calls \ {c} : call'[d] = call[d]
  BY GotoMoves
<1> QED
  BY <1>1, CalmCall

(* A challenge in hand is one of the challenges.                           *)
LEMMA InHand ==
  ASSUME CallsOK, NEW c \in Calls,
         call[c].pc \in {"burn", "compare", "miss", "consume", "user", "grant"}
  PROVE  call[c].found \in Challenges
BY DEF CallsOK, CallKnows

-----------------------------------------------------------------------------
(* The steps that leave the rows alone.                                    *)

LEMMA RowsStay ==
  ASSUME TypeInv, UNCHANGED challenge
  PROVE  RowsOK' /\ NoMiss /\ NoLive
BY DEF TypeInv, RowsOK, NoMiss, NoLive

LEMMA CountersStay ==
  ASSUME TypeInv, UNCHANGED <<rate, ttl, account, ticket, grants>>
  PROVE  CountersOK'
BY DEF TypeInv, CountersOK

LEMMA RequestSteps ==
  ASSUME OtpInv, NEW c \in Calls, StartRequest(c) \/ RateIncr(c) \/ RateExpire(c)
  PROVE  OtpInv'
<1> USE OtpAssumption
<1>0. TypeInv /\ CallsOK /\ CountersOK
  BY DEF OtpInv, TypeInv
<1>1. UNCHANGED challenge
  BY DEF StartRequest, RateIncr, RateExpire
<1>2. RowsOK' /\ NoMiss /\ NoLive
  BY <1>0, <1>1, RowsStay
<1>3. CallsOK' /\ NoTry /\ NoCreate
  <2>1. CASE StartRequest(c)
    BY <2>1, <1>0, CalmGoto DEF StartRequest, Steps
  <2>2. CASE RateIncr(c)
    <3>1. Goto(c, "expire") \/ Goto(c, "invalidate") \/ End(c)
      BY <2>2 DEF RateIncr
    <3>2. CASE Goto(c, "expire")
      BY <3>2, <1>0, CalmGoto DEF Steps
    <3>3. CASE Goto(c, "invalidate")
      BY <3>3, <1>0, CalmGoto DEF Steps
    <3>4. CASE End(c)
      BY <3>4, <1>0, CalmEnd
    <3> QED
      BY <3>1, <3>2, <3>3, <3>4
  <2>3. CASE RateExpire(c)
    BY <2>3, <1>0, CalmGoto DEF RateExpire, Steps
  <2> QED
    BY <2>1, <2>2, <2>3
<1>4. CountersOK'
  <2>1. CASE StartRequest(c)
    BY <2>1, <1>0, CountersStay DEF StartRequest
  <2>2. CASE RateIncr(c)
    <3>1. rate' = (IF rate > MaxPerHour THEN rate ELSE rate + 1)
          /\ UNCHANGED <<ttl, account, ticket, grants>>
      BY <2>2 DEF RateIncr
    <3>2. rate' \in 0..(MaxPerHour + 1)
      BY <3>1, <1>0 DEF CountersOK
    <3> QED
      BY <3>1, <3>2, <1>0 DEF CountersOK
  <2>3. CASE RateExpire(c)
    <3>1. ttl' = (rate > 0) /\ UNCHANGED <<rate, account, ticket, grants>>
      BY <2>3 DEF RateExpire
    <3>2. ttl' \in BOOLEAN
      BY <3>1
    <3> QED
      BY <3>1, <3>2, <1>0 DEF CountersOK
  <2> QED
    BY <2>1, <2>2, <2>3
<1> QED
  BY <1>0, <1>2, <1>3, <1>4, CalmStep DEF TypeInv, Calm

LEMMA RegisterSteps ==
  ASSUME OtpInv, NEW c \in Calls,
         StartRegister(c) \/ FindExisting(c) \/ CreateUser(c) \/ Crash(c)
  PROVE  OtpInv'
<1>0. TypeInv /\ CallsOK /\ CountersOK
  BY DEF OtpInv, TypeInv
<1>1. UNCHANGED challenge
  BY DEF StartRegister, FindExisting, CreateUser, Crash
<1>2. RowsOK' /\ NoMiss /\ NoLive
  BY <1>0, <1>1, RowsStay
<1>3. CallsOK' /\ NoTry /\ NoCreate
  <2>1. CASE StartRegister(c)
    BY <2>1, <1>0, CalmGoto DEF StartRegister, Steps
  <2>2. CASE FindExisting(c)
    <3>1. End(c) \/ Goto(c, "signup")
      BY <2>2 DEF FindExisting
    <3>2. CASE Goto(c, "signup")
      BY <3>2, <1>0, CalmGoto DEF Steps
    <3>3. CASE End(c)
      BY <3>3, <1>0, CalmEnd
    <3> QED
      BY <3>1, <3>2, <3>3
  <2>3. CASE CreateUser(c)
    <3>1. End(c) \/ (call[c].try < MaxTries /\ call' = [call EXCEPT ![c].try = @ + 1])
      BY <2>3 DEF CreateUser, Retries
    <3>2. CASE End(c)
      BY <3>2, <1>0, CalmEnd
    <3>3. CASE call[c].try < MaxTries /\ call' = [call EXCEPT ![c].try = @ + 1]
      <4> DEFINE n == call[c].try + 1
                 x == [call[c] EXCEPT !.try = n]
      <4>1. call[c] \in CallType /\ call[c].pc = "signup"
        BY <2>3, <1>0 DEF CallsOK, CreateUser, At
      <4>2. n \in 1..MaxTries
        BY <4>1, <3>3, OtpAssumption DEF CallType
      <4>3. call' = [call EXCEPT ![c] = x]
        BY <3>3
      <4> HIDE DEF n
      <4>4. x \in CallType /\ x.pc = "signup"
        BY <4>1, <4>2 DEF CallType
      <4>5. CallKnows(x)
        BY <4>4 DEF CallKnows
      <4> HIDE DEF x
      <4>6. CallsOK' /\ call'[c] = x /\ \A d \in Calls \ {c} : call'[d] = call[d]
        BY <4>3, <4>4, <4>5, <1>0, CallMoves
      <4> QED
        BY <4>4, <4>6, CalmCall
    <3> QED
      BY <3>1, <3>2, <3>3
  <2>4. CASE Crash(c)
    BY <2>4, <1>0, CalmEnd DEF Crash
  <2> QED
    BY <2>1, <2>2, <2>3, <2>4
<1>4. CountersOK'
  <2>1. CASE StartRegister(c) \/ FindExisting(c) \/ Crash(c)
    BY <2>1, <1>0, CountersStay DEF StartRegister, FindExisting, Crash
  <2>2. CASE CreateUser(c)
    <3>1. /\ account' = account \/ (~PhoneTaken /\ account' = account + 1)
          /\ UNCHANGED <<rate, ttl, ticket, grants>>
      BY <2>2 DEF CreateUser
    <3>2. account' \in 0..1
      BY <3>1, <1>0 DEF CountersOK, PhoneTaken
    <3> QED
      BY <3>1, <3>2, <1>0 DEF CountersOK
  <2> QED
    BY <2>1, <2>2
<1> QED
  BY <1>0, <1>2, <1>3, <1>4, CalmStep DEF TypeInv, Calm

LEMMA VerifySteps ==
  ASSUME OtpInv, NEW c \in Calls,
         \/ \E code \in Challenges \cup {NoChallenge} : StartVerify(c, code)
         \/ Compare(c) \/ FindUser(c) \/ Grant(c)
  PROVE  OtpInv'
<1>0. TypeInv /\ CallsOK /\ CountersOK
  BY DEF OtpInv, TypeInv
<1>1. UNCHANGED challenge
  BY DEF StartVerify, Compare, FindUser, Grant
<1>2. RowsOK' /\ NoMiss /\ NoLive
  BY <1>0, <1>1, RowsStay
<1>3. CallsOK' /\ NoTry /\ NoCreate
  <2>0. call[c] \in CallType
    BY <1>0 DEF CallsOK
  <2>1. CASE \E code \in Challenges \cup {NoChallenge} : StartVerify(c, code)
    <3>1. PICK code \in Challenges \cup {NoChallenge} : StartVerify(c, code)
      BY <2>1
    <3> DEFINE x == [call[c] EXCEPT !.pc = "find", !.code = code]
    <3>2. call' = [call EXCEPT ![c] = x]
      BY <3>1 DEF StartVerify
    <3>3. x \in CallType /\ x.pc = "find"
      BY <2>0 DEF CallType, Steps
    <3>4. CallKnows(x)
      BY <3>3 DEF CallKnows
    <3> HIDE DEF x
    <3>5. CallsOK' /\ call'[c] = x /\ \A d \in Calls \ {c} : call'[d] = call[d]
      BY <3>2, <3>3, <3>4, <1>0, CallMoves
    <3> QED
      BY <3>3, <3>5, CalmCall
  <2>2. CASE Compare(c)
    <3>1. PICK p \in {"consume", "miss"} :
            call' = [call EXCEPT ![c] = [IdleCall EXCEPT !.pc = p, !.found = call[c].found]]
      BY <2>2 DEF Compare
    <3>2. call[c].pc = "compare" /\ call[c].found \in Challenges
      BY <2>2, <1>0, InHand DEF Compare, At
    <3> DEFINE h == call[c].found
               x == [IdleCall EXCEPT !.pc = p, !.found = h]
    <3>3. call' = [call EXCEPT ![c] = x]
      BY <3>1
    <3>4. h \in Challenges /\ h = call[c].found
      BY <3>2
    <3> HIDE DEF h
    <3>5. x \in CallType /\ x.pc = p /\ x.found = h
      BY <3>4, IdleFacts DEF CallType, Steps
    <3>6. CallKnows(x)
      BY <3>4, <3>5 DEF CallKnows
    <3> HIDE DEF x
    <3>7. CallsOK' /\ call'[c] = x /\ \A d \in Calls \ {c} : call'[d] = call[d]
      BY <3>3, <3>5, <3>6, <1>0, CallMoves
    <3>8. NoTry
      BY <3>2, <3>4, <3>5, <3>7 DEF NoTry, Tries
    <3>9. NoCreate
      BY <3>5, <3>7 DEF NoCreate
    <3> QED
      BY <3>7, <3>8, <3>9
  <2>3. CASE FindUser(c)
    <3>1. call[c].found \in Challenges
      BY <2>3, <1>0, InHand DEF FindUser, At
    <3>2. Goto(c, "grant") \/ End(c)
      BY <2>3 DEF FindUser
    <3>3. CASE Goto(c, "grant")
      BY <3>1, <3>3, <1>0, CalmGoto DEF Steps
    <3>4. CASE End(c)
      BY <3>4, <1>0, CalmEnd
    <3> QED
      BY <3>2, <3>3, <3>4
  <2>4. CASE Grant(c)
    BY <2>4, <1>0, CalmEnd DEF Grant
  <2> QED
    BY <2>1, <2>2, <2>3, <2>4
<1>4. CountersOK'
  <2>1. CASE (\E code \in Challenges \cup {NoChallenge} : StartVerify(c, code)) \/ Compare(c)
    BY <2>1, <1>0, CountersStay DEF StartVerify, Compare
  <2>2. ASSUME NEW h \in Challenges,
               grants' = [grants EXCEPT ![h] = @ + 1],
               UNCHANGED <<rate, ttl, account>>, ticket' \in BOOLEAN
        PROVE  CountersOK'
    <3>1. grants[h] + 1 \in Nat
      BY <1>0 DEF CountersOK
    <3>2. grants' \in [Challenges -> Nat]
      BY <2>2, <3>1, <1>0 DEF CountersOK
    <3> QED
      BY <2>2, <3>2, <1>0 DEF CountersOK
  <2>3. CASE FindUser(c)
    <3>1. call[c].found \in Challenges
      BY <2>3, <1>0, InHand DEF FindUser, At
    <3>2. CASE UNCHANGED <<ticket, grants>>
      BY <2>3, <3>2, <1>0, CountersStay DEF FindUser
    <3>3. CASE ticket' = TRUE
               /\ grants' = [grants EXCEPT ![call[c].found] = @ + 1]
      BY <2>2, <2>3, <3>1, <3>3 DEF FindUser
    <3> QED
      BY <2>3, <3>2, <3>3 DEF FindUser
  <2>4. CASE Grant(c)
    <3>1. call[c].found \in Challenges
      BY <2>4, <1>0, InHand DEF Grant, At
    <3>2. ticket' \in BOOLEAN
      BY <2>4, <1>0 DEF Grant, CountersOK
    <3> QED
      BY <2>2, <2>4, <3>1, <3>2 DEF Grant
  <2> QED
    BY <2>1, <2>3, <2>4
<1> QED
  BY <1>0, <1>2, <1>3, <1>4, CalmStep DEF TypeInv, Calm

LEMMA ClockSteps ==
  ASSUME OtpInv, WindowEnds \/ TicketExpires \/ UNCHANGED vars
  PROVE  OtpInv'
<1>0. TypeInv /\ CallsOK /\ CountersOK
  BY DEF OtpInv, TypeInv
<1>1. UNCHANGED <<challenge, call>>
  BY DEF WindowEnds, TicketExpires, vars
<1>2. RowsOK' /\ NoMiss /\ NoLive
  BY <1>0, <1>1, RowsStay
<1>3. CallsOK' /\ NoTry /\ NoCreate
  BY <1>0, <1>1 DEF CallsOK, NoTry, NoCreate
<1>4. CountersOK'
  <2>1. CASE WindowEnds
    <3>1. rate' \in 0..(MaxPerHour + 1)
      BY <2>1, OtpAssumption DEF WindowEnds
    <3> QED
      BY <2>1, <3>1, <1>0 DEF WindowEnds, CountersOK
  <2>2. CASE TicketExpires
    BY <2>2, <1>0 DEF TicketExpires, CountersOK
  <2>3. CASE UNCHANGED vars
    BY <2>3, <1>0, CountersStay DEF vars
  <2> QED
    BY <2>1, <2>2, <2>3
<1> QED
  BY <1>0, <1>2, <1>3, <1>4, CalmStep DEF TypeInv, Calm

-----------------------------------------------------------------------------
(* The steps that close codes.                                             *)

(* Which state a row gets is all that these steps decide.                  *)
Closes == \A h \in Challenges :
  \/ challenge'[h] = challenge[h]
  \/ \E s \in {"CONSUMED", "EXPIRED"} : challenge'[h] = [challenge[h] EXCEPT !.state = s]

LEMMA ClosingIsCalm ==
  ASSUME RowsOK, Closes, challenge' = [h \in Challenges |-> challenge'[h]]
  PROVE  RowsOK' /\ NoMiss /\ NoLive
<1>1. ASSUME NEW h \in Challenges
      PROVE  /\ challenge'[h] \in RowType
             /\ challenge'[h].attempts = challenge[h].attempts
             /\ challenge'[h].state = "LIVE" => challenge[h].state = "LIVE"
  <2>1. challenge[h] \in RowType
    BY DEF RowsOK
  <2>2. CASE challenge'[h] = challenge[h]
    BY <2>1, <2>2
  <2>3. ASSUME NEW s \in {"CONSUMED", "EXPIRED"},
               challenge'[h] = [challenge[h] EXCEPT !.state = s]
        PROVE  /\ challenge'[h] \in RowType
               /\ challenge'[h].attempts = challenge[h].attempts
               /\ challenge'[h].state # "LIVE"
    BY <2>1, <2>3 DEF RowType
  <2> QED
    BY <2>2, <2>3 DEF Closes
<1> QED
  BY <1>1 DEF RowsOK, NoMiss, NoLive

(* An update of one row, by id.                                            *)
LEMMA OneCloses ==
  ASSUME RowsOK, NEW h \in Challenges, NEW s \in {"CONSUMED", "EXPIRED"},
         challenge' = [challenge EXCEPT ![h].state = s]
  PROVE  RowsOK' /\ NoMiss /\ NoLive
<1>1. Closes /\ challenge' = [g \in Challenges |-> challenge'[g]]
  BY DEF RowsOK, Closes
<1> QED
  BY <1>1, ClosingIsCalm

LEMMA ConsumeCloses ==
  ASSUME RowsOK, NEW h \in Challenges, Consume(h)
  PROVE  RowsOK' /\ NoMiss /\ NoLive
<1> DEFINE s == IF challenge[h].state = "EXPIRED" THEN "EXPIRED" ELSE "CONSUMED"
<1>1. challenge' = [challenge EXCEPT ![h].state = s]
  BY DEF Consume
<1>2. s \in {"CONSUMED", "EXPIRED"}
  OBVIOUS
<1> HIDE DEF s
<1> QED
  BY <1>1, <1>2, OneCloses

LEMMA ClosingSteps ==
  ASSUME OtpInv,
         \/ \E c \in Calls : Burn(c) \/ ConsumeCode(c)
         \/ \E h \in Challenges : CodeExpires(h)
  PROVE  OtpInv'
<1>0. TypeInv /\ CallsOK /\ CountersOK /\ RowsOK
  BY DEF OtpInv, TypeInv
<1>1. UNCHANGED <<rate, ttl, account, ticket, grants>>
  BY DEF Burn, ConsumeCode, CodeExpires
<1>2. CountersOK'
  BY <1>0, <1>1, CountersStay
<1>3. ASSUME NEW c \in Calls, Burn(c) PROVE OtpInv'
  <2>1. call[c].found \in Challenges
    BY <1>0, <1>3, InHand DEF Burn, At
  <2>2. RowsOK' /\ NoMiss /\ NoLive
    BY <1>0, <1>3, <2>1, ConsumeCloses DEF Burn
  <2>3. CallsOK' /\ NoTry /\ NoCreate
    BY <1>0, <1>3, CalmEnd DEF Burn
  <2> QED
    BY <1>2, <2>2, <2>3, CalmStep DEF TypeInv, Calm
<1>4. ASSUME NEW c \in Calls, ConsumeCode(c) PROVE OtpInv'
  <2>1. call[c].found \in Challenges
    BY <1>0, <1>4, InHand DEF ConsumeCode, At
  <2>2. RowsOK' /\ NoMiss /\ NoLive
    BY <1>0, <1>4, <2>1, ConsumeCloses DEF ConsumeCode
  <2>3. CallsOK' /\ NoTry /\ NoCreate
    BY <1>0, <1>4, <2>1, CalmGoto DEF ConsumeCode, Steps
  <2> QED
    BY <1>2, <2>2, <2>3, CalmStep DEF TypeInv, Calm
<1>5. ASSUME NEW h \in Challenges, CodeExpires(h) PROVE OtpInv'
  <2>1. RowsOK' /\ NoMiss /\ NoLive
    BY <1>0, <1>5, OneCloses DEF CodeExpires
  <2>2. CallsOK' /\ NoTry /\ NoCreate
    BY <1>0, <1>5 DEF CodeExpires, CallsOK, NoTry, NoCreate
  <2> QED
    BY <1>2, <2>1, <2>2, CalmStep DEF TypeInv, Calm
<1> QED
  BY <1>3, <1>4, <1>5

(* Every live code is closed: whatever number of requests come here, there *)
(* is a place for the code of each.                                        *)
LEMMA InvalidateStep ==
  ASSUME OtpInv, NEW c \in Calls, InvalidateEarlier(c)
  PROVE  OtpInv'
<1>0. TypeInv /\ CallsOK /\ CountersOK /\ RowsOK
  BY DEF OtpInv, TypeInv
<1>1. Closes /\ challenge' = [h \in Challenges |-> challenge'[h]]
  BY DEF InvalidateEarlier, Closes
<1>2. RowsOK' /\ NoMiss
  BY <1>0, <1>1, ClosingIsCalm
<1>3. /\ CallsOK' /\ call'[c].pc = "create"
      /\ \A d \in Calls \ {c} : call'[d] = call[d]
  BY <1>0, GotoMoves DEF InvalidateEarlier, Steps
<1>4. NoTry
  BY <1>3 DEF NoTry, Tries
<1>5. CountersOK'
  BY <1>0, CountersStay DEF InvalidateEarlier
<1>6. TypeInv'
  BY <1>2, <1>3, <1>5 DEF TypeInv
<1>7. GuessInv'
  BY <1>2, <1>4, <1>6, GuessKept
<1>8. LiveCodes' = {}
  <2>1. ASSUME NEW h \in Challenges, challenge'[h].state = "LIVE" PROVE FALSE
    <3>1. challenge[h] \in RowType
      BY <1>0 DEF RowsOK
    <3>2. CASE challenge[h].state = "LIVE"
      BY <2>1, <3>1, <3>2 DEF InvalidateEarlier, LiveCodes, RowType
    <3>3. CASE challenge[h].state # "LIVE"
      BY <2>1, <3>3 DEF InvalidateEarlier, LiveCodes
    <3> QED
      BY <3>2, <3>3
  <2> QED
    BY <2>1 DEF LiveCodes
<1>9. Cardinality(Creating)' \in Nat /\ Cardinality(Creating)' <= Cardinality(Calls)
  <2>1. Creating' \subseteq Calls
    BY DEF Creating
  <2> QED
    BY <2>1, OtpAssumption, Fewer
<1>10. Cardinality(LiveCodes)' = 0
  BY <1>8, FS_EmptySet
<1>11. LiveInv'
  BY <1>9, <1>10, Sizes DEF LiveInv
<1> QED
  BY <1>6, <1>7, <1>11 DEF OtpInv

-----------------------------------------------------------------------------
(* The steps that the bounds are about.                                    *)

(* The new code takes the place that its request held.                     *)
LEMMA CreateStep ==
  ASSUME OtpInv, NEW c \in Calls, CreateChallenge(c)
  PROVE  OtpInv'
<1>0. TypeInv /\ CallsOK /\ CountersOK /\ RowsOK
  BY DEF OtpInv, TypeInv
<1>1. PICK h \in Challenges \ Born :
        challenge' = [challenge EXCEPT ![h] = [state |-> "LIVE", attempts |-> 0,
                                               born |-> Cardinality(Born) + 1]]
  BY DEF CreateChallenge
<1> DEFINE n == Cardinality(Born) + 1
           row == [state |-> "LIVE", attempts |-> 0, born |-> n]
<1>2. n \in 0..Cardinality(Challenges)
  <2>1. Born \subseteq Challenges \ {h}
    BY <1>1 DEF Born
  <2>2. Cardinality(Born) \in Nat /\ Cardinality(Born) + 1 <= Cardinality(Challenges)
    BY <1>1, <2>1, OtpAssumption, OneFewer
  <2> QED
    BY <2>2, Sizes
<1>3. challenge' = [challenge EXCEPT ![h] = row]
  BY <1>1
<1> HIDE DEF n
<1>4. row \in RowType /\ row.attempts = 0
  BY <1>2 DEF RowType
<1> HIDE DEF row
<1>5. /\ RowsOK' /\ challenge'[h].attempts = 0
      /\ \A g \in Challenges \ {h} : challenge'[g] = challenge[g]
  BY <1>0, <1>1, <1>3, <1>4 DEF RowsOK
<1>6. CallsOK' /\ NoTry /\ NoCreate /\ call'[c] = IdleCall
  BY <1>0, CalmEnd, EndMoves DEF CreateChallenge
<1>7. CountersOK'
  BY <1>0, CountersStay DEF CreateChallenge
<1>8. GuessInv'
  <2> SUFFICES ASSUME NEW g \in Challenges
               PROVE  challenge'[g].attempts + Cardinality(Trying(g)')
                        <= MaxAttempts - 1 + Cardinality(Calls)
    BY DEF GuessInv
  <2>1. Trying(g)' \subseteq Trying(g)
    BY <1>6 DEF Trying, NoTry
  <2>2. Cardinality(Trying(g)') \in Nat /\ Cardinality(Trying(g)) \in Nat
        /\ Cardinality(Trying(g)') <= Cardinality(Trying(g))
    BY <2>1, Sizes, Fewer
  <2>3. challenge'[g].attempts = 0 \/ challenge'[g].attempts = challenge[g].attempts
    BY <1>5
  <2>4. /\ challenge[g].attempts \in Nat
        /\ challenge[g].attempts + Cardinality(Trying(g)) <= MaxAttempts - 1 + Cardinality(Calls)
    BY <1>0 DEF OtpInv, GuessInv, RowsOK, RowType
  <2> QED
    BY <2>2, <2>3, <2>4, OtpAssumption, Sizes
<1>9. LiveInv'
  <2>1. LiveCodes' \subseteq LiveCodes \cup {h}
    BY <1>5 DEF LiveCodes
  <2>2. /\ Cardinality(LiveCodes') \in Nat /\ Cardinality(LiveCodes) \in Nat
        /\ Cardinality(LiveCodes') <= Cardinality(LiveCodes) + 1
    BY <2>1, Sizes, OneMore
  <2>3. c \in Creating
    BY DEF Creating, CreateChallenge, At
  <2>4. Creating' \subseteq Creating \ {c}
    BY <1>6, IdleFacts DEF Creating, NoCreate
  <2>5. /\ Cardinality(Creating') \in Nat /\ Cardinality(Creating) \in Nat
        /\ Cardinality(Creating') + 1 <= Cardinality(Creating)
    BY <2>3, <2>4, Sizes, OneFewer
  <2>6. Cardinality(LiveCodes) + Cardinality(Creating) <= Cardinality(Calls)
    BY DEF OtpInv, LiveInv
  <2>7. Cardinality(LiveCodes)' + Cardinality(Creating)' <= Cardinality(Calls)
    BY <2>2, <2>5, <2>6, Sizes
  <2> QED
    BY <2>7 DEF LiveInv
<1> QED
  BY <1>5, <1>6, <1>7, <1>8, <1>9 DEF OtpInv, TypeInv

(* A request passes the cap only below it: then the others in flight, all  *)
(* of which may be past it too, are what the bound allows for.             *)
LEMMA FindStep ==
  ASSUME OtpInv, NEW c \in Calls, FindChallenge(c)
  PROVE  OtpInv'
<1>0. TypeInv /\ CallsOK /\ CountersOK /\ RowsOK
  BY DEF OtpInv, TypeInv
<1>1. UNCHANGED challenge /\ RowsOK' /\ NoMiss /\ NoLive
  BY <1>0, RowsStay DEF FindChallenge
<1>2. CountersOK'
  BY <1>0, CountersStay DEF FindChallenge
<1>3. CASE End(c)
  <2>1. CallsOK' /\ NoTry /\ NoCreate
    BY <1>0, <1>3, CalmEnd
  <2> QED
    BY <1>1, <1>2, <2>1, CalmStep DEF TypeInv, Calm
<1>4. ASSUME NEW h \in Challenges,
             call' = [call EXCEPT ![c] = [IdleCall EXCEPT !.pc = "burn", !.found = h]]
      PROVE  OtpInv'
  <2> DEFINE x == [IdleCall EXCEPT !.pc = "burn", !.found = h]
  <2>1. x \in CallType /\ x.pc = "burn" /\ x.found = h
    BY IdleFacts DEF CallType, Steps
  <2>2. CallKnows(x)
    BY <2>1 DEF CallKnows
  <2>3. call' = [call EXCEPT ![c] = x]
    BY <1>4
  <2> HIDE DEF x
  <2>4. CallsOK' /\ call'[c] = x /\ \A d \in Calls \ {c} : call'[d] = call[d]
    BY <1>0, <2>1, <2>2, <2>3, CallMoves
  <2>5. NoTry /\ NoCreate
    BY <2>1, <2>4, CalmCall
  <2> QED
    BY <1>1, <1>2, <2>4, <2>5, CalmStep DEF TypeInv, Calm
<1>5. ASSUME NEW h \in Challenges, ~Exhausted(h),
             call' = [call EXCEPT ![c].pc = "compare", ![c].found = h]
      PROVE  OtpInv'
  <2> DEFINE x == [call[c] EXCEPT !.pc = "compare", !.found = h]
  <2>0. call[c] \in CallType
    BY <1>0 DEF CallsOK
  <2>1. x \in CallType /\ x.pc = "compare" /\ x.found = h
    BY <2>0 DEF CallType, Steps
  <2>2. CallKnows(x)
    BY <2>1 DEF CallKnows
  <2>3. call' = [call EXCEPT ![c] = x]
    BY <1>5
  <2> HIDE DEF x
  <2>4. CallsOK' /\ call'[c] = x /\ \A d \in Calls \ {c} : call'[d] = call[d]
    BY <1>0, <2>1, <2>2, <2>3, CallMoves
  <2>5. NoCreate
    BY <2>1, <2>4 DEF NoCreate
  <2>6. TypeInv'
    BY <1>1, <1>2, <2>4 DEF TypeInv
  <2>7. GuessInv'
    <3> SUFFICES ASSUME NEW g \in Challenges
                 PROVE  challenge[g].attempts + Cardinality(Trying(g)')
                          <= MaxAttempts - 1 + Cardinality(Calls)
      BY <1>1 DEF GuessInv
    <3>1. /\ challenge[g].attempts \in Nat
          /\ challenge[g].attempts + Cardinality(Trying(g))
               <= MaxAttempts - 1 + Cardinality(Calls)
      BY <1>0 DEF OtpInv, GuessInv, RowsOK, RowType
    <3>2. CASE g = h
      <4>1. Trying(g)' \subseteq Calls
        BY DEF Trying
      <4>2. Cardinality(Trying(g)') \in Nat /\ Cardinality(Trying(g)') <= Cardinality(Calls)
        BY <4>1, OtpAssumption, Fewer
      <4>3. challenge[g].attempts <= MaxAttempts - 1
        BY <1>5, <3>1, <3>2, OtpAssumption DEF Exhausted
      <4> QED
        BY <3>1, <4>2, <4>3, OtpAssumption, Sizes
    <3>3. CASE g # h
      <4>1. Trying(g)' \subseteq Trying(g)
        BY <2>1, <2>4, <3>3 DEF Trying, Tries
      <4>2. Cardinality(Trying(g)') \in Nat /\ Cardinality(Trying(g)) \in Nat
            /\ Cardinality(Trying(g)') <= Cardinality(Trying(g))
        BY <4>1, Sizes, Fewer
      <4> QED
        BY <3>1, <4>2, OtpAssumption, Sizes
    <3> QED
      BY <3>2, <3>3
  <2>8. LiveInv'
    BY <1>1, <2>5, LiveKept
  <2> QED
    BY <2>6, <2>7, <2>8 DEF OtpInv
<1> QED
  BY <1>3, <1>4, <1>5 DEF FindChallenge, Newest, LiveCodes

(* A miss that is counted leaves the place it held.                        *)
LEMMA MissStep ==
  ASSUME OtpInv, NEW c \in Calls, CountMiss(c)
  PROVE  OtpInv'
<1>0. TypeInv /\ CallsOK /\ CountersOK /\ RowsOK
  BY DEF OtpInv, TypeInv
<1>1. PICK h \in Challenges : h = call[c].found
  BY <1>0, InHand DEF CountMiss, At
<1> DEFINE n == challenge[h].attempts + 1
           row == [challenge[h] EXCEPT !.attempts = n]
<1>2. challenge[h] \in RowType /\ n \in Nat /\ n = challenge[h].attempts + 1
  BY <1>0 DEF RowsOK, RowType
<1>3. challenge' = [challenge EXCEPT ![h] = row]
  BY <1>1 DEF CountMiss
<1> HIDE DEF n
<1>4. row \in RowType /\ row.attempts = n /\ row.state = challenge[h].state
  BY <1>2 DEF RowType
<1> HIDE DEF row
<1>5. /\ RowsOK' /\ challenge'[h] = row
      /\ \A g \in Challenges \ {h} : challenge'[g] = challenge[g]
  BY <1>0, <1>3, <1>4 DEF RowsOK
<1>6. NoLive
  BY <1>4, <1>5 DEF NoLive
<1>7. CallsOK' /\ NoTry /\ NoCreate /\ call'[c] = IdleCall
  BY <1>0, CalmEnd, EndMoves DEF CountMiss
<1>8. CountersOK'
  BY <1>0, CountersStay DEF CountMiss
<1>9. GuessInv'
  <2> SUFFICES ASSUME NEW g \in Challenges
               PROVE  challenge'[g].attempts + Cardinality(Trying(g)')
                        <= MaxAttempts - 1 + Cardinality(Calls)
    BY DEF GuessInv
  <2>1. /\ challenge[g].attempts \in Nat
        /\ challenge[g].attempts + Cardinality(Trying(g))
             <= MaxAttempts - 1 + Cardinality(Calls)
    BY <1>0 DEF OtpInv, GuessInv, RowsOK, RowType
  <2>2. Trying(g)' \subseteq Trying(g)
    BY <1>7 DEF Trying, NoTry
  <2>3. CASE g = h
    <3>1. c \in Trying(g)
      BY <1>1, <2>3 DEF Trying, Tries, CountMiss, At
    <3>2. Trying(g)' \subseteq Trying(g) \ {c}
      BY <2>2, <1>7, IdleFacts DEF Trying, Tries
    <3>3. /\ Cardinality(Trying(g)') \in Nat /\ Cardinality(Trying(g)) \in Nat
          /\ Cardinality(Trying(g)') + 1 <= Cardinality(Trying(g))
      BY <3>1, <3>2, Sizes, OneFewer
    <3>4. challenge'[g].attempts = challenge[g].attempts + 1
      BY <1>2, <1>4, <1>5, <2>3
    <3> QED
      BY <2>1, <3>3, <3>4, OtpAssumption, Sizes
  <2>4. CASE g # h
    <3>1. Cardinality(Trying(g)') \in Nat /\ Cardinality(Trying(g)) \in Nat
          /\ Cardinality(Trying(g)') <= Cardinality(Trying(g))
      BY <2>2, Sizes, Fewer
    <3>2. challenge'[g].attempts = challenge[g].attempts
      BY <1>5, <2>4
    <3> QED
      BY <2>1, <3>1, <3>2, OtpAssumption, Sizes
  <2> QED
    BY <2>3, <2>4
<1>10. LiveInv'
  BY <1>6, <1>7, LiveKept
<1> QED
  BY <1>5, <1>7, <1>8, <1>9, <1>10 DEF OtpInv, TypeInv

-----------------------------------------------------------------------------
LEMMA OtpInit == Init => OtpInv
<1> SUFFICES ASSUME Init PROVE OtpInv
  OBVIOUS
<1>1. RowsOK
  BY Sizes DEF Init, RowsOK, RowType
<1>2. CountersOK
  <2>1. ttl \in BOOLEAN /\ ticket \in BOOLEAN
    BY DEF Init
  <2>2. rate \in 0..(MaxPerHour + 1) /\ account \in 0..1
    BY OtpAssumption DEF Init
  <2>3. grants \in [Challenges -> Nat]
    BY DEF Init
  <2> QED
    BY <2>1, <2>2, <2>3 DEF CountersOK
<1>3. CallsOK
  BY IdleFacts DEF Init, CallsOK
<1>4. GuessInv
  <2> SUFFICES ASSUME NEW h \in Challenges
               PROVE  challenge[h].attempts + Cardinality(Trying(h))
                        <= MaxAttempts - 1 + Cardinality(Calls)
    BY DEF GuessInv
  <2>1. challenge[h].attempts = 0
    BY DEF Init
  <2> QED
    BY <2>1, Sizes, OtpAssumption
<1>5. LiveInv
  <2>1. LiveCodes = {}
    BY DEF Init, LiveCodes
  <2>2. Cardinality(LiveCodes) = 0
    BY <2>1, FS_EmptySet
  <2> QED
    BY <2>2, Sizes DEF LiveInv
<1> QED
  BY <1>1, <1>2, <1>3, <1>4, <1>5 DEF OtpInv, TypeInv

LEMMA OtpStep == OtpInv /\ [Next]_vars => OtpInv'
<1> SUFFICES ASSUME OtpInv, [Next]_vars PROVE OtpInv'
  OBVIOUS
<1>1. ASSUME NEW c \in Calls, Continue(c) PROVE OtpInv'
  BY <1>1, RequestSteps, InvalidateStep, CreateStep, FindStep, ClosingSteps, VerifySteps,
     MissStep, RegisterSteps DEF Continue
<1>2. ASSUME NEW c \in Calls, Crash(c) \/ StartRequest(c) \/ StartRegister(c) PROVE OtpInv'
  BY <1>2, RequestSteps, RegisterSteps
<1>3. ASSUME NEW c \in Calls, \E code \in Challenges \cup {NoChallenge} : StartVerify(c, code)
      PROVE  OtpInv'
  BY <1>3, VerifySteps
<1>4. ASSUME NEW h \in Challenges, CodeExpires(h) PROVE OtpInv'
  BY <1>4, ClosingSteps
<1>5. CASE WindowEnds \/ TicketExpires \/ UNCHANGED vars
  BY <1>5, ClockSteps
<1> QED
  BY <1>1, <1>2, <1>3, <1>4, <1>5 DEF Next

LEMMA OtpInvariant == Spec => []OtpInv
BY OtpInit, OtpStep, PTL DEF Spec

LEMMA InvBoundsGuesses == OtpInv => GuessesAreBounded
<1> SUFFICES ASSUME OtpInv, NEW h \in Challenges
             PROVE  challenge[h].attempts <= MaxAttempts + Cardinality(Calls) - 1
  BY DEF GuessesAreBounded
<1>1. /\ challenge[h].attempts \in Nat
      /\ challenge[h].attempts + Cardinality(Trying(h)) <= MaxAttempts - 1 + Cardinality(Calls)
  BY DEF OtpInv, TypeInv, GuessInv, RowsOK, RowType
<1> QED
  BY <1>1, Sizes, OtpAssumption

LEMMA InvType == OtpInv => TypeOK
BY DEF TypeOK, OtpInv, TypeInv, RowsOK, RowType, CountersOK, CallsOK, CallType

-----------------------------------------------------------------------------
(* Every variable of Otp keeps its type; in particular the counter of the  *)
(* hour saturates, and a phone has one user at most.                       *)
THEOREM OtpTypeCorrect == Spec => []TypeOK
BY OtpInvariant, InvType, PTL

(* A challenge answers at most MaxAttempts wrong codes and one more for    *)
(* each other request in flight, however they are interleaved with         *)
(* the increments of verifyOtp.                                            *)
THEOREM GuessingIsCapped == Spec => []GuessesAreBounded
BY OtpInvariant, InvBoundsGuesses, PTL

LEMMA InvBoundsCodes == OtpInv => LiveCodesAreBounded
BY Sizes DEF OtpInv, LiveInv, LiveCodesAreBounded

-----------------------------------------------------------------------------
(* What is over stays over: no step finds it again, opens it or gives for  *)
(* it, but for the requests that have it in hand.                          *)

OverRow(h) == challenge[h].state \in {"CONSUMED", "EXPIRED"}

NobodyHas(h) == \A c \in Calls : call[c].found # h

LEMMA SpentConsume ==
  ASSUME RowsOK, NEW h \in Challenges, OverRow(h), NEW g \in Challenges, Consume(g)
  PROVE  OverRow(h)'
<1>1. challenge[h] \in RowType /\ challenge[g] \in RowType
  BY DEF RowsOK
<1>2. CASE g = h
  <2> DEFINE s == IF challenge[h].state = "EXPIRED" THEN challenge[h].state ELSE "CONSUMED"
  <2>1. challenge' = [challenge EXCEPT ![h].state = s] /\ s \in {"CONSUMED", "EXPIRED"}
    BY <1>2 DEF Consume
  <2> HIDE DEF s
  <2> QED
    BY <1>1, <2>1 DEF RowsOK, RowType, OverRow
<1>3. CASE g # h
  BY <1>3 DEF Consume, RowsOK, OverRow
<1> QED
  BY <1>2, <1>3

LEMMA OverStays ==
  ASSUME OtpInv, Next, NEW h \in Challenges, OverRow(h)
  PROVE  OverRow(h)'
<1>0. CallsOK /\ RowsOK
  BY DEF OtpInv, TypeInv
<1>1. ASSUME NEW c \in Calls, Burn(c) \/ ConsumeCode(c) PROVE OverRow(h)'
  <2>1. call[c].found \in Challenges /\ Consume(call[c].found)
    BY <1>0, <1>1, InHand DEF Burn, ConsumeCode, At
  <2> QED
    BY <1>0, <2>1, SpentConsume
<1>2. ASSUME NEW c \in Calls, InvalidateEarlier(c) PROVE OverRow(h)'
  BY <1>2 DEF InvalidateEarlier, LiveCodes, OverRow
<1>3. ASSUME NEW c \in Calls, CreateChallenge(c) PROVE OverRow(h)'
  <2>1. PICK g \in Challenges \ Born :
          challenge' = [challenge EXCEPT ![g] = [state |-> "LIVE", attempts |-> 0,
                                                 born |-> Cardinality(Born) + 1]]
    BY <1>3 DEF CreateChallenge
  <2>2. g # h
    BY <2>1 DEF Born, OverRow
  <2> QED
    BY <1>0, <2>1, <2>2 DEF RowsOK, OverRow
<1>4. ASSUME NEW c \in Calls, CountMiss(c) PROVE OverRow(h)'
  <2>1. PICK g : g = call[c].found
    OBVIOUS
  <2>2. PICK n : challenge' = [challenge EXCEPT ![g].attempts = n]
    BY <1>4, <2>1 DEF CountMiss
  <2>3. challenge[h] \in RowType
    BY <1>0 DEF RowsOK
  <2>4. challenge'[h].state = challenge[h].state
    BY <1>0, <2>2, <2>3 DEF RowsOK, RowType
  <2> QED
    BY <2>4 DEF OverRow
<1>5. ASSUME NEW g \in Challenges, CodeExpires(g) PROVE OverRow(h)'
  <2>1. g # h
    BY <1>5 DEF CodeExpires, OverRow
  <2> QED
    BY <1>0, <1>5, <2>1 DEF CodeExpires, RowsOK, OverRow
<1>6. CASE UNCHANGED challenge
  BY <1>6 DEF OverRow
<1>7. ASSUME NEW c \in Calls, Continue(c) PROVE OverRow(h)'
  <2>1. \/ Burn(c) \/ ConsumeCode(c) \/ InvalidateEarlier(c) \/ CreateChallenge(c)
        \/ CountMiss(c) \/ UNCHANGED challenge
    BY <1>7 DEF Continue, RateIncr, RateExpire, FindChallenge, Compare, FindUser, Grant,
                FindExisting, CreateUser
  <2> QED
    BY <1>1, <1>2, <1>3, <1>4, <1>6, <2>1
<1>8. ASSUME NEW c \in Calls, Crash(c) \/ StartRequest(c) \/ StartRegister(c)
      PROVE  OverRow(h)'
  BY <1>6, <1>8 DEF Crash, StartRequest, StartRegister
<1>9. ASSUME NEW c \in Calls, NEW code \in Challenges \cup {NoChallenge}, StartVerify(c, code)
      PROVE  OverRow(h)'
  BY <1>6, <1>9 DEF StartVerify
<1>10. CASE WindowEnds \/ TicketExpires
  BY <1>6, <1>10 DEF WindowEnds, TicketExpires
<1> QED
  BY <1>5, <1>7, <1>8, <1>9, <1>10 DEF Next

(* What a step may do to the requests, as to what they have in hand: a     *)
(* request ends, goes on with what it has, or finds a live challenge.      *)
Holds(x, h) == x.pc \in {"compare", "consume", "user", "grant"} /\ x.found = h

Granting(x, h) == x.pc \in {"user", "grant"} /\ x.found = h

Fades(x, y) ==
  /\ \A h \in Challenges : y.found = h => x.found = h
  /\ \A h \in Challenges : Holds(y, h) => Holds(x, h)
  /\ \A h \in Challenges : Granting(y, h) => Granting(x, h)

AllFade == \A d \in Calls : Fades(call[d], call'[d])

LEMMA FadeEnd ==
  ASSUME CallsOK, NEW c \in Calls, End(c)
  PROVE  AllFade /\ ~ \E h \in Challenges : Holds(call'[c], h)
<1>1. call'[c] = IdleCall /\ \A d \in Calls \ {c} : call'[d] = call[d]
  BY EndMoves
<1>2. \A h \in Challenges : IdleCall.found # h
  BY IdleFacts, OtpAssumption
<1> QED
  BY <1>1, <1>2 DEF AllFade, Fades, Holds, Granting

LEMMA FadeGoto ==
  ASSUME CallsOK, NEW c \in Calls, NEW p \in Steps, Goto(c, p),
         \/ p \notin {"compare", "consume", "user", "grant"}
         \/ p = "grant" /\ call[c].pc = "user"
  PROVE  AllFade
<1>1. call[c] \in CallType
  BY DEF CallsOK
<1>2. /\ call'[c].pc = p /\ call'[c].found = call[c].found
      /\ \A d \in Calls \ {c} : call'[d] = call[d]
  BY <1>1 DEF Goto, CallsOK, CallType
<1> QED
  BY <1>2 DEF AllFade, Fades, Holds, Granting

-----------------------------------------------------------------------------
(* The steps of a request, one by one.                                     *)

Finds(c, h) ==
  /\ challenge[h].state = "LIVE" /\ challenge' = challenge
  /\ call'[c].found = h /\ call'[c].pc \in {"burn", "compare"}
  /\ \A d \in Calls \ {c} : call'[d] = call[d]

Consumes(c) ==
  /\ Consume(call[c].found)
  /\ call[c].pc = "consume" /\ call'[c].pc = "user" /\ call'[c].found = call[c].found
  /\ \A d \in Calls \ {c} : call'[d] = call[d]

Gives(c) ==
  /\ challenge' = challenge
  /\ Granting(call[c], call[c].found) /\ End(c)
  /\ grants' = [grants EXCEPT ![call[c].found] = @ + 1]

LEMMA StepKinds ==
  ASSUME OtpInv, Next
  PROVE  \/ AllFade /\ UNCHANGED grants
         \/ \E c \in Calls : UNCHANGED grants /\ \E h \in Challenges : Finds(c, h)
         \/ \E c \in Calls : UNCHANGED grants /\ Consumes(c)
         \/ \E c \in Calls : Gives(c)
<1>0. CallsOK /\ RowsOK
  BY DEF OtpInv, TypeInv
<1>1. ASSUME NEW c \in Calls, FindChallenge(c)
      PROVE  UNCHANGED grants /\ (AllFade \/ \E h \in Challenges : Finds(c, h))
  <2>1. UNCHANGED <<challenge, grants>>
    BY <1>1 DEF FindChallenge
  <2>2. CASE End(c)
    BY <1>0, <2>1, <2>2, FadeEnd
  <2>3. ASSUME NEW h \in Newest,
               \/ call' = [call EXCEPT ![c] = [IdleCall EXCEPT !.pc = "burn", !.found = h]]
               \/ call' = [call EXCEPT ![c].pc = "compare", ![c].found = h]
        PROVE  h \in Challenges /\ Finds(c, h)
    <3>1. h \in Challenges /\ challenge[h].state = "LIVE"
      BY DEF Newest, LiveCodes
    <3>2. call[c] \in CallType
      BY <1>0 DEF CallsOK
    <3>3. PICK x \in {IdleCall, call[c]}, p \in {"burn", "compare"} :
            call' = [call EXCEPT ![c] = [x EXCEPT !.pc = p, !.found = h]]
      BY <2>3
    <3>4. x \in CallType
      BY <3>2, <3>3, IdleFacts
    <3>5. /\ call'[c].found = h /\ call'[c].pc = p
          /\ \A d \in Calls \ {c} : call'[d] = call[d]
      BY <1>0, <3>3, <3>4 DEF CallsOK, CallType
    <3> QED
      BY <2>1, <3>1, <3>5 DEF Finds
  <2> QED
    BY <1>1, <2>1, <2>2, <2>3 DEF FindChallenge
<1>2. ASSUME NEW c \in Calls, Compare(c) PROVE AllFade /\ UNCHANGED grants
  <2>1. PICK p \in {"consume", "miss"} :
          call' = [call EXCEPT ![c] = [IdleCall EXCEPT !.pc = p, !.found = call[c].found]]
    BY <1>2 DEF Compare
  <2>2. /\ call'[c].found = call[c].found /\ call'[c].pc = p
        /\ \A d \in Calls \ {c} : call'[d] = call[d]
    BY <1>0, <2>1, IdleFacts DEF CallsOK, CallType
  <2>3. UNCHANGED grants /\ call[c].pc = "compare"
    BY <1>2 DEF Compare, At
  <2> QED
    BY <2>2, <2>3 DEF AllFade, Fades, Holds, Granting
<1>3. ASSUME NEW c \in Calls, ConsumeCode(c) PROVE UNCHANGED grants /\ Consumes(c)
  <2>1. call[c].found \in Challenges /\ call[c].pc = "consume"
    BY <1>0, <1>3, InHand DEF ConsumeCode, At
  <2>2. /\ call'[c].pc = "user" /\ call'[c].found = call[c].found
        /\ \A d \in Calls \ {c} : call'[d] = call[d]
    BY <1>0, <1>3, <2>1, GotoMoves DEF ConsumeCode, Steps
  <2> QED
    BY <1>3, <2>1, <2>2 DEF Consumes, ConsumeCode
<1>4. ASSUME NEW c \in Calls, FindUser(c) PROVE (AllFade /\ UNCHANGED grants) \/ Gives(c)
  <2>1. challenge' = challenge /\ call[c].pc = "user"
    BY <1>4 DEF FindUser, At
  <2>2. CASE Goto(c, "grant") /\ UNCHANGED grants
    BY <1>0, <2>1, <2>2, FadeGoto DEF Steps
  <2>3. CASE End(c) /\ grants' = [grants EXCEPT ![call[c].found] = @ + 1]
    BY <2>1, <2>3 DEF Gives, Granting
  <2> QED
    BY <1>4, <2>2, <2>3 DEF FindUser
<1>5. ASSUME NEW c \in Calls, Grant(c) PROVE Gives(c)
  BY <1>5 DEF Grant, At, Gives, Granting
<1>6. ASSUME NEW c \in Calls, UNCHANGED grants,
             \/ End(c)
             \/ \E p \in {"incr", "expire", "invalidate", "create", "known", "signup"} :
                  Goto(c, p)
      PROVE  AllFade /\ UNCHANGED grants
  BY <1>0, <1>6, FadeEnd, FadeGoto DEF Steps
<1>7. ASSUME NEW c \in Calls, CreateUser(c) PROVE AllFade /\ UNCHANGED grants
  <2>1. UNCHANGED grants
    BY <1>7 DEF CreateUser
  <2>2. End(c) \/ call' = [call EXCEPT ![c].try = @ + 1]
    BY <1>7 DEF CreateUser, Retries
  <2>3. ASSUME call' = [call EXCEPT ![c].try = @ + 1] PROVE AllFade
    <3>1. PICK n : call' = [call EXCEPT ![c].try = n]
      BY <2>3
    <3>2. call[c] \in CallType
      BY <1>0 DEF CallsOK
    <3>3. /\ call'[c].found = call[c].found /\ call'[c].pc = call[c].pc
          /\ \A d \in Calls \ {c} : call'[d] = call[d]
      BY <1>0, <3>1, <3>2 DEF CallsOK, CallType
    <3> QED
      BY <3>3 DEF AllFade, Fades, Holds, Granting
  <2> QED
    BY <1>6, <2>1, <2>2, <2>3
<1>8. ASSUME NEW c \in Calls, NEW code \in Challenges \cup {NoChallenge}, StartVerify(c, code)
      PROVE  AllFade /\ UNCHANGED grants
  <2>1. call[c] \in CallType
    BY <1>0 DEF CallsOK
  <2>2. call' = [call EXCEPT ![c].pc = "find", ![c].code = code] /\ UNCHANGED grants
    BY <1>8 DEF StartVerify
  <2>3. /\ call'[c].found = call[c].found /\ call'[c].pc = "find"
        /\ \A d \in Calls \ {c} : call'[d] = call[d]
    BY <1>0, <2>1, <2>2 DEF CallsOK, CallType
  <2> QED
    BY <2>2, <2>3 DEF AllFade, Fades, Holds, Granting
<1>9. ASSUME UNCHANGED call, UNCHANGED grants PROVE AllFade /\ UNCHANGED grants
  BY <1>9 DEF AllFade, Fades
<1>10. ASSUME NEW c \in Calls,
              \/ StartRequest(c) \/ RateIncr(c) \/ RateExpire(c) \/ InvalidateEarlier(c)
              \/ CreateChallenge(c) \/ Burn(c) \/ CountMiss(c) \/ StartRegister(c)
              \/ FindExisting(c) \/ Crash(c)
       PROVE  AllFade /\ UNCHANGED grants
  BY <1>6, <1>10 DEF StartRequest, RateIncr, RateExpire, InvalidateEarlier, CreateChallenge,
                     Burn, CountMiss, StartRegister, FindExisting, Crash
<1>11. ASSUME \/ \E h \in Challenges : CodeExpires(h)
              \/ WindowEnds \/ TicketExpires
       PROVE  AllFade /\ UNCHANGED grants
  BY <1>9, <1>11 DEF CodeExpires, WindowEnds, TicketExpires
<1>12. ASSUME NEW c \in Calls, Continue(c)
       PROVE  \/ AllFade /\ UNCHANGED grants
              \/ UNCHANGED grants /\ \E h \in Challenges : Finds(c, h)
              \/ UNCHANGED grants /\ Consumes(c)
              \/ Gives(c)
  BY <1>1, <1>2, <1>3, <1>4, <1>5, <1>7, <1>10, <1>12 DEF Continue
<1> QED
  BY <1>8, <1>10, <1>11, <1>12 DEF Next

-----------------------------------------------------------------------------
(* Grants: a request that has read a code while it was valid has its place *)
(* among the Cardinality(Calls) grants of it; nothing is given for a code  *)
(* before it is consumed, and then it is found no more.                    *)

Holding(h) == {c \in Calls : Holds(call[c], h)}

Untouched(h) == grants[h] = 0 /\ \A c \in Calls : ~Granting(call[c], h)

GrantInv ==
  \A h \in Challenges :
    /\ grants[h] + Cardinality(Holding(h)) <= Cardinality(Calls)
    /\ ~OverRow(h) => Untouched(h)

LEMMA HoldingIsFinite ==
  \A h : /\ IsFiniteSet(Holding(h)) /\ Cardinality(Holding(h)) \in Nat
         /\ Cardinality(Holding(h)) <= Cardinality(Calls)
<1>1. ASSUME NEW h PROVE Holding(h) \subseteq Calls
  BY DEF Holding
<1> QED
  BY <1>1, OtpAssumption, Fewer, FS_Subset

LEMMA FadingKeeps ==
  ASSUME OtpInv, Next, GrantInv, NEW h \in Challenges, grants'[h] = grants[h],
         \A d \in Calls : Holds(call'[d], h) => Holds(call[d], h),
         \A d \in Calls : Granting(call'[d], h) => Granting(call[d], h)
  PROVE  /\ grants'[h] + Cardinality(Holding(h)') <= Cardinality(Calls)
         /\ ~OverRow(h)' => Untouched(h)'
<1>1. Holding(h)' \subseteq Holding(h)
  BY DEF Holding
<1>2. Cardinality(Holding(h)') \in Nat /\ Cardinality(Holding(h)) \in Nat
      /\ Cardinality(Holding(h)') <= Cardinality(Holding(h))
  BY <1>1, HoldingIsFinite, Fewer
<1>3. grants[h] \in Nat /\ grants[h] + Cardinality(Holding(h)) <= Cardinality(Calls)
  BY DEF OtpInv, TypeInv, CountersOK, GrantInv
<1>4. grants'[h] + Cardinality(Holding(h)') <= Cardinality(Calls)
  BY <1>2, <1>3, Sizes
<1>5. ~OverRow(h)' => Untouched(h)'
  BY OverStays DEF GrantInv, Untouched
<1> QED
  BY <1>4, <1>5

LEMMA GrantStep == OtpInv /\ GrantInv /\ [Next]_vars => GrantInv'
<1> SUFFICES ASSUME OtpInv, GrantInv, [Next]_vars PROVE GrantInv'
  OBVIOUS
<1>1. CASE UNCHANGED vars
  BY <1>1 DEF vars, GrantInv, Holding, OverRow, Untouched
<1> SUFFICES ASSUME Next, NEW h \in Challenges
             PROVE  /\ grants'[h] + Cardinality(Holding(h)') <= Cardinality(Calls)
                    /\ ~OverRow(h)' => Untouched(h)'
  BY <1>1 DEF GrantInv
<1>2. CASE AllFade /\ UNCHANGED grants
  BY <1>2, FadingKeeps DEF AllFade, Fades
<1>3. ASSUME NEW c \in Calls, UNCHANGED grants, NEW g \in Challenges, Finds(c, g)
      PROVE  /\ grants'[h] + Cardinality(Holding(h)') <= Cardinality(Calls)
             /\ ~OverRow(h)' => Untouched(h)'
  <2>1. CASE g # h
    <3>1. \A d \in Calls : Holds(call'[d], h) => Holds(call[d], h)
      BY <1>3, <2>1 DEF Finds, Holds
    <3>2. \A d \in Calls : Granting(call'[d], h) => Granting(call[d], h)
      BY <1>3, <2>1 DEF Finds, Granting
    <3> QED
      BY <1>3, <3>1, <3>2, FadingKeeps
  <2>2. CASE g = h
    <3>1. Untouched(h)
      BY <1>3, <2>2 DEF GrantInv, Finds, OverRow
    <3>2. Untouched(h)'
      BY <1>3, <3>1 DEF Untouched, Finds, Granting
    <3>3. Holding(h)' \subseteq Calls
      BY DEF Holding
    <3>4. Cardinality(Holding(h)') \in Nat /\ Cardinality(Holding(h)') <= Cardinality(Calls)
      BY <3>3, OtpAssumption, Fewer
    <3>5. grants'[h] = 0
      BY <3>2 DEF Untouched
    <3> QED
      BY <3>2, <3>4, <3>5, Sizes
  <2> QED
    BY <2>1, <2>2
<1>4. ASSUME NEW c \in Calls, UNCHANGED grants, Consumes(c)
      PROVE  /\ grants'[h] + Cardinality(Holding(h)') <= Cardinality(Calls)
             /\ ~OverRow(h)' => Untouched(h)'
  <2>1. \A d \in Calls : Holds(call'[d], h) => Holds(call[d], h)
    BY <1>4 DEF Consumes, Holds
  <2>2. CASE call[c].found # h
    <3>1. \A d \in Calls : Granting(call'[d], h) => Granting(call[d], h)
      BY <1>4, <2>2 DEF Consumes, Granting
    <3> QED
      BY <1>4, <2>1, <3>1, FadingKeeps
  <2>3. CASE call[c].found = h
    <3>1. OverRow(h)'
      <4>1. challenge[h] \in RowType /\ challenge \in [Challenges -> RowType]
        BY DEF OtpInv, TypeInv, RowsOK
      <4> DEFINE s == IF challenge[h].state = "EXPIRED" THEN challenge[h].state ELSE "CONSUMED"
      <4>2. challenge' = [challenge EXCEPT ![h].state = s] /\ s \in {"CONSUMED", "EXPIRED"}
        BY <1>4, <2>3 DEF Consumes, Consume
      <4> HIDE DEF s
      <4> QED
        BY <4>1, <4>2 DEF RowType, OverRow
    <3>2. Holding(h)' \subseteq Holding(h)
      BY <2>1 DEF Holding
    <3>3. Cardinality(Holding(h)') \in Nat /\ Cardinality(Holding(h)) \in Nat
          /\ Cardinality(Holding(h)') <= Cardinality(Holding(h))
      BY <3>2, HoldingIsFinite, Fewer
    <3>4. grants'[h] \in Nat /\ grants'[h] + Cardinality(Holding(h)) <= Cardinality(Calls)
      BY <1>4 DEF OtpInv, TypeInv, CountersOK, GrantInv
    <3> QED
      BY <3>1, <3>3, <3>4, Sizes
  <2> QED
    BY <2>2, <2>3
<1>5. ASSUME NEW c \in Calls, Gives(c)
      PROVE  /\ grants'[h] + Cardinality(Holding(h)') <= Cardinality(Calls)
             /\ ~OverRow(h)' => Untouched(h)'
  <2>0. CallsOK /\ grants \in [Challenges -> Nat]
    BY DEF OtpInv, TypeInv, CountersOK
  <2>1. AllFade /\ ~ \E g \in Challenges : Holds(call'[c], g)
    BY <1>5, <2>0, FadeEnd DEF Gives
  <2>2. CASE call[c].found # h
    <3>1. grants'[h] = grants[h]
      BY <1>5, <2>0, <2>2 DEF Gives
    <3> QED
      BY <2>1, <3>1, FadingKeeps DEF AllFade, Fades
  <2>3. CASE call[c].found = h
    <3>1. OverRow(h)
      BY <1>5, <2>3 DEF GrantInv, Untouched, Gives
    <3>2. OverRow(h)'
      BY <3>1, OverStays
    <3>3. c \in Holding(h)
      BY <1>5, <2>3 DEF Holding, Gives, Granting, Holds
    <3>4. Holding(h)' \subseteq Holding(h) \ {c}
      BY <2>1 DEF Holding, AllFade, Fades
    <3>5. /\ Cardinality(Holding(h)') \in Nat /\ Cardinality(Holding(h)) \in Nat
          /\ Cardinality(Holding(h)') + 1 <= Cardinality(Holding(h))
      BY <3>3, <3>4, HoldingIsFinite, OneFewer
    <3>6. grants'[h] = grants[h] + 1 /\ grants[h] \in Nat
      BY <1>5, <2>0, <2>3 DEF Gives
    <3>7. grants[h] + Cardinality(Holding(h)) <= Cardinality(Calls)
      BY DEF GrantInv
    <3> QED
      BY <3>2, <3>5, <3>6, <3>7, Sizes
  <2> QED
    BY <2>2, <2>3
<1> QED
  BY <1>2, <1>3, <1>4, <1>5, StepKinds

LEMMA GrantInit == Init => GrantInv
<1> SUFFICES ASSUME Init, NEW h \in Challenges
             PROVE  /\ grants[h] + Cardinality(Holding(h)) <= Cardinality(Calls)
                    /\ Untouched(h)
  BY DEF GrantInv
<1>1. \A c \in Calls : call[c].pc = "idle"
  BY IdleFacts DEF Init
<1>2. grants[h] = 0
  BY DEF Init
<1>3. Untouched(h)
  BY <1>1, <1>2 DEF Untouched, Granting
<1> QED
  BY <1>2, <1>3, HoldingIsFinite, Sizes

LEMMA InvBoundsGrants == OtpInv /\ GrantInv => GrantsAreBounded
<1> SUFFICES ASSUME OtpInv, GrantInv, NEW h \in Challenges
             PROVE  grants[h] <= Cardinality(Calls)
  BY DEF GrantsAreBounded
<1>1. grants[h] \in Nat /\ grants[h] + Cardinality(Holding(h)) <= Cardinality(Calls)
  BY DEF OtpInv, TypeInv, CountersOK, GrantInv
<1> QED
  BY <1>1, HoldingIsFinite, Sizes

(* No more codes of a phone are valid at once than requests for one        *)
(* overlap, though requestOtp closes the old ones and sends the new one in *)
(* two queries; and a code gives no more sessions and tickets than         *)
(* verifications of it overlap, though verifyOtp reads it, compares it and *)
(* consumes it in three steps.                                             *)
THEOREM OverlapsAreTheBound == Spec => []OverlapsAreBounded
<1>1. OtpInv /\ GrantInv => OverlapsAreBounded
  BY InvBoundsCodes, InvBoundsGrants DEF OverlapsAreBounded
<1> QED
  BY <1>1, OtpInvariant, GrantInit, GrantStep, PTL DEF Spec

-----------------------------------------------------------------------------
LEMMA SpentStep ==
  OtpInv /\ [Next]_vars =>
    [\A h \in Challenges : Spent(h) => Spent(h)' /\ grants'[h] = grants[h]]_vars
<1> SUFFICES ASSUME OtpInv, Next, NEW h \in Challenges, OverRow(h), NobodyHas(h)
             PROVE  OverRow(h)' /\ NobodyHas(h)' /\ grants'[h] = grants[h]
  BY DEF Spent, OverRow, NobodyHas
<1>0. CallsOK /\ grants \in [Challenges -> Nat]
  BY DEF OtpInv, TypeInv, CountersOK
<1>1. OverRow(h)'
  BY OverStays
<1>2. CASE AllFade /\ UNCHANGED grants
  BY <1>1, <1>2 DEF AllFade, Fades, NobodyHas
<1>3. ASSUME NEW c \in Calls, UNCHANGED grants, NEW g \in Challenges, Finds(c, g)
      PROVE  NobodyHas(h)' /\ grants'[h] = grants[h]
  <2>1. g # h
    BY <1>3 DEF Finds, OverRow
  <2> QED
    BY <1>3, <2>1 DEF Finds, NobodyHas
<1>4. ASSUME NEW c \in Calls, UNCHANGED grants, Consumes(c)
      PROVE  NobodyHas(h)' /\ grants'[h] = grants[h]
  BY <1>4 DEF Consumes, NobodyHas
<1>5. ASSUME NEW c \in Calls, Gives(c)
      PROVE  NobodyHas(h)' /\ grants'[h] = grants[h]
  <2>1. AllFade
    BY <1>0, <1>5, FadeEnd DEF Gives
  <2>2. call[c].found # h
    BY DEF NobodyHas
  <2>3. grants'[h] = grants[h]
    BY <1>0, <1>5, <2>2 DEF Gives
  <2> QED
    BY <2>1, <2>3 DEF AllFade, Fades, NobodyHas
<1> QED
  BY <1>1, <1>2, <1>3, <1>4, <1>5, StepKinds

(* A code that is consumed or expired, and that no request under way has   *)
(* in hand, gives no session and no ticket again: verifyOtp finds only     *)
(* live challenges, and its updates by id never bring one back.            *)
THEOREM SpentGivesNothing == Spec => SpentIsSpent
BY OtpInvariant, SpentStep, PTL DEF Spec, SpentIsSpent
=============================================================================
