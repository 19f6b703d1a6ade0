-------------------------------- MODULE Otp --------------------------------
(***************************************************************************)
(* Proving a phone number and signing up (modules/auth/auth.service.ts:    *)
(* requestOtp, verifyOtp, register), for one phone number: every key and   *)
(* every query of this code is by phone.  The session that a login or a    *)
(* registration ends with is the subject of Sessions; here it is a grant.  *)
(*                                                                         *)
(* Two challenges have different codes: the model leaves out that a random *)
(* code may be guessed, or drawn twice.                                    *)
(***************************************************************************)
EXTENDS Integers, FiniteSets

CONSTANTS
  Challenges,   \* ids of otp_challenges: bounds the codes ever sent
  Calls,        \* requests in flight at once
  MaxAttempts,  \* OTP_MAX_ATTEMPTS
  MaxPerHour,   \* OTP_MAX_PER_PHONE_PER_HOUR
  MaxTries,     \* MAX_ATTEMPTS of createUserWithUniqueShortId
  NoChallenge,
  Endpoints,    \* the endpoints clients call in this instance of the model
  CanCrash      \* whether an API instance may die under a call

ASSUME OtpAssumption ==
  /\ IsFiniteSet(Challenges) /\ IsFiniteSet(Calls)
  /\ NoChallenge \notin Challenges
  /\ MaxAttempts \in Nat \ {0} /\ MaxPerHour \in Nat \ {0} /\ MaxTries \in Nat \ {0}
  /\ Endpoints \subseteq {"request", "verify", "register"}
  /\ CanCrash \in BOOLEAN

VARIABLES
  challenge,  \* the challenges table
  rate,       \* the counter otp:rate:<phone>; 0 is a key that does not exist
  ttl,        \* whether it has an expiry
  account,    \* the users with the phone
  ticket,     \* whether a registration ticket is about that has not expired
  call,       \* the requests in flight
  grants      \* history: sessions and tickets given for each challenge

vars == <<challenge, rate, ttl, account, ticket, call, grants>>

Steps == {"idle", "incr", "expire", "invalidate", "create",
          "find", "burn", "compare", "miss", "consume", "user", "grant",
          "known", "signup"}

IdleCall == [pc |-> "idle", code |-> NoChallenge, found |-> NoChallenge, try |-> 1]

TypeOK ==
  /\ challenge \in [Challenges -> [state : {"UNUSED", "LIVE", "CONSUMED", "EXPIRED"},
                                   attempts : Nat, born : 0..Cardinality(Challenges)]]
  /\ rate \in 0..(MaxPerHour + 1)
  /\ ttl \in BOOLEAN /\ account \in 0..1 /\ ticket \in BOOLEAN
  /\ call \in [Calls -> [pc : Steps, code : Challenges \cup {NoChallenge},
                         found : Challenges \cup {NoChallenge}, try : 1..MaxTries]]
  /\ grants \in [Challenges -> Nat]

Init ==
  /\ challenge = [h \in Challenges |-> [state |-> "UNUSED", attempts |-> 0, born |-> 0]]
  /\ rate = 0 /\ ttl = FALSE /\ account = 0 /\ ticket = FALSE
  /\ call = [c \in Calls |-> IdleCall]
  /\ grants = [h \in Challenges |-> 0]

-----------------------------------------------------------------------------
Born == {h \in Challenges : challenge[h].state # "UNUSED"}

LiveCodes == {h \in Challenges : challenge[h].state = "LIVE"}

(* Mutant: the newest challenge, whether it is still valid or not.         *)
NewestEver == {h \in Born : \A g \in Born : challenge[g].born <= challenge[h].born}

(* orderBy createdAt desc, of the live ones.                               *)
Newest == {h \in LiveCodes : \A g \in LiveCodes : challenge[g].born <= challenge[h].born}

At(c, pc) == call[c].pc = pc

Goto(c, pc) == call' = [call EXCEPT ![c].pc = pc]

End(c) == call' = [call EXCEPT ![c] = IdleCall]

(* The bound on challenges: every request under way has an id left.        *)
RoomForChallenge ==
  Cardinality(Challenges \ Born)
    > Cardinality({c \in Calls : call[c].pc \in {"incr", "expire", "invalidate", "create"}})

-----------------------------------------------------------------------------
(* requestOtp                                                              *)

StartRequest(c) ==
  /\ "request" \in Endpoints
  /\ At(c, "idle") /\ RoomForChallenge
  /\ Goto(c, "incr")
  /\ UNCHANGED <<challenge, rate, ttl, account, ticket, grants>>

WithinCap(count) == count <= MaxPerHour

RateIncr(c) ==
  LET count == IF rate > MaxPerHour THEN rate ELSE rate + 1
  IN /\ At(c, "incr")
     /\ rate' = count
     /\ \/ count = 1 /\ Goto(c, "expire")
        \/ count # 1 /\ WithinCap(count) /\ Goto(c, "invalidate")
        \/ count # 1 /\ ~WithinCap(count) /\ End(c)
     /\ UNCHANGED <<challenge, ttl, account, ticket, grants>>

RateExpire(c) ==
  /\ At(c, "expire")
  /\ ttl' = (rate > 0)
  /\ Goto(c, "invalidate")
  /\ UNCHANGED <<challenge, rate, account, ticket, grants>>

(* Mutant: earlier codes stay valid.                                       *)
KeepEarlier(c) ==
  /\ At(c, "invalidate")
  /\ Goto(c, "create")
  /\ UNCHANGED <<challenge, rate, ttl, account, ticket, grants>>

(* One updateMany over the live challenges of the phone.                   *)
InvalidateEarlier(c) ==
  /\ At(c, "invalidate")
  /\ challenge' = [h \in Challenges |-> IF h \in LiveCodes
                                        THEN [challenge[h] EXCEPT !.state = "CONSUMED"]
                                        ELSE challenge[h]]
  /\ Goto(c, "create")
  /\ UNCHANGED <<rate, ttl, account, ticket, grants>>

(* The row; the SMS that follows changes nothing here, sent or not.        *)
CreateChallenge(c) ==
  /\ At(c, "create")
  /\ \E h \in Challenges \ Born :
       challenge' = [challenge EXCEPT ![h] = [state |-> "LIVE", attempts |-> 0,
                                              born |-> Cardinality(Born) + 1]]
  /\ End(c)
  /\ UNCHANGED <<rate, ttl, account, ticket, grants>>

-----------------------------------------------------------------------------
(* verifyOtp.  The caller presents the code of some challenge that was     *)
(* sent, or a code of none.                                                *)

StartVerify(c, code) ==
  /\ "verify" \in Endpoints
  /\ At(c, "idle")
  /\ code \in Born \cup {NoChallenge}
  /\ call' = [call EXCEPT ![c].pc = "find", ![c].code = code]
  /\ UNCHANGED <<challenge, rate, ttl, account, ticket, grants>>

(* Mutant: the cap is not tested.                                          *)
NoCap(h) == FALSE

Exhausted(h) == challenge[h].attempts >= MaxAttempts

FindChallenge(c) ==
  /\ At(c, "find")
  /\ \/ Newest = {} /\ End(c)
     \/ \E h \in Newest :
          IF Exhausted(h)
          THEN call' = [call EXCEPT ![c] = [IdleCall EXCEPT !.pc = "burn", !.found = h]]
          ELSE call' = [call EXCEPT ![c].pc = "compare", ![c].found = h]
  /\ UNCHANGED <<challenge, rate, ttl, account, ticket, grants>>

(* The updates of a challenge are by id, whatever became of it meanwhile.  *)
Consume(h) == challenge' = [challenge EXCEPT ![h].state = IF @ = "EXPIRED" THEN @ ELSE "CONSUMED"]

Burn(c) ==
  /\ At(c, "burn")
  /\ Consume(call[c].found)
  /\ End(c)
  /\ UNCHANGED <<rate, ttl, account, ticket, grants>>

(* scrypt runs off the main thread: an await like the others.              *)
Compare(c) ==
  LET h == call[c].found
  IN /\ At(c, "compare")
     /\ call' = [call EXCEPT ![c] =
                   [IdleCall EXCEPT !.pc = IF call[c].code = h THEN "consume" ELSE "miss",
                                    !.found = h]]
     /\ UNCHANGED <<challenge, rate, ttl, account, ticket, grants>>

(* Mutant: attempts counts down.                                           *)
CountDown(c) ==
  /\ At(c, "miss")
  /\ challenge' = [challenge EXCEPT ![call[c].found].attempts = @ - 1]
  /\ End(c)
  /\ UNCHANGED <<rate, ttl, account, ticket, grants>>

(* attempts: increment 1, in the database.                                 *)
CountMiss(c) ==
  /\ At(c, "miss")
  /\ challenge' = [challenge EXCEPT ![call[c].found].attempts = @ + 1]
  /\ End(c)
  /\ UNCHANGED <<rate, ttl, account, ticket, grants>>

ConsumeCode(c) ==
  /\ At(c, "consume")
  /\ Consume(call[c].found)
  /\ Goto(c, "user")
  /\ UNCHANGED <<rate, ttl, account, ticket, grants>>

(* A phone without an account gets a registration ticket, at once; one     *)
(* with an account a session, by one more database call.                   *)
FindUser(c) ==
  LET h == call[c].found
  IN /\ At(c, "user")
     /\ \/ account > 0 /\ Goto(c, "grant") /\ UNCHANGED <<ticket, grants>>
        \/ /\ account = 0
           /\ ticket' = TRUE
           /\ grants' = [grants EXCEPT ![h] = @ + 1]
           /\ End(c)
     /\ UNCHANGED <<challenge, rate, ttl, account>>

Grant(c) ==
  LET h == call[c].found
  IN /\ At(c, "grant")
     /\ grants' = [grants EXCEPT ![h] = @ + 1]
     /\ End(c)
     /\ UNCHANGED <<challenge, rate, ttl, account, ticket>>

-----------------------------------------------------------------------------
(* register: a ticket may be presented more than once until it expires.    *)

StartRegister(c) ==
  /\ "register" \in Endpoints
  /\ At(c, "idle") /\ ticket
  /\ Goto(c, "known")
  /\ UNCHANGED <<challenge, rate, ttl, account, ticket, grants>>

FindExisting(c) ==
  /\ At(c, "known")
  /\ IF account > 0 THEN End(c) ELSE Goto(c, "signup")
  /\ UNCHANGED <<challenge, rate, ttl, account, ticket, grants>>

PhoneTaken == account > 0

Retries(c) ==
  IF call[c].try < MaxTries THEN call' = [call EXCEPT ![c].try = @ + 1] ELSE End(c)

(* The insert.  A phone that is taken is an error like any other; a public *)
(* short id that is taken is drawn again, MaxTries times in all.           *)
CreateUser(c) ==
  /\ At(c, "signup")
  /\ \/ PhoneTaken /\ End(c) /\ UNCHANGED account
     \/ ~PhoneTaken /\ account' = account + 1 /\ End(c)
     \/ Retries(c) /\ UNCHANGED account
  /\ UNCHANGED <<challenge, rate, ttl, ticket, grants>>

-----------------------------------------------------------------------------
(* The clock, and crashes.                                                 *)

CodeExpires(h) ==
  /\ challenge[h].state = "LIVE"
  /\ challenge' = [challenge EXCEPT ![h].state = "EXPIRED"]
  /\ UNCHANGED <<rate, ttl, account, ticket, call, grants>>

WindowEnds ==
  /\ ttl
  /\ rate' = 0 /\ ttl' = FALSE
  /\ UNCHANGED <<challenge, account, ticket, call, grants>>

TicketExpires ==
  /\ ticket /\ ticket' = FALSE
  /\ UNCHANGED <<challenge, rate, ttl, account, call, grants>>

Crash(c) ==
  /\ CanCrash /\ ~At(c, "idle")
  /\ End(c)
  /\ UNCHANGED <<challenge, rate, ttl, account, ticket, grants>>

Continue(c) ==
  \/ RateIncr(c) \/ RateExpire(c) \/ InvalidateEarlier(c) \/ CreateChallenge(c)
  \/ FindChallenge(c) \/ Burn(c) \/ Compare(c) \/ CountMiss(c) \/ ConsumeCode(c)
  \/ FindUser(c) \/ Grant(c) \/ FindExisting(c) \/ CreateUser(c)

Next ==
  \/ \E c \in Calls : Continue(c) \/ Crash(c) \/ StartRequest(c) \/ StartRegister(c)
  \/ \E c \in Calls, code \in Challenges \cup {NoChallenge} : StartVerify(c, code)
  \/ \E h \in Challenges : CodeExpires(h)
  \/ WindowEnds \/ TicketExpires

Spec == Init /\ [][Next]_vars

-----------------------------------------------------------------------------
(* A challenge answers at most MaxAttempts wrong codes, and one more for
   each other call that read it before the last miss was counted: no
   interleaving gives a guesser a budget that grows with time.             *)
GuessesAreBounded ==
  \A h \in Challenges : challenge[h].attempts <= MaxAttempts + Cardinality(Calls) - 1

LiveCodesAreBounded == Cardinality(LiveCodes) <= Cardinality(Calls)

GrantsAreBounded == \A h \in Challenges : grants[h] <= Cardinality(Calls)

(* No more codes are valid at once than requests for one overlap, and one
   code gives no more sessions and tickets than verifications of it overlap:
   what two queries leave open between them is open to those alone.        *)
OverlapsAreBounded == LiveCodesAreBounded /\ GrantsAreBounded

(* A code that is consumed or expired, and that no call under way has read
   while it was valid, never gives anything again.                         *)
Spent(h) ==
  /\ challenge[h].state \in {"CONSUMED", "EXPIRED"}
  /\ \A c \in Calls : call[c].found # h

SpentIsSpent ==
  [][\A h \in Challenges : Spent(h) => Spent(h)' /\ grants'[h] = grants[h]]_vars
=============================================================================
