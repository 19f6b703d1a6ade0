---------------------------- MODULE ThreadsProofs ----------------------------
(***************************************************************************)
(* Proofs about Threads, for every set of users, pings, messages, requests *)
(* in flight and messaging requests in flight.                             *)
(***************************************************************************)
EXTENDS Threads, PingsProofs, FiniteSetTheorems

-----------------------------------------------------------------------------
(* Seen from the pings, messaging is stuttering: whatever was proved of    *)
(* Pings holds of the composition.                                         *)

LEMMA TalkIsQuiet ==
  ASSUME NEW t \in Tabs,
         \/ Talk(t) \/ CrashTab(t)
         \/ \E op \in {"message", "read"}, u \in Users, p \in PingIds : OpenTab(t, op, u, p)
  PROVE  UNCHANGED <<vars, opened>>
BY DEF Talk, CrashTab, OpenTab, LoadThread, Gate, Insert, Commit, EmitMessage, Mark, Quiet

LEMMA ThreadsStepIsPingsStep == [ThreadsNext]_allVars => [Next]_vars
<1> SUFFICES ASSUME [ThreadsNext]_allVars PROVE [Next]_vars
  OBVIOUS
<1>1. CASE PingStep
  BY <1>1 DEF PingStep
<1>2. CASE UNCHANGED allVars
  BY <1>2 DEF allVars
<1> QED
  BY <1>1, <1>2, TalkIsQuiet DEF ThreadsNext

(* Messaging disturbs no promise of the requests: the composition implements
   Pings.                                                                  *)
THEOREM ThreadsImplementPings == ThreadsSpec => Spec
<1>1. ThreadsInit => Init
  BY DEF ThreadsInit
<1> QED
  BY <1>1, ThreadsStepIsPingsStep, PTL DEF ThreadsSpec, Spec

(* A block that stood the whole time is seen before a send or an accept has
   its effect, with messages sent and read meanwhile.                      *)
THEOREM BlocksAreHonouredAmidMessages == ThreadsSpec => []BlockHonoured
BY ThreadsImplementPings, BlocksAreHonoured

(* So does every other promise of the requests: one row per pair, the budget
   of a day, decisions made by the entitled alone and for good, and the slot
   of a pair, while sendMessage locks rows and a delete takes a thread away. *)
THEOREM PingsStandAmidMessages ==
  ThreadsSpec => /\ []OnePerPair /\ []WithinBudget
                 /\ OnlyTheEntitledDecide /\ SettledForGood /\ ImplementsPairSlot
BY ThreadsImplementPings, OneRowPerPair, BudgetIsKept, EntitledOnly, SettledIsFinal,
   PingsRefinePairSlot

-----------------------------------------------------------------------------
(* The types.  What a request in flight knows of its thread is part of     *)
(* them: without it a handler could write a row that does not exist.       *)

TabKnows(t) ==
  /\ Talking(t) => tab[t].me \in Users /\ tab[t].ping \in PingIds
  /\ tab[t].pc \in {"commit", "emit"} => tab[t].msg \in Msgs

TypeInv == ThreadsTypeOK /\ \A t \in Tabs : TabKnows(t)

LEMMA Stamps == Cardinality(Msgs) \in Nat
BY ThreadsAssumption, FS_CardinalityType

(* A request that moves becomes x; nothing else of its table changes.      *)
LEMMA TabBecomes ==
  ASSUME TypeInv, NEW t \in Tabs, NEW x \in TabType, tab' = [tab EXCEPT ![t] = x],
         x.pc \notin {"idle", "failed"} => x.me \in Users /\ x.ping \in PingIds,
         x.pc \in {"commit", "emit"} => x.msg \in Msgs
  PROVE  /\ tab' \in [Tabs -> TabType]
         /\ \A s \in Tabs : TabKnows(s)'
         /\ tab'[t] = x
         /\ \A s \in Tabs \ {t} : tab'[s] = tab[s]
<1>1. tab'[t] = x /\ \A s \in Tabs \ {t} : tab'[s] = tab[s]
  BY DEF TypeInv, ThreadsTypeOK
<1>2. tab' \in [Tabs -> TabType]
  BY DEF TypeInv, ThreadsTypeOK
<1>3. \A s \in Tabs : TabKnows(s)'
  BY <1>1 DEF TypeInv, TabKnows, Talking
<1> QED
  BY <1>1, <1>2, <1>3

LEMMA EndTabAt ==
  ASSUME TypeInv, NEW t \in Tabs, NEW pc \in {"idle", "failed"}, EndTab(t, pc)
  PROVE  /\ tab' \in [Tabs -> TabType]
         /\ \A s \in Tabs : TabKnows(s)'
         /\ tab'[t].pc = pc
         /\ \A s \in Tabs \ {t} : tab'[s] = tab[s]
         /\ tabShut' = tabShut \ {t}
<1> DEFINE x == [IdleTab EXCEPT !.pc = pc]
<1>1. x \in TabType /\ x.pc = pc
  BY Stamps DEF IdleTab, TabType
<1>2. tab' = [tab EXCEPT ![t] = x] /\ tabShut' = tabShut \ {t}
  BY DEF EndTab
<1> HIDE DEF x
<1> QED
  BY <1>1, <1>2, TabBecomes

LEMMA AdvanceAt ==
  ASSUME TypeInv, NEW t \in Tabs, Talking(t), NEW pc \in {"insert", "mark", "emit"},
         pc = "emit" => tab[t].msg \in Msgs, Advance(t, pc)
  PROVE  /\ tab' \in [Tabs -> TabType]
         /\ \A s \in Tabs : TabKnows(s)'
         /\ tab'[t] = [tab[t] EXCEPT !.pc = pc]
         /\ \A s \in Tabs \ {t} : tab'[s] = tab[s]
<1> DEFINE x == [tab[t] EXCEPT !.pc = pc]
<1>1. tab[t] \in TabType /\ TabKnows(t)
  BY DEF TypeInv, ThreadsTypeOK
<1>2. x \in TabType /\ x.pc = pc /\ x.me = tab[t].me /\ x.ping = tab[t].ping
      /\ x.msg = tab[t].msg
  BY <1>1 DEF TabType
<1>3. tab' = [tab EXCEPT ![t] = x]
  BY DEF Advance, TypeInv, ThreadsTypeOK
<1> HIDE DEF x
<1>4. x.me \in Users /\ x.ping \in PingIds /\ (x.pc \in {"commit", "emit"} => x.msg \in Msgs)
  BY <1>1, <1>2 DEF TabKnows
<1>5. /\ tab' \in [Tabs -> TabType]
      /\ \A s \in Tabs : TabKnows(s)'
      /\ tab'[t] = x
      /\ \A s \in Tabs \ {t} : tab'[s] = tab[s]
  BY <1>2, <1>3, <1>4, TabBecomes
<1> QED
  BY <1>5 DEF x
LEMMA OpenTabAt ==
  ASSUME TypeInv, NEW t \in Tabs, NEW op \in {"message", "read"}, NEW u \in Users,
         NEW p \in PingIds, OpenTab(t, op, u, p)
  PROVE  /\ tab' \in [Tabs -> TabType]
         /\ \A s \in Tabs : TabKnows(s)'
         /\ tab'[t].pc = "load"
         /\ \A s \in Tabs \ {t} : tab'[s] = tab[s]
<1> DEFINE x == [IdleTab EXCEPT !.op = op, !.pc = "load", !.me = u, !.ping = p]
<1>0. IdleTab \in TabType
  BY Stamps DEF IdleTab, TabType
<1>1. x \in TabType /\ x.pc = "load" /\ x.me = u /\ x.ping = p
  BY <1>0 DEF TabType
<1>2. tab' = [tab EXCEPT ![t] = x]
  BY DEF OpenTab
<1> HIDE DEF x
<1> QED
  BY <1>1, <1>2, TabBecomes

(* The first await finds the ping, one of whose two the caller is, and the *)
(* other of them.                                                          *)
LEMMA LoadThreadAt ==
  ASSUME TypeInv, NEW t \in Tabs, LoadThread(t), ~EndTab(t, "idle")
  PROVE  /\ tab' \in [Tabs -> TabType]
         /\ \A s \in Tabs : TabKnows(s)'
         /\ \A s \in Tabs \ {t} : tab'[s] = tab[s]
         /\ Live(tab[t].ping) /\ tab[t].me \in PairOf(tab[t].ping)
         /\ tab'[t].pc = "gate" /\ tab'[t].me = tab[t].me /\ tab'[t].ping = tab[t].ping
         /\ tab'[t].saw = row[tab[t].ping].state
         /\ tabShut' = IF Blocked(tab[t].me, tab'[t].other) THEN tabShut \cup {t}
                                                           ELSE tabShut \ {t}
<1> DEFINE u == tab[t].me
           p == tab[t].ping
<1>1. tab[t] \in TabType /\ p \in PingIds /\ Live(p) /\ u \in PairOf(p) /\ row[p] \in RowType
  BY DEF TypeInv, ThreadsTypeOK, TypeOK, TabKnows, Talking, LoadThread
<1>2. PICK other \in PairOf(p) \ {u} :
        /\ tab' = [tab EXCEPT ![t].pc = "gate", ![t].other = other, ![t].saw = row[p].state]
        /\ tabShut' = IF Blocked(u, other) THEN tabShut \cup {t} ELSE tabShut \ {t}
  BY DEF LoadThread
<1> DEFINE x == [tab[t] EXCEPT !.pc = "gate", !.other = other, !.saw = row[p].state]
<1>3. other \in Users \cup {NoUser} /\ row[p].state \in LiveStates
  BY <1>1 DEF RowType, PairOf, Live
<1>4. /\ x \in TabType /\ x.pc = "gate" /\ x.me = u /\ x.ping = p /\ x.other = other
      /\ x.saw = row[p].state
  BY <1>1, <1>3 DEF TabType
<1>5. tab' = [tab EXCEPT ![t] = x]
  BY <1>2 DEF TypeInv, ThreadsTypeOK
<1>6. u \in Users
  BY DEF TypeInv, TabKnows, Talking, LoadThread
<1> HIDE DEF x
<1>7. /\ tab' \in [Tabs -> TabType]
      /\ \A s \in Tabs : TabKnows(s)'
      /\ tab'[t] = x
      /\ \A s \in Tabs \ {t} : tab'[s] = tab[s]
  BY <1>1, <1>4, <1>5, <1>6, TabBecomes
<1> QED
  BY <1>1, <1>2, <1>4, <1>7

LEMMA InsertAt ==
  ASSUME TypeInv, NEW t \in Tabs, Insert(t), Live(tab[t].ping)
  PROVE  /\ tab' \in [Tabs -> TabType]
         /\ \A s \in Tabs : TabKnows(s)'
         /\ \A s \in Tabs \ {t} : tab'[s] = tab[s]
         /\ now' \in 0..Cardinality(Msgs)
         /\ tabShut' = tabShut
         /\ tab'[t].pc = "commit" /\ tab'[t].me = tab[t].me /\ tab'[t].ping = tab[t].ping
         /\ tab'[t].saw = tab[t].saw
<1>1. /\ tab[t] \in TabType /\ tab[t].ping \in PingIds /\ tab[t].me \in Users
      /\ now \in 0..Cardinality(Msgs) /\ tabShut' = tabShut
  BY DEF TypeInv, ThreadsTypeOK, TabKnows, Talking, Insert
<1>2. PICK m \in Msgs :
        /\ now < Cardinality(Msgs) /\ now' = now + 1
        /\ tab' = [tab EXCEPT ![t].pc = "commit", ![t].msg = m, ![t].sentAt = now + 1]
  BY DEF Insert, Fresh
<1> DEFINE x == [tab[t] EXCEPT !.pc = "commit", !.msg = m, !.sentAt = now + 1]
<1>3. now' \in 0..Cardinality(Msgs) /\ now + 1 \in 0..Cardinality(Msgs)
  BY <1>1, <1>2, Stamps
<1>4. /\ x \in TabType /\ x.pc = "commit" /\ x.me = tab[t].me /\ x.ping = tab[t].ping
      /\ x.saw = tab[t].saw /\ x.msg \in Msgs
  BY <1>1, <1>3 DEF TabType
<1>5. tab' = [tab EXCEPT ![t] = x]
  BY <1>2 DEF TypeInv, ThreadsTypeOK
<1> HIDE DEF x
<1>6. /\ tab' \in [Tabs -> TabType]
      /\ \A s \in Tabs : TabKnows(s)'
      /\ tab'[t] = x
      /\ \A s \in Tabs \ {t} : tab'[s] = tab[s]
  BY <1>1, <1>4, <1>5, TabBecomes
<1> QED
  BY <1>1, <1>3, <1>4, <1>6

(* The gate lets a request pass, or ends it.                               *)
LEMMA GateAt ==
  ASSUME TypeInv, NEW t \in Tabs, Gate(t), ~EndTab(t, "idle")
  PROVE  /\ tab' \in [Tabs -> TabType]
         /\ \A s \in Tabs : TabKnows(s)'
         /\ \A s \in Tabs \ {t} : tab'[s] = tab[s]
         /\ tab'[t].pc \in {"insert", "mark"}
         /\ tab'[t] = [tab[t] EXCEPT !.pc = tab'[t].pc]
         /\ MayTalk(t) /\ tabShut' = tabShut
<1> DEFINE pc == AfterGate(tab[t].op)
<1>1. pc \in {"insert", "mark"}
  BY DEF AfterGate
<1>2. MayTalk(t) /\ Advance(t, pc) /\ tabShut' = tabShut /\ Talking(t)
  BY DEF Gate, Talking
<1>3. tab[t] \in TabType
  BY DEF TypeInv, ThreadsTypeOK
<1> HIDE DEF pc
<1>4. /\ tab' \in [Tabs -> TabType]
      /\ \A s \in Tabs : TabKnows(s)'
      /\ \A s \in Tabs \ {t} : tab'[s] = tab[s]
      /\ tab'[t] = [tab[t] EXCEPT !.pc = pc]
  BY <1>1, <1>2, AdvanceAt
<1>5. tab'[t].pc = pc
  BY <1>3, <1>4 DEF TabType
<1> QED
  BY <1>1, <1>2, <1>4, <1>5

(* Both rows become visible.                                               *)
LEMMA CommitAt ==
  ASSUME TypeInv, NEW t \in Tabs, Commit(t)
  PROVE  /\ tab' \in [Tabs -> TabType]
         /\ \A s \in Tabs : TabKnows(s)'
         /\ \A s \in Tabs \ {t} : tab'[s] = tab[s]
         /\ tab'[t] = [tab[t] EXCEPT !.pc = "emit"]
         /\ tab[t].msg \in Msgs /\ tab[t].ping \in PingIds /\ tab[t].me \in Users
         /\ message' \in [Msgs -> MessageType]
         /\ message'[tab[t].msg].state = "SENT"
         /\ message'[tab[t].msg].ping = tab[t].ping
         /\ message'[tab[t].msg].sender = tab[t].me
         /\ \A m \in Msgs \ {tab[t].msg} : message'[m] = message[m]
         /\ lastMessageAt' \in [PingIds -> 0..Cardinality(Msgs)]
<1> DEFINE x == [state |-> "SENT", ping |-> tab[t].ping, sender |-> tab[t].me,
                 sentAt |-> tab[t].sentAt, readBy |-> NoUser]
<1>1. /\ tab[t] \in TabType /\ TabKnows(t) /\ Talking(t) /\ tab[t].pc = "commit"
      /\ message \in [Msgs -> MessageType]
      /\ lastMessageAt \in [PingIds -> 0..Cardinality(Msgs)]
  BY DEF TypeInv, ThreadsTypeOK, Talking, Commit
<1>2. tab[t].msg \in Msgs /\ tab[t].ping \in PingIds /\ tab[t].me \in Users
  BY <1>1 DEF TabKnows
<1>3. tab[t].sentAt \in 0..Cardinality(Msgs)
  BY <1>1 DEF TabType
<1>4. message' = [message EXCEPT ![tab[t].msg] = x]
  BY DEF Commit
<1>5. x \in MessageType /\ x.state = "SENT" /\ x.ping = tab[t].ping /\ x.sender = tab[t].me
  BY <1>2, <1>3 DEF MessageType
<1>6. /\ tab' \in [Tabs -> TabType]
      /\ \A s \in Tabs : TabKnows(s)'
      /\ \A s \in Tabs \ {t} : tab'[s] = tab[s]
      /\ tab'[t] = [tab[t] EXCEPT !.pc = "emit"]
  BY <1>1, <1>2, AdvanceAt DEF Commit
<1>7. lastMessageAt' \in [PingIds -> 0..Cardinality(Msgs)]
  BY <1>1, <1>3 DEF Commit
<1> HIDE DEF x
<1>8. message' \in [Msgs -> MessageType] /\ message'[tab[t].msg] = x
      /\ \A m \in Msgs \ {tab[t].msg} : message'[m] = message[m]
  BY <1>1, <1>2, <1>4, <1>5
<1> QED
  BY <1>2, <1>5, <1>6, <1>7, <1>8
-----------------------------------------------------------------------------
(* What one step of a messaging request can be.                            *)
Ends(t) == \E pc \in {"idle", "failed"} : EndTab(t, pc)

LEMMA TalkCases ==
  ASSUME NEW t \in Tabs, Talk(t) \/ CrashTab(t)
  PROVE  \/ Ends(t) /\ UNCHANGED <<message, lastMessageAt, now, heard>>
         \/ /\ LoadThread(t) /\ ~EndTab(t, "idle")
            /\ UNCHANGED <<message, lastMessageAt, now, heard>>
         \/ /\ Gate(t) /\ ~EndTab(t, "idle")
            /\ UNCHANGED <<message, lastMessageAt, now, heard>>
         \/ /\ Insert(t) /\ Live(tab[t].ping)
            /\ UNCHANGED <<message, lastMessageAt, heard>>
         \/ Commit(t) /\ UNCHANGED <<now, heard, tabShut>>
         \/ EmitMessage(t) /\ EndTab(t, "idle") /\ UNCHANGED <<message, lastMessageAt, now>>
         \/ Mark(t) /\ EndTab(t, "idle") /\ UNCHANGED <<lastMessageAt, now, heard>>
<1>1. EndTab(t, "idle") \/ EndTab(t, "failed") => Ends(t)
  BY DEF Ends
<1>2. LoadThread(t) => UNCHANGED <<message, lastMessageAt, now, heard>>
  BY DEF LoadThread
<1>3. Gate(t) => UNCHANGED <<message, lastMessageAt, now, heard>>
  BY DEF Gate
<1>4. Insert(t) =>
        /\ UNCHANGED <<message, lastMessageAt, heard>>
        /\ ~Live(tab[t].ping) => Ends(t) /\ UNCHANGED now
  BY <1>1 DEF Insert
<1>5. Commit(t) => UNCHANGED <<now, heard, tabShut>>
  BY DEF Commit
<1>6. EmitMessage(t) => EndTab(t, "idle") /\ UNCHANGED <<message, lastMessageAt, now>>
  BY DEF EmitMessage
<1>7. Mark(t) => EndTab(t, "idle") /\ UNCHANGED <<lastMessageAt, now, heard>>
  BY DEF Mark
<1>8. CrashTab(t) => EndTab(t, "idle") /\ UNCHANGED <<message, lastMessageAt, now, heard>>
  BY DEF CrashTab
<1> QED
  BY <1>1, <1>2, <1>3, <1>4, <1>5, <1>6, <1>7, <1>8 DEF Talk

LEMMA MarkAt ==
  ASSUME TypeInv, NEW t \in Tabs, Mark(t)
  PROVE  /\ message' \in [Msgs -> MessageType]
         /\ \A m \in Msgs : /\ message'[m].state = message[m].state
                            /\ message'[m].ping = message[m].ping
                            /\ message'[m].sender = message[m].sender
<1>1. tab[t].me \in Users
  BY DEF Mark, TypeInv, TabKnows, Talking
<1>2. ASSUME NEW m \in Msgs
      PROVE  /\ message'[m] \in MessageType
             /\ message'[m].state = message[m].state
             /\ message'[m].ping = message[m].ping
             /\ message'[m].sender = message[m].sender
  <2>1. message[m] \in MessageType
    BY DEF TypeInv, ThreadsTypeOK
  <2>2. message'[m] = message[m] \/ message'[m] = [message[m] EXCEPT !.readBy = tab[t].me]
    BY DEF Mark
  <2> QED
    BY <1>1, <2>1, <2>2 DEF MessageType
<1>3. message' = [m \in Msgs |-> message'[m]]
  BY DEF Mark
<1> QED
  BY <1>2, <1>3

LEMMA CascadeAt ==
  ASSUME TypeInv, NEW gone, Cascade(gone)
  PROVE  /\ message' \in [Msgs -> MessageType]
         /\ \A m \in Msgs : message'[m].state = "SENT" =>
              message'[m] = message[m] /\ message[m].ping \notin gone
<1>1. ASSUME NEW m \in Msgs
      PROVE  /\ message'[m] \in MessageType
             /\ message'[m].state = "SENT" =>
                  message'[m] = message[m] /\ message[m].ping \notin gone
  <2>1. message[m] \in MessageType
    BY DEF TypeInv, ThreadsTypeOK
  <2>2. CASE Sent(m) /\ message[m].ping \in gone
    <3>1. message'[m] = [message[m] EXCEPT !.state = "DELETED"]
      BY <2>2 DEF Cascade
    <3> QED
      BY <2>1, <3>1 DEF MessageType
  <2>3. CASE ~(Sent(m) /\ message[m].ping \in gone)
    <3>1. message'[m] = message[m]
      BY <2>3 DEF Cascade
    <3> QED
      BY <2>1, <2>3, <3>1 DEF Sent
  <2> QED
    BY <2>2, <2>3
<1>2. message' = [m \in Msgs |-> message'[m]]
  BY DEF Cascade
<1> QED
  BY <1>1, <1>2

LEMMA ThreadsTypeStep ==
  ASSUME TypeInv, [ThreadsNext]_allVars
  PROVE  TypeInv'
<1>0. /\ TypeOK' /\ ThreadsTypeOK /\ \A t \in Tabs : TabKnows(t)
  BY TypeStep, ThreadsStepIsPingsStep DEF TypeInv, ThreadsTypeOK
<1>1. ASSUME NEW t \in Tabs, Talk(t) \/ CrashTab(t)
      PROVE  TypeInv'
  <2>0. opened' = opened
    BY <1>1, TalkIsQuiet
  <2>1. ASSUME NEW pc \in {"idle", "failed"}, EndTab(t, pc),
               message' \in [Msgs -> MessageType],
               heard' \in SUBSET Msgs, UNCHANGED <<lastMessageAt, now>>
        PROVE  TypeInv'
    <3>1. /\ tab' \in [Tabs -> TabType] /\ \A s \in Tabs : TabKnows(s)'
          /\ tabShut' = tabShut \ {t}
      BY <2>1, EndTabAt
    <3> QED
      BY <1>0, <2>0, <2>1, <3>1 DEF TypeInv, ThreadsTypeOK
  <2>2. CASE LoadThread(t) /\ ~EndTab(t, "idle") /\ UNCHANGED <<message, lastMessageAt, now, heard>>
    <3>1. /\ tab' \in [Tabs -> TabType] /\ \A s \in Tabs : TabKnows(s)'
          /\ tabShut' \in SUBSET Tabs
      BY <1>0, <2>2, LoadThreadAt DEF ThreadsTypeOK
    <3> QED
      BY <1>0, <2>0, <2>2, <3>1 DEF TypeInv, ThreadsTypeOK
  <2>3. CASE Gate(t) /\ ~EndTab(t, "idle") /\ UNCHANGED <<message, lastMessageAt, now, heard>>
    <3>1. /\ tab' \in [Tabs -> TabType] /\ \A s \in Tabs : TabKnows(s)'
          /\ tabShut' = tabShut
      BY <2>3, GateAt
    <3> QED
      BY <1>0, <2>0, <2>3, <3>1 DEF TypeInv, ThreadsTypeOK
  <2>4. CASE Insert(t) /\ Live(tab[t].ping) /\ UNCHANGED <<message, lastMessageAt, heard>>
    <3>1. /\ tab' \in [Tabs -> TabType] /\ \A s \in Tabs : TabKnows(s)'
          /\ tabShut' = tabShut /\ now' \in 0..Cardinality(Msgs)
      BY <2>4, InsertAt
    <3> QED
      BY <1>0, <2>0, <2>4, <3>1 DEF TypeInv, ThreadsTypeOK
  <2>5. CASE Commit(t) /\ UNCHANGED <<now, heard, tabShut>>
    <3>1. /\ tab' \in [Tabs -> TabType] /\ \A s \in Tabs : TabKnows(s)'
          /\ message' \in [Msgs -> MessageType]
          /\ lastMessageAt' \in [PingIds -> 0..Cardinality(Msgs)]
      BY <2>5, CommitAt
    <3> QED
      BY <1>0, <2>0, <2>5, <3>1 DEF TypeInv, ThreadsTypeOK
  <2>6. CASE EmitMessage(t) /\ EndTab(t, "idle") /\ UNCHANGED <<message, lastMessageAt, now>>
    <3>1. heard' \in SUBSET Msgs
      BY <1>0, <2>6 DEF EmitMessage, TabKnows, ThreadsTypeOK
    <3>2. message' \in [Msgs -> MessageType]
      BY <1>0, <2>6 DEF ThreadsTypeOK
    <3> QED
      BY <2>1, <2>6, <3>1, <3>2
  <2>7. CASE Mark(t) /\ EndTab(t, "idle") /\ UNCHANGED <<lastMessageAt, now, heard>>
    <3>1. message' \in [Msgs -> MessageType] /\ heard' \in SUBSET Msgs
      BY <1>0, <2>7, MarkAt DEF ThreadsTypeOK
    <3> QED
      BY <2>1, <2>7, <3>1
  <2>8. ASSUME NEW pc \in {"idle", "failed"}, EndTab(t, pc),
               UNCHANGED <<message, lastMessageAt, now, heard>>
        PROVE  TypeInv'
    <3>1. message' \in [Msgs -> MessageType] /\ heard' \in SUBSET Msgs
      BY <1>0, <2>8 DEF ThreadsTypeOK
    <3> QED
      BY <2>1, <2>8, <3>1
  <2> QED
    BY <1>1, <2>2, <2>3, <2>4, <2>5, <2>6, <2>7, <2>8, TalkCases DEF Ends
<1>2. ASSUME NEW t \in Tabs, NEW op \in {"message", "read"}, NEW u \in Users,
             NEW p \in PingIds, OpenTab(t, op, u, p)
      PROVE  TypeInv'
  <2>1. /\ tab' \in [Tabs -> TabType] /\ \A s \in Tabs : TabKnows(s)'
    BY <1>2, OpenTabAt
  <2>2. opened' = opened
    BY <1>2, TalkIsQuiet
  <2> QED
    BY <1>0, <1>2, <2>1, <2>2 DEF OpenTab, TypeInv, ThreadsTypeOK
<1>3. CASE PingStep
  <2>1. message' \in [Msgs -> MessageType]
    BY <1>3, CascadeAt DEF PingStep
  <2>2. opened' \in SUBSET PingIds /\ tabShut' \in SUBSET Tabs
    BY <1>0, <1>3 DEF PingStep, ThreadsTypeOK
  <2>3. UNCHANGED <<lastMessageAt, now, tab, heard>>
    BY <1>3 DEF PingStep
  <2> QED
    BY <1>0, <2>1, <2>2, <2>3 DEF TypeInv, ThreadsTypeOK, TabKnows, Talking
<1>4. CASE UNCHANGED allVars
  BY <1>0, <1>4 DEF allVars, threadVars, TypeInv, ThreadsTypeOK, TabKnows, Talking
<1> QED
  BY <1>1, <1>2, <1>3, <1>4 DEF ThreadsNext

LEMMA TypeInvHolds == ThreadsSpec => []TypeInv
<1>1. ThreadsInit => TypeInv
  <2> SUFFICES ASSUME ThreadsInit PROVE TypeInv
    OBVIOUS
  <2>1. TypeOK
    BY TypeInit DEF ThreadsInit
  <2>2. NoMessage \in MessageType /\ IdleTab \in TabType
    BY Stamps DEF NoMessage, MessageType, IdleTab, TabType
  <2>3. \A t \in Tabs : tab[t].pc = "idle"
    BY DEF ThreadsInit, IdleTab
  <2>4. \A t \in Tabs : TabKnows(t)
    BY <2>3 DEF TabKnows, Talking
  <2> QED
    BY <2>1, <2>2, <2>4, Stamps DEF ThreadsInit, TypeInv, ThreadsTypeOK
<1> QED
  BY <1>1, ThreadsTypeStep, PTL DEF ThreadsSpec

(* Type correctness of the composition: what the messages table, the stamps
   and the requests hold is what the handlers are written for.             *)
THEOREM ThreadsTypeCorrect == ThreadsSpec => []ThreadsTypeOK
<1>1. TypeInv => ThreadsTypeOK
  BY DEF TypeInv
<1> QED
  BY <1>1, TypeInvHolds, PTL
-----------------------------------------------------------------------------
(* Consent.  ConsentBeforeMessage is not inductive: it needs what a request *)
(* still remembers of its thread when it writes, rows that keep their       *)
(* direction for ever, and the lock that keeps a ping from being deleted    *)
(* under a transaction that has inserted.                                   *)

Within == {"gate", "insert", "commit", "mark", "emit"}

ThreadKept(t) ==
  LET p == tab[t].ping
  IN /\ tab[t].pc \in Within => row[p].state # "UNUSED" /\ tab[t].me \in PairOf(p)
     /\ tab[t].pc \in Within /\ tab[t].saw = "ACCEPTED" => p \in opened
     /\ tab[t].pc \in Within \ {"gate"} => tab[t].saw = "ACCEPTED"
     /\ tab[t].pc = "commit" => Live(p)

OpenedInv == \A p \in PingIds : row[p].state = "ACCEPTED" => p \in opened

ConsentInv == OpenedInv /\ (\A t \in Tabs : ThreadKept(t)) /\ ConsentBeforeMessage

(* What a step of Pings leaves of a thread.                                *)
LEMMA PingsKeepThreads ==
  ASSUME TypeInv, PingStep, NEW p \in PingIds, row[p].state # "UNUSED"
  PROVE  /\ row'[p].state # "UNUSED" /\ PairOf(p)' = PairOf(p)
         /\ Live(p) /\ p \notin {q \in PingIds : Live(q) /\ row'[q].state = "DELETED"}
              => Live(p)'
<1>1. RowMoves(p)
  BY RowStep, ThreadsStepIsPingsStep DEF PingStep, TypeInv, ThreadsTypeOK
<1> QED
  BY <1>1 DEF RowMoves, Live, LiveStates, PairOf

LEMMA ConsentPings ==
  ASSUME TypeInv, ConsentInv, PingStep
  PROVE  ConsentInv'
<1> DEFINE gone == {p \in PingIds : Live(p) /\ row'[p].state = "DELETED"}
<1>0. /\ ThreadsTypeOK
      /\ opened' = opened \cup {p \in PingIds : row'[p].state = "ACCEPTED"}
      /\ tab' = tab /\ Cascade(gone) /\ \A p \in gone : ~Locked(p)
  BY DEF PingStep, TypeInv
<1>1. OpenedInv'
  BY <1>0 DEF OpenedInv
<1>2. ASSUME NEW t \in Tabs PROVE ThreadKept(t)'
  <2>0. PICK p : p = tab[t].ping
    OBVIOUS
  <2>1. ThreadKept(t)
    BY DEF ConsentInv
  <2>2. CASE tab[t].pc \in Within
    <3>1. p \in PingIds /\ row[p].state # "UNUSED"
      BY <2>0, <2>1, <2>2 DEF ThreadKept, TypeInv, TabKnows, Talking, Within
    <3>2. row'[p].state # "UNUSED" /\ PairOf(p)' = PairOf(p)
      BY <3>1, PingsKeepThreads
    <3>3. tab[t].pc = "commit" => p \notin gone
      BY <1>0, <2>0 DEF Locked
    <3>4. tab[t].pc = "commit" => Live(p)'
      BY <2>0, <2>1, <3>1, <3>3, PingsKeepThreads DEF ThreadKept
    <3> QED
      BY <1>0, <2>0, <2>1, <3>2, <3>4 DEF ThreadKept, PairOf, Live
  <2>3. CASE tab[t].pc \notin Within
    BY <1>0, <2>3 DEF ThreadKept, Within
  <2> QED
    BY <2>2, <2>3
<1>3. ASSUME NEW m \in Msgs, message'[m].state = "SENT"
      PROVE  LET p == message'[m].ping
             IN p \in opened' /\ row'[p].state \in LiveStates
                /\ message'[m].sender \in {row'[p].from, row'[p].to}
  <2>0. PICK p : p = message[m].ping
    OBVIOUS
  <2>1. message'[m] = message[m] /\ p \notin gone
    BY <1>0, <1>3, <2>0, CascadeAt
  <2>2. p \in opened /\ Live(p) /\ message[m].sender \in PairOf(p)
    BY <1>3, <2>0, <2>1 DEF ConsentInv, ConsentBeforeMessage, Sent
  <2>3. p \in PingIds /\ row[p].state # "UNUSED"
    BY <1>0, <2>2 DEF ThreadsTypeOK, Live, LiveStates
  <2>4. Live(p)' /\ PairOf(p)' = PairOf(p)
    BY <2>1, <2>2, <2>3, PingsKeepThreads
  <2> QED
    BY <1>0, <2>0, <2>1, <2>2, <2>4 DEF Live, PairOf
<1>4. ConsentBeforeMessage'
  BY <1>3 DEF ConsentBeforeMessage, Sent, Live, PairOf
<1> QED
  BY <1>1, <1>2, <1>4 DEF ConsentInv

(* A messaging request moves: the others keep what they know, and of it    *)
(* and of the messages it is enough to show that they keep to the rule.    *)
LEMMA ConsentTalks ==
  ASSUME TypeInv, ConsentInv, NEW t \in Tabs, UNCHANGED <<row, opened>>,
         \A s \in Tabs \ {t} : tab'[s] = tab[s], ThreadKept(t)', ConsentBeforeMessage'
  PROVE  ConsentInv'
<1>1. ASSUME NEW s \in Tabs \ {t} PROVE ThreadKept(s)'
  <2>1. ThreadKept(s)
    BY DEF ConsentInv
  <2> QED
    BY <2>1 DEF ThreadKept, PairOf, Live
<1>2. OpenedInv'
  BY DEF ConsentInv, OpenedInv
<1> QED
  BY <1>1, <1>2 DEF ConsentInv

LEMMA ConsentTalk ==
  ASSUME TypeInv, ConsentInv, NEW t \in Tabs, Talk(t) \/ CrashTab(t)
  PROVE  ConsentInv'
<1>0. UNCHANGED <<row, opened>> /\ ThreadKept(t) /\ tab[t] \in TabType
  BY TalkIsQuiet DEF vars, ConsentInv, TypeInv, ThreadsTypeOK
<1>1. message' = message => ConsentBeforeMessage'
  BY <1>0 DEF ConsentInv, ConsentBeforeMessage, Sent, Live, PairOf
<1>2. ASSUME Ends(t), ConsentBeforeMessage' PROVE ConsentInv'
  <2>1. tab'[t].pc \in {"idle", "failed"} /\ \A s \in Tabs \ {t} : tab'[s] = tab[s]
    BY <1>2, EndTabAt DEF Ends
  <2>2. ThreadKept(t)'
    BY <2>1 DEF ThreadKept, Within
  <2> QED
    BY <1>0, <1>2, <2>1, <2>2, ConsentTalks
<1>3. CASE LoadThread(t) /\ ~EndTab(t, "idle") /\ message' = message
  <2> DEFINE p == tab[t].ping
  <2>1. /\ tab'[t].pc = "gate" /\ tab'[t].me = tab[t].me /\ tab'[t].ping = p
        /\ tab'[t].saw = row[p].state /\ Live(p) /\ tab[t].me \in PairOf(p)
        /\ \A s \in Tabs \ {t} : tab'[s] = tab[s]
    BY <1>3, LoadThreadAt
  <2>2. p \in PingIds
    BY <1>3 DEF LoadThread, TypeInv, TabKnows, Talking
  <2>3. row[p].state = "ACCEPTED" => p \in opened
    BY <2>2 DEF ConsentInv, OpenedInv
  <2>4. ThreadKept(t)'
    BY <1>0, <2>1, <2>3 DEF ThreadKept, Within, Live, LiveStates, PairOf
  <2> QED
    BY <1>0, <1>1, <1>3, <2>1, <2>4, ConsentTalks
<1>4. CASE Gate(t) /\ ~EndTab(t, "idle") /\ message' = message
  <2>1. /\ tab'[t].pc \in {"insert", "mark"} /\ tab'[t] = [tab[t] EXCEPT !.pc = tab'[t].pc]
        /\ tab[t].saw = "ACCEPTED" /\ tab[t].pc = "gate"
        /\ \A s \in Tabs \ {t} : tab'[s] = tab[s]
    BY <1>4, GateAt DEF MayTalk, Gate
  <2>2. tab'[t].ping = tab[t].ping /\ tab'[t].me = tab[t].me /\ tab'[t].saw = tab[t].saw
    BY <1>0, <2>1 DEF TabType
  <2>3. ThreadKept(t)'
    BY <1>0, <2>1, <2>2 DEF ThreadKept, Within, PairOf
  <2> QED
    BY <1>0, <1>1, <1>4, <2>1, <2>3, ConsentTalks
<1>5. CASE Insert(t) /\ Live(tab[t].ping) /\ message' = message
  <2>1. /\ tab'[t].pc = "commit" /\ tab'[t].me = tab[t].me
        /\ tab'[t].ping = tab[t].ping /\ tab'[t].saw = tab[t].saw
        /\ tab[t].pc = "insert" /\ \A s \in Tabs \ {t} : tab'[s] = tab[s]
    BY <1>5, InsertAt DEF Insert
  <2>2. ThreadKept(t)'
    BY <1>0, <1>5, <2>1 DEF ThreadKept, Within, PairOf, Live
  <2> QED
    BY <1>0, <1>1, <1>5, <2>1, <2>2, ConsentTalks
<1>6. CASE Commit(t)
  <2> DEFINE p == tab[t].ping
  <2>1. /\ tab[t].pc = "commit" /\ tab'[t] = [tab[t] EXCEPT !.pc = "emit"]
        /\ \A s \in Tabs \ {t} : tab'[s] = tab[s]
        /\ message'[tab[t].msg].ping = p /\ message'[tab[t].msg].sender = tab[t].me
        /\ \A m \in Msgs \ {tab[t].msg} : message'[m] = message[m]
    BY <1>6, CommitAt DEF Commit
  <2>2. /\ tab'[t].pc = "emit" /\ tab'[t].ping = p /\ tab'[t].me = tab[t].me
        /\ tab'[t].saw = tab[t].saw
    BY <1>0, <2>1 DEF TabType
  <2>3. Live(p) /\ p \in opened /\ tab[t].me \in PairOf(p)
    BY <1>0, <2>1 DEF ThreadKept, Within
  <2>4. ConsentBeforeMessage'
    BY <1>0, <2>1, <2>3 DEF ConsentInv, ConsentBeforeMessage, Sent, Live, PairOf
  <2>5. ThreadKept(t)'
    BY <1>0, <2>1, <2>2 DEF ThreadKept, Within, PairOf
  <2> QED
    BY <1>0, <2>1, <2>4, <2>5, ConsentTalks
<1>7. CASE Mark(t) /\ EndTab(t, "idle")
  <2>1. ConsentBeforeMessage'
    BY <1>0, <1>7, MarkAt DEF ConsentInv, ConsentBeforeMessage, Sent, Live, PairOf
  <2> QED
    BY <1>2, <1>7, <2>1 DEF Ends
<1>8. CASE EndTab(t, "idle") /\ message' = message
  BY <1>1, <1>2, <1>8 DEF Ends
<1>9. CASE Ends(t) /\ message' = message
  BY <1>1, <1>2, <1>9
<1> QED
  BY <1>3, <1>4, <1>5, <1>6, <1>7, <1>8, <1>9, TalkCases

LEMMA ConsentStep ==
  ASSUME TypeInv, ConsentInv, [ThreadsNext]_allVars
  PROVE  ConsentInv'
<1>1. ASSUME NEW t \in Tabs, NEW op \in {"message", "read"}, NEW u \in Users,
             NEW p \in PingIds, OpenTab(t, op, u, p)
      PROVE  ConsentInv'
  <2>1. tab'[t].pc = "load" /\ \A s \in Tabs \ {t} : tab'[s] = tab[s]
    BY <1>1, OpenTabAt
  <2>2. UNCHANGED <<row, opened, message>>
    BY <1>1, TalkIsQuiet DEF OpenTab, vars
  <2>3. ConsentBeforeMessage'
    BY <2>2 DEF ConsentInv, ConsentBeforeMessage, Sent, Live, PairOf
  <2>4. ThreadKept(t)'
    BY <2>1 DEF ThreadKept, Within
  <2> QED
    BY <2>1, <2>2, <2>3, <2>4, ConsentTalks
<1>2. CASE UNCHANGED allVars
  BY <1>2 DEF allVars, threadVars, vars, ConsentInv, OpenedInv, ThreadKept,
     ConsentBeforeMessage, Sent, Live, PairOf
<1> QED
  BY <1>1, <1>2, ConsentPings, ConsentTalk DEF ThreadsNext

(* Whatever decision, withdrawal or block races with the request that sends
   it, a message exists only in a thread that was accepted and is not
   withdrawn, and is by one of the two.                                    *)
THEOREM ConsentComesFirst == ThreadsSpec => []ConsentBeforeMessage
<1>1. ThreadsInit => ConsentInv
  <2> SUFFICES ASSUME ThreadsInit PROVE ConsentInv
    OBVIOUS
  <2>1. \A t \in Tabs : tab[t].pc = "idle"
    BY DEF ThreadsInit, IdleTab
  <2>2. \A m \in Msgs : message[m].state = "UNUSED"
    BY DEF ThreadsInit, NoMessage
  <2>3. \A p \in PingIds : row[p].state = "UNUSED"
    BY DEF ThreadsInit, Init, NoRow
  <2> QED
    BY <2>1, <2>2, <2>3
       DEF ConsentInv, OpenedInv, ThreadKept, Within, ConsentBeforeMessage, Sent
<1>2. ConsentInv => ConsentBeforeMessage
  BY DEF ConsentInv
<1> QED
  BY <1>1, <1>2, ConsentStep, TypeInvHolds, PTL DEF ThreadsSpec

-----------------------------------------------------------------------------
(* Blocks close threads.  What tabShut records has to be true as well: a   *)
(* request is in it only while its two people are blocked.                 *)

ShutInv ==
  /\ BlocksCloseThreads
  /\ \A t \in tabShut : Blocked(tab[t].me, tab[t].other)

(* A messaging request moves, and the blocks stay as they are.             *)
LEMMA ShutTalks ==
  ASSUME TypeInv, ShutInv, NEW t \in Tabs, blocks' = blocks,
         \A s \in Tabs \ {t} : tab'[s] = tab[s] /\ (s \in tabShut' => s \in tabShut),
         tabShut' \in SUBSET Tabs,
         t \in tabShut' => /\ BlockedIn(blocks, tab'[t].me, tab'[t].other)
                           /\ tab'[t].pc \notin {"insert", "commit", "mark", "emit"}
  PROVE  ShutInv'
BY DEF ShutInv, BlocksCloseThreads, Blocked

LEMMA ShutTalk ==
  ASSUME TypeInv, ShutInv, NEW t \in Tabs, Talk(t) \/ CrashTab(t)
  PROVE  ShutInv'
<1>0. /\ blocks' = blocks /\ tab[t] \in TabType /\ tabShut \in SUBSET Tabs
      /\ tabShut' \in SUBSET Tabs
      /\ t \in tabShut =>
           /\ BlockedIn(blocks, tab[t].me, tab[t].other)
           /\ tab[t].pc \notin {"insert", "commit", "mark", "emit"}
  <2>1. ThreadsTypeOK'
    BY ThreadsTypeStep DEF ThreadsNext, TypeInv
  <2> QED
    BY <2>1, TalkIsQuiet
       DEF vars, TypeInv, ThreadsTypeOK, ShutInv, BlocksCloseThreads, Blocked
<1>1. CASE Ends(t)
  <2>1. tabShut' = tabShut \ {t} /\ \A s \in Tabs \ {t} : tab'[s] = tab[s]
    BY <1>1, EndTabAt DEF Ends
  <2> QED
    BY <1>0, <2>1, ShutTalks
<1>2. CASE LoadThread(t) /\ ~EndTab(t, "idle")
  <2>1. /\ tab'[t].pc = "gate" /\ tab'[t].me = tab[t].me
        /\ tabShut' = IF Blocked(tab[t].me, tab'[t].other) THEN tabShut \cup {t}
                                                          ELSE tabShut \ {t}
        /\ \A s \in Tabs \ {t} : tab'[s] = tab[s]
    BY <1>2, LoadThreadAt
  <2> QED
    BY <1>0, <2>1, ShutTalks DEF Blocked
<1>3. CASE Gate(t) /\ ~EndTab(t, "idle")
  <2>1. ~Blocked(tab[t].me, tab[t].other) /\ tabShut' = tabShut
        /\ \A s \in Tabs \ {t} : tab'[s] = tab[s]
    BY <1>3, GateAt DEF MayTalk
  <2>2. t \notin tabShut
    BY <1>0, <2>1 DEF Blocked
  <2> QED
    BY <1>0, <2>1, <2>2, ShutTalks
<1>4. CASE Insert(t) /\ Live(tab[t].ping)
  <2>1. /\ tabShut' = tabShut /\ tab[t].pc = "insert"
        /\ \A s \in Tabs \ {t} : tab'[s] = tab[s]
    BY <1>4, InsertAt DEF Insert
  <2> QED
    BY <1>0, <2>1, ShutTalks
<1>5. CASE Commit(t)
  <2>1. /\ tabShut' = tabShut /\ tab[t].pc = "commit"
        /\ \A s \in Tabs \ {t} : tab'[s] = tab[s]
    BY <1>5, CommitAt DEF Commit
  <2> QED
    BY <1>0, <2>1, ShutTalks
<1> QED
  BY <1>1, <1>2, <1>3, <1>4, <1>5, TalkCases DEF Ends

LEMMA ShutStep ==
  ASSUME TypeInv, ShutInv, [ThreadsNext]_allVars
  PROVE  ShutInv'
<1>1. ASSUME NEW t \in Tabs, NEW op \in {"message", "read"}, NEW u \in Users,
             NEW p \in PingIds, OpenTab(t, op, u, p)
      PROVE  ShutInv'
  <2>1. /\ \A s \in Tabs \ {t} : tab'[s] = tab[s]
        /\ tabShut' = tabShut \ {t} /\ blocks' = blocks
    BY <1>1, OpenTabAt, TalkIsQuiet DEF OpenTab, vars
  <2> QED
    BY <2>1, ShutTalks DEF TypeInv, ThreadsTypeOK
<1>2. CASE PingStep
  BY <1>2 DEF PingStep, ShutInv, BlocksCloseThreads, Blocked
<1>3. CASE UNCHANGED allVars
  BY <1>3 DEF allVars, threadVars, vars, ShutInv, BlocksCloseThreads, Blocked, BlockedIn
<1> QED
  BY <1>1, <1>2, <1>3, ShutTalk DEF ThreadsNext

(* A message is written, and messages are marked read, only if the pair was
   unblocked at some moment since the handler knew it.                     *)
THEOREM BlocksReachThreads == ThreadsSpec => []BlocksCloseThreads
<1>1. ThreadsInit => ShutInv
  BY DEF ThreadsInit, ShutInv, BlocksCloseThreads
<1>2. ShutInv => BlocksCloseThreads
  BY DEF ShutInv
<1> QED
  BY <1>1, <1>2, ShutStep, TypeInvHolds, PTL DEF ThreadsSpec
=============================================================================
