------------------------------ MODULE Threads ------------------------------
(***************************************************************************)
(* Messages inside a ping (modules/pings/pings.service.ts: sendMessage,    *)
(* markRead, and the gate loadParticipating), composed with the requests   *)
(* of Pings that decide, withdraw and block at the same time.              *)
(*                                                                         *)
(* sendMessage writes in a transaction of two statements.  The insert      *)
(* checks the foreign key and holds a key-share lock on the ping until the *)
(* transaction ends, which an update of the ping does not wait for and a   *)
(* delete of it does.                                                      *)
(***************************************************************************)
EXTENDS Pings

CONSTANTS
  Msgs,    \* message ids: bounds the messages ever inserted
  Tabs,    \* messaging requests in flight at once
  NoMsg,   \* stands for "no message yet" in a request
  TabsCrash  \* whether an API instance may die under a messaging request

ASSUME ThreadsAssumption ==
  IsFiniteSet(Msgs) /\ NoMsg \notin Msgs /\ TabsCrash \in BOOLEAN

VARIABLES
  message,        \* the messages table, by id; committed rows only
  lastMessageAt,  \* pings.last_message_at; 0 is NULL
  now,            \* the stamps handed out by sent_at's default, in order
  tab,            \* the messaging requests in flight
  heard,          \* messages announced with MESSAGE_NEW
  opened,         \* history: the pings that were ACCEPTED at some time
  tabShut         \* history: the tabs whose pair was blocked ever since load

threadVars == <<message, lastMessageAt, now, tab, heard,
                opened, tabShut>>

allVars == <<vars, threadVars>>

NoMessage == [state |-> "UNUSED", ping |-> NoPing, sender |-> NoUser,
              sentAt |-> 0, readBy |-> NoUser]

(* readBy stands for read_at: who set it.                                  *)
MessageType ==
  [state : {"UNUSED", "SENT", "DELETED"}, ping : PingIds \cup {NoPing},
   sender : Users \cup {NoUser}, sentAt : 0..Cardinality(Msgs),
   readBy : Users \cup {NoUser}]

IdleTab == [op |-> "none", pc |-> "idle", me |-> NoUser, other |-> NoUser,
            ping |-> NoPing, saw |-> "UNUSED", msg |-> NoMsg, sentAt |-> 0]

TabType ==
  [op : {"none", "message", "read"},
   pc : {"idle", "failed", "load", "gate", "insert", "commit", "mark", "emit"},
   me : Users \cup {NoUser}, other : Users \cup {NoUser},
   ping : PingIds \cup {NoPing}, saw : LiveStates \cup {"UNUSED"},
   msg : Msgs \cup {NoMsg}, sentAt : 0..Cardinality(Msgs)]

ThreadsTypeOK ==
  /\ TypeOK
  /\ message \in [Msgs -> MessageType]
  /\ lastMessageAt \in [PingIds -> 0..Cardinality(Msgs)]
  /\ now \in 0..Cardinality(Msgs)
  /\ tab \in [Tabs -> TabType]
  /\ heard \in SUBSET Msgs
  /\ opened \in SUBSET PingIds
  /\ tabShut \in SUBSET Tabs

ThreadsInit ==
  /\ Init
  /\ message = [m \in Msgs |-> NoMessage]
  /\ lastMessageAt = [p \in PingIds |-> 0]
  /\ now = 0
  /\ tab = [t \in Tabs |-> IdleTab]
  /\ heard = {}
  /\ opened = {}
  /\ tabShut = {}

-----------------------------------------------------------------------------
Sent(m) == message[m].state = "SENT"

Thread(p) == {m \in Msgs : Sent(m) /\ message[m].ping = p}

Talking(t) == tab[t].pc \notin {"idle", "failed"}

(* A transaction that has inserted holds the key-share lock on its ping.   *)
Locked(p) == \E t \in Tabs : tab[t].pc = "commit" /\ tab[t].ping = p

Advance(t, pc) == tab' = [tab EXCEPT ![t].pc = pc]

EndTab(t, pc) == /\ tab' = [tab EXCEPT ![t] = [IdleTab EXCEPT !.pc = pc]]
                 /\ tabShut' = tabShut \ {t}

(* What the messaging handlers leave alone.                                *)
Quiet == UNCHANGED <<vars, opened>>

-----------------------------------------------------------------------------
OpenTab(t, op, u, p) ==
  /\ ~Talking(t)
  /\ row[p].state # "UNUSED"
  /\ tab' = [tab EXCEPT ![t] = [IdleTab EXCEPT !.op = op, !.pc = "load",
                                               !.me = u, !.ping = p]]
  /\ tabShut' = tabShut \ {t}
  /\ Quiet /\ UNCHANGED <<message, lastMessageAt, now, heard>>

(* loadParticipating, first await: the row, and from it the other user.    *)
LoadThread(t) ==
  LET u == tab[t].me
      p == tab[t].ping
  IN /\ tab[t].pc = "load"
     /\ \/ ~(Live(p) /\ u \in PairOf(p)) /\ EndTab(t, "idle")
        \/ /\ Live(p)
           /\ u \in PairOf(p)
           /\ \E other \in PairOf(p) \ {u} :
                /\ tab' = [tab EXCEPT ![t].pc = "gate", ![t].other = other,
                                      ![t].saw = row[p].state]
                /\ tabShut' = IF Blocked(u, other) THEN tabShut \cup {t}
                                                   ELSE tabShut \ {t}
     /\ Quiet /\ UNCHANGED <<message, lastMessageAt, now, heard>>

AfterGate(op) == IF op = "message" THEN "insert" ELSE "mark"

(* Mutant: the gate tests the state only, as if accepting had settled who  *)
(* may talk.                                                               *)
MayTalkBlocked(t) == tab[t].saw = "ACCEPTED"

(* Second await: blocks, and then the state as the first await saw it.     *)
MayTalk(t) == ~Blocked(tab[t].me, tab[t].other) /\ tab[t].saw = "ACCEPTED"

Gate(t) ==
  /\ tab[t].pc = "gate"
  /\ \/ MayTalk(t) /\ Advance(t, AfterGate(tab[t].op)) /\ UNCHANGED tabShut
     \/ ~MayTalk(t) /\ EndTab(t, "idle")
  /\ Quiet /\ UNCHANGED <<message, lastMessageAt, now, heard>>

(* The bound on messages: one stamp each, burnt if the insert rolls back.  *)
Fresh(m) ==
  /\ now < Cardinality(Msgs)
  /\ message[m].state = "UNUSED"
  /\ \A t \in Tabs : tab[t].msg # m

(* Mutant: a failed insert is swallowed, and the event goes out all the    *)
(* same.                                                                   *)
InsertSwallowed(t) ==
  /\ tab[t].pc = "insert"
  /\ \/ ~Live(tab[t].ping) /\ tab' = [tab EXCEPT ![t].pc = "emit"] /\ UNCHANGED now
     \/ /\ Live(tab[t].ping)
        /\ \E m \in Msgs :
             /\ Fresh(m)
             /\ now' = now + 1
             /\ tab' = [tab EXCEPT ![t].pc = "commit", ![t].msg = m,
                                   ![t].sentAt = now + 1]
  /\ UNCHANGED tabShut
  /\ Quiet /\ UNCHANGED <<message, lastMessageAt, heard>>

(* The insert takes its stamp and the lock; a ping that is gone breaks the *)
(* foreign key, hence a 500.                                               *)
Insert(t) ==
  /\ tab[t].pc = "insert"
  /\ \/ ~Live(tab[t].ping) /\ EndTab(t, "failed") /\ UNCHANGED now
     \/ /\ Live(tab[t].ping)
        /\ \E m \in Msgs :
             /\ Fresh(m)
             /\ now' = now + 1
             /\ tab' = [tab EXCEPT ![t].pc = "commit", ![t].msg = m,
                                   ![t].sentAt = now + 1]
        /\ UNCHANGED tabShut
  /\ Quiet /\ UNCHANGED <<message, lastMessageAt, heard>>

(* The update of the ping and the commit: both rows become visible.        *)
Commit(t) ==
  LET m == tab[t].msg
      p == tab[t].ping
  IN /\ tab[t].pc = "commit"
     /\ message' = [message EXCEPT ![m] =
                      [state |-> "SENT", ping |-> p, sender |-> tab[t].me,
                       sentAt |-> tab[t].sentAt, readBy |-> NoUser]]
     /\ lastMessageAt' = [lastMessageAt EXCEPT ![p] = tab[t].sentAt]
     /\ Advance(t, "emit")
     /\ UNCHANGED <<now, heard, tabShut>> /\ Quiet

(* counterpartOf is awaited between the commit and the event.              *)
EmitMessage(t) ==
  /\ tab[t].op = "message" /\ tab[t].pc = "emit"
  /\ heard' = heard \cup {tab[t].msg}
  /\ EndTab(t, "idle")
  /\ Quiet /\ UNCHANGED <<message, lastMessageAt, now>>

(* markRead is one updateMany; its event follows the reply without await.  *)
Unread(p, u) == {m \in Thread(p) : message[m].sender # u /\ message[m].readBy = NoUser}

Mark(t) ==
  LET u == tab[t].me
      marked == Unread(tab[t].ping, u)
  IN /\ tab[t].pc = "mark"
     /\ message' = [m \in Msgs |-> IF m \in marked THEN [message[m] EXCEPT !.readBy = u]
                                                   ELSE message[m]]
     /\ EndTab(t, "idle")
     /\ Quiet /\ UNCHANGED <<lastMessageAt, now, heard>>

(* A crash inside the transaction rolls it back and frees the lock.        *)
CrashTab(t) ==
  /\ TabsCrash /\ Talking(t)
  /\ EndTab(t, "idle")
  /\ Quiet /\ UNCHANGED <<message, lastMessageAt, now, heard>>

-----------------------------------------------------------------------------
(* The steps of Pings, with what they do to threads: a delete waits for    *)
(* the key-share locks, and cascades; an unblock may end what tabShut says.*)

(* Mutant: the foreign key does not cascade.                               *)
NoCascade(gone) == UNCHANGED message

Cascade(gone) ==
  message' = [m \in Msgs |-> IF Sent(m) /\ message[m].ping \in gone
                             THEN [message[m] EXCEPT !.state = "DELETED"]
                             ELSE message[m]]

PingStep ==
  /\ Next
  /\ LET gone == {p \in PingIds : Live(p) /\ row'[p].state = "DELETED"}
     IN (\A p \in gone : ~Locked(p)) /\ Cascade(gone)
  /\ opened' = opened \cup {p \in PingIds : row'[p].state = "ACCEPTED"}
  /\ tabShut' = {t \in tabShut : BlockedIn(blocks', tab[t].me, tab[t].other)}
  /\ UNCHANGED <<lastMessageAt, now, tab, heard>>

Talk(t) ==
  \/ LoadThread(t) \/ Gate(t) \/ Insert(t) \/ Commit(t) \/ EmitMessage(t) \/ Mark(t)

ThreadsNext ==
  \/ PingStep
  \/ \E t \in Tabs : Talk(t) \/ CrashTab(t)
  \/ \E t \in Tabs, op \in {"message", "read"}, u \in Users, p \in PingIds :
       OpenTab(t, op, u, p)

ThreadsSpec == ThreadsInit /\ [][ThreadsNext]_allVars

-----------------------------------------------------------------------------
(* A message exists only in a thread whose recipient has accepted and that
   was not withdrawn, and only by one of the two; whatever raced with the
   request that sent it.                                                   *)
ConsentBeforeMessage ==
  \A m \in Msgs : Sent(m) =>
    LET p == message[m].ping
    IN p \in opened /\ Live(p) /\ message[m].sender \in PairOf(p)

(* A message is written, and messages are marked read, only if the pair was
   unblocked at some moment since the handler knew it.                     *)
BlocksCloseThreads ==
  \A t \in Tabs : tab[t].pc \in {"insert", "commit", "mark", "emit"} => t \notin tabShut
=============================================================================
