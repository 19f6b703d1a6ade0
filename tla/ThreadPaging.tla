---------------------------- MODULE ThreadPaging ----------------------------
(***************************************************************************)
(* One thread of messages, written by transactions and read page by page   *)
(* (modules/pings/pings.service.ts: sendMessage, getThread, and what       *)
(* listChats sorts by).  A message takes its stamp when it is inserted and *)
(* can be read when its transaction commits, so messages may appear behind *)
(* others with a later stamp, and two may have the same stamp, which has   *)
(* milliseconds.  The pages are sorted by the stamp alone.                 *)
(*                                                                         *)
(* Who may write and read is in Threads: here a gate lets a reader in or   *)
(* does not.                                                               *)
(***************************************************************************)
EXTENDS Integers, FiniteSets

CONSTANTS
  Mails,      \* the messages of the thread
  Take,       \* the size of a page
  LastStamp,  \* bounds the clock
  NoMail      \* no cursor

ASSUME PagingAssumption ==
  /\ IsFiniteSet(Mails) /\ NoMail \notin Mails
  /\ Take \in Nat \ {0} /\ LastStamp \in Nat \ {0}

VARIABLES
  clock,          \* the database's
  exists,         \* whether the ping's row does
  mail,           \* each message, and where its transaction is
  lastMessageAt,  \* pings.last_message_at; 0 is NULL
  overlap,        \* history: the pairs whose transactions overlapped
  reader,         \* a reader's request, and its cursor
  shown,          \* history: what the pages so far have shown
  reshown,        \* history: what more than one of them has
  kept,           \* history: committed all along, with a stamp of its own
  outside         \* history: not committed all along

writing == <<clock, exists, mail, lastMessageAt, overlap>>
reading == <<reader, shown, reshown, kept, outside>>
pagingVars == <<writing, reading>>

PagingTypeOK ==
  /\ clock \in 1..LastStamp
  /\ exists \in BOOLEAN
  /\ mail \in [Mails -> [pc : {"none", "inserted", "updated", "committed", "gone"},
                         sentAt : 0..LastStamp]]
  /\ lastMessageAt \in 0..LastStamp
  /\ overlap \subseteq Mails \X Mails
  /\ reader \in [pc : {"closed", "broken", "page", "find", "end"}, cursor : Mails \cup {NoMail}]
  /\ shown \subseteq Mails /\ reshown \subseteq shown
  /\ kept \subseteq Mails /\ outside \subseteq Mails

PagingInit ==
  /\ clock = 1 /\ exists = TRUE
  /\ mail = [m \in Mails |-> [pc |-> "none", sentAt |-> 0]]
  /\ lastMessageAt = 0
  /\ overlap = {}
  /\ reader = [pc |-> "closed", cursor |-> NoMail]
  /\ shown = {} /\ reshown = {} /\ kept = {} /\ outside = {}

-----------------------------------------------------------------------------
InFlight == {m \in Mails : mail[m].pc \in {"inserted", "updated"}}

Committed == {m \in Mails : mail[m].pc = "committed"}

Untied == {m \in Committed : \A n \in Committed \ {m} : mail[n].sentAt # mail[m].sentAt}

Reads == reader.pc \notin {"closed", "broken"}

Goes(m, pc) == mail' = [mail EXCEPT ![m].pc = pc]

Unread ==
  /\ kept' = kept \cap Untied'
  /\ outside' = outside \ Committed'
  /\ UNCHANGED <<reader, shown, reshown>>

-----------------------------------------------------------------------------
(* sendMessage, past the gate.  The insert takes the stamp, and breaks the *)
(* foreign key if the ping is gone, which the bound on messages leaves out. *)
InsertMail(m) ==
  /\ mail[m].pc = "none" /\ exists
  /\ mail' = [mail EXCEPT ![m] = [pc |-> "inserted", sentAt |-> clock]]
  /\ overlap' = overlap \cup ({m} \X InFlight) \cup (InFlight \X {m})
  /\ UNCHANGED <<clock, exists, lastMessageAt>> /\ Unread

(* The update of the ping locks its row until the transaction ends.        *)
UpdatePing(m) ==
  /\ mail[m].pc = "inserted"
  /\ \A n \in Mails : mail[n].pc # "updated"
  /\ Goes(m, "updated")
  /\ UNCHANGED <<clock, exists, lastMessageAt, overlap>> /\ Unread

(* Mutant: without a transaction, the message is there from the insert on. *)
CommitMailOnly(m) ==
  /\ mail[m].pc = "updated"
  /\ Goes(m, "committed")
  /\ lastMessageAt' = IF lastMessageAt = 0 THEN mail[m].sentAt ELSE lastMessageAt
  /\ UNCHANGED <<clock, exists, overlap>> /\ Unread

CommitMail(m) ==
  /\ mail[m].pc = "updated"
  /\ Goes(m, "committed")
  /\ lastMessageAt' = mail[m].sentAt
  /\ UNCHANGED <<clock, exists, overlap>> /\ Unread

(* A statement fails, or the instance dies: nothing was written.           *)
RollBack(m) ==
  /\ m \in InFlight
  /\ Goes(m, "gone")
  /\ UNCHANGED <<clock, exists, lastMessageAt, overlap>> /\ Unread

(* withdraw, which had read the ping before it was accepted: the delete    *)
(* waits for the inserts' locks, and cascades.                             *)
DeletePing ==
  /\ exists /\ InFlight = {}
  /\ exists' = FALSE
  /\ mail' = [m \in Mails |-> [mail[m] EXCEPT !.pc = "gone"]]
  /\ UNCHANGED <<clock, lastMessageAt, overlap>> /\ Unread

TickClock ==
  /\ clock < LastStamp
  /\ clock' = clock + 1
  /\ UNCHANGED <<exists, mail, lastMessageAt, overlap, reading>>

-----------------------------------------------------------------------------
OpenThread ==
  /\ ~Reads
  /\ reader' = [pc |-> "page", cursor |-> NoMail]
  /\ kept' = Untied /\ outside' = Mails \ Committed
  /\ UNCHANGED <<writing, shown, reshown>>

EndReading(pc) ==
  /\ reader' = [pc |-> pc, cursor |-> NoMail]
  /\ shown' = {} /\ reshown' = {} /\ kept' = {} /\ outside' = {}
  /\ UNCHANGED writing

CloseThread == reader.pc = "page" /\ EndReading("broken")

(* nextCursor was null.                                                    *)
ReadAll == reader.pc = "end" /\ EndReading("closed")

(* getThread: loadParticipating answers 404 whenever it wants to.          *)
GateReader ==
  /\ reader.pc = "page"
  /\ \/ EndReading("broken")
     \/ /\ exists
        /\ reader' = [reader EXCEPT !.pc = "find"]
        /\ UNCHANGED <<writing, shown, reshown, kept, outside>>

(* orderBy sentAt desc, from the cursor's stamp on.  A cursor that is gone
   has no stamp, and nothing follows it.                                   *)
FromCursor ==
  IF reader.cursor = NoMail THEN Committed
  ELSE {m \in Committed : /\ reader.cursor \in Committed
                          /\ mail[m].sentAt <= mail[reader.cursor].sentAt}

(* Mutant: without skip: 1 the page starts with the cursor once more.      *)
SkipNothing == {{}}

(* skip: 1 skips the cursor; but where stamps are equal, their order is the
   query's own, and it may skip others of them, more or less.              *)
Skipped ==
  LET ties == {m \in FromCursor : mail[m].sentAt = mail[reader.cursor].sentAt}
  IN IF reader.cursor = NoMail \/ FromCursor = {} THEN {{}} ELSE {some \in SUBSET ties : some # {}}

Newest(page, rest) ==
  /\ page \subseteq rest
  /\ \A m \in page, n \in rest \ page : mail[n].sentAt <= mail[m].sentAt

(* take + 1 tells whether there is more.                                   *)
FindMany ==
  /\ reader.pc = "find"
  /\ \E skipped \in Skipped :
       LET rest == FromCursor \ skipped
       IN \/ /\ Cardinality(rest) > Take
             /\ \E page \in SUBSET rest, last \in rest :
                  /\ Cardinality(page) = Take /\ last \in page
                  /\ Newest(page, rest) /\ Newest(page \ {last}, page)
                  /\ reader' = [pc |-> "page", cursor |-> last]
                  /\ shown' = shown \cup page
                  /\ reshown' = reshown \cup (page \cap shown)
          \/ /\ Cardinality(rest) <= Take
             /\ reader' = [pc |-> "end", cursor |-> NoMail]
             /\ shown' = shown \cup rest
             /\ reshown' = reshown \cup (rest \cap shown)
  /\ UNCHANGED <<writing, kept, outside>>

PagingNext ==
  \/ \E m \in Mails : InsertMail(m) \/ UpdatePing(m) \/ CommitMail(m) \/ RollBack(m)
  \/ DeletePing \/ TickClock
  \/ OpenThread \/ CloseThread \/ ReadAll \/ GateReader \/ FindMany

PagingSpec == PagingInit /\ [][PagingNext]_pagingVars

-----------------------------------------------------------------------------
MailList == INSTANCE Listing WITH
  Items <- Mails,
  phase <- IF Reads THEN "open" ELSE reader.pc,
  listed <- shown, twice <- reshown, steady <- kept, absent <- outside

(* getThread: "skip-based paging silently repeats or drops messages as new
   ones arrive"; pages from a cursor do neither, for the messages that were
   committed before the first page and share their stamp with no other.    *)
ThreadIsListing == MailList!Spec

(* sendMessage: "the Chats list can never show a conversation ordered by a
   message that was not written".  lastMessageAt is the stamp of a message,
   and a newer one can only have been sent while that one was.             *)
ActivityLags ==
  exists =>
    /\ Committed # {} => lastMessageAt # 0
    /\ lastMessageAt # 0 =>
         \E m \in Committed :
           /\ mail[m].sentAt = lastMessageAt
           /\ \A n \in Committed : mail[n].sentAt > lastMessageAt => <<m, n>> \in overlap
=============================================================================
