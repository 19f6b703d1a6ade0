------------------------------ MODULE Location ------------------------------
(***************************************************************************)
(* One user's row in user_locations (modules/grid/grid.service.ts:         *)
(* updateLocation, deleteLocation, isOnline), and the client that reports  *)
(* where it is.  A report reads the stored row, and is dropped if the user *)
(* has neither moved far nor been silent long; otherwise it writes, one    *)
(* await later, whatever the row has become.  The time of the last write   *)
(* is all there is to tell who is online (D-052).                          *)
(*                                                                         *)
(* Time is counted in ticks.  A client that is active reports at least     *)
(* every Period, and a report is dealt with in at most Latency: a tick     *)
(* waits for what is due.  Places are points on a line.                    *)
(***************************************************************************)
EXTENDS Integers

CONSTANTS
  Places,           \* where the user may be, on a line
  NoPlace,          \* the row does not exist
  Reports,          \* reports in flight at once
  DebounceMeters,   \* GRID_DEBOUNCE_METERS
  DebounceSeconds,  \* GRID_DEBOUNCE_SECONDS, in ticks
  OnlineWindow,     \* GRID_ONLINE_WINDOW_SECONDS, in ticks
  Period,           \* an active client reports at least this often
  Latency           \* how long a report may take

(* env.schema.ts checks these at boot; Period and Latency are the world's.  *)
ValidConfig ==
  /\ DebounceMeters \in Nat /\ DebounceSeconds \in Nat /\ OnlineWindow \in Nat
  /\ OnlineWindow > DebounceSeconds

ASSUME LocationAssumption ==
  /\ Places \subseteq Int /\ NoPlace \notin Places
  /\ ValidConfig
  /\ Period \in Nat \ {0} /\ Latency \in Nat \ {0}

VARIABLES
  stored,   \* geog of the row
  age,      \* ticks since updated_at
  report,   \* the calls of updateLocation in flight
  active,   \* whether the client is running
  idle,     \* ticks since it last reported
  since,    \* history: ticks since it started, or since a loss
  recent    \* history: where the row may rightly say the user is

locationVars == <<stored, age, report, active, idle, since, recent>>

(* No report lets an active user's row grow older than this.               *)
FreshFor == DebounceSeconds + Period + Latency

(* Bounds of the counters: where a comparison cannot change any more.      *)
Oldest == OnlineWindow + FreshFor
Longest == Period + Latency + 1

NoReport == [pc |-> "none", place |-> NoPlace, late |-> 0]

ReportType == {NoReport} \cup [pc : {"read", "write"}, place : Places, late : 0..Latency]

LocationTypeOK ==
  /\ stored \in Places \cup {NoPlace}
  /\ age \in 0..Oldest
  /\ report \in [Reports -> ReportType]
  /\ active \in BOOLEAN
  /\ idle \in 0..Period
  /\ since \in 0..Longest
  /\ recent \in SUBSET Places

LocationInit ==
  /\ stored = NoPlace
  /\ age = 0
  /\ report = [s \in Reports |-> NoReport]
  /\ active = FALSE
  /\ idle = 0
  /\ since = 0
  /\ recent = {}

-----------------------------------------------------------------------------
Pending(s) == report[s].pc # "none"

Quiescent == \A s \in Reports : ~Pending(s)

(* ST_Distance, in both of its uses here.                                  *)
Meters(p, q) == IF p < q THEN q - p ELSE p - q

Near(p, q) == Meters(p, q) <= DebounceMeters

Ends(s) == report' = [report EXCEPT ![s] = NoReport]

(* Once more than the bound is as good as ever more.                       *)
Later(n, bound) == IF n < bound THEN n + 1 ELSE n

-----------------------------------------------------------------------------
(* The client.                                                             *)
Start ==
  /\ ~active
  /\ active' = TRUE /\ idle' = 0 /\ since' = 0
  /\ UNCHANGED <<stored, age, report, recent>>

Stop ==
  /\ active
  /\ active' = FALSE /\ idle' = 0
  /\ UNCHANGED <<stored, age, report, since, recent>>

(* What is reported while nothing is in flight replaces what went before.  *)
Post(s, place) ==
  /\ active
  /\ ~Pending(s)
  /\ report' = [report EXCEPT ![s] = [pc |-> "read", place |-> place, late |-> 0]]
  /\ idle' = 0
  /\ recent' = (IF Quiescent THEN {} ELSE recent) \cup {place}
  /\ UNCHANGED <<stored, age, active, since>>

-----------------------------------------------------------------------------
(* updateLocation.                                                         *)

(* Mutant: one of the two reasons is enough to drop a report.              *)
DebouncedByEither(s) ==
  stored # NoPlace /\ (Near(stored, report[s].place) \/ age <= DebounceSeconds)

(* Mutant: standing still, for however long, is no reason to write.        *)
DebouncedByDistance(s) == stored # NoPlace /\ Near(stored, report[s].place)

Debounced(s) ==
  /\ stored # NoPlace
  /\ Near(stored, report[s].place)
  /\ age <= DebounceSeconds

ReadPrevious(s) ==
  /\ report[s].pc = "read"
  /\ \/ Debounced(s) /\ Ends(s)
     \/ ~Debounced(s) /\ report' = [report EXCEPT ![s].pc = "write"]
  /\ UNCHANGED <<stored, age, active, idle, since, recent>>

(* INSERT ... ON CONFLICT DO UPDATE: both points and the time at once.     *)
Upsert(s) ==
  /\ report[s].pc = "write"
  /\ stored' = report[s].place
  /\ age' = 0
  /\ Ends(s)
  /\ UNCHANGED <<active, idle, since, recent>>

(* The instance that handles a report dies.  The row keeps what it says.   *)
Die(s) ==
  /\ Pending(s)
  /\ Ends(s)
  /\ since' = 0
  /\ recent' = recent \cup ({stored} \ {NoPlace})
  /\ UNCHANGED <<stored, age, active, idle>>

-----------------------------------------------------------------------------
(* deleteLocation.  A report in flight will write all the same.            *)
DeleteLocation ==
  /\ stored' = NoPlace /\ age' = 0
  /\ since' = 0
  /\ recent' = {report[s].place : s \in {r \in Reports : Pending(r)}}
  /\ UNCHANGED <<report, active, idle>>

(* The table is UNLOGGED: a crash of the database empties it, and fails    *)
(* whatever was in flight.                                                 *)
DatabaseCrash ==
  /\ stored' = NoPlace /\ age' = 0
  /\ report' = [s \in Reports |-> NoReport]
  /\ since' = 0
  /\ recent' = {}
  /\ UNCHANGED <<active, idle>>

Tick ==
  /\ active => idle < Period
  /\ \A s \in Reports : Pending(s) => report[s].late < Latency
  /\ age' = IF stored = NoPlace THEN 0 ELSE Later(age, Oldest)
  /\ idle' = IF active THEN idle + 1 ELSE idle
  /\ since' = Later(since, Longest)
  /\ report' = [s \in Reports |->
                  IF Pending(s) THEN [report[s] EXCEPT !.late = @ + 1] ELSE report[s]]
  /\ UNCHANGED <<stored, active, recent>>

LocationNext ==
  \/ Start \/ Stop
  \/ \E s \in Reports, place \in Places : Post(s, place)
  \/ \E s \in Reports : ReadPrevious(s) \/ Upsert(s) \/ Die(s)
  \/ DeleteLocation
  \/ DatabaseCrash
  \/ Tick

LocationSpec == LocationInit /\ [][LocationNext]_locationVars

-----------------------------------------------------------------------------
(* The filter onlyOnline, in SQL, and isOnline, in the answer: they differ *)
(* at the edge of the window.                                              *)
OnlineFilter == stored # NoPlace /\ age < OnlineWindow
IsOnline == stored # NoPlace /\ age <= OnlineWindow

(* When no report is in flight, the row says within DebounceMeters where one
   of the last reports was made: a report that overtakes another may win, one
   that is older may not; and a position that was deleted after all reports
   were done is gone until the next.                                       *)
StoredIsRecent ==
  Quiescent /\ stored # NoPlace => \E p \in recent : Near(stored, p)

(* D-052: who goes on reporting has a row that is fresh, although reports are
   dropped; and is online, if the window exceeds the debounce by as much as
   the client and the server may take between them.                        *)
ActiveIsOnline ==
  active /\ since > Period + Latency =>
    /\ stored # NoPlace /\ age <= FreshFor
    /\ OnlineWindow > FreshFor => OnlineFilter /\ IsOnline
=============================================================================
