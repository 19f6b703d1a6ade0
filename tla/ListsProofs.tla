----------------------------- MODULE ListsProofs -----------------------------
(***************************************************************************)
(* Proofs about Location, for any places, number of reports, debounce,     *)
(* window, period and latency; about Nearby, for any people, places,       *)
(* radius and size of a page; and about ThreadPaging, for any messages,    *)
(* clock and size of a page.  The two searches implement Listing.          *)
(***************************************************************************)
EXTENDS MCLists, TLAPS

-----------------------------------------------------------------------------
(* LOCATION.                                                               *)

(* The types.                                                              *)

LEMMA Bounds ==
  /\ DebounceMeters \in Nat /\ DebounceSeconds \in Nat /\ OnlineWindow \in Nat
  /\ Period \in Nat /\ Latency \in Nat
  /\ Oldest \in Nat /\ Longest \in Nat /\ FreshFor \in Nat
  /\ Places \subseteq Int /\ NoPlace \notin Places
BY LocationAssumption DEF LocationAssumption, ValidConfig, Oldest, Longest, FreshFor

LEMMA LocationInitType == LocationInit => LocationTypeOK
<1>1. NoReport \in ReportType
  BY DEF ReportType
<1> SUFFICES ASSUME LocationInit PROVE LocationTypeOK
  OBVIOUS
<1>2. report \in [Reports -> ReportType]
  BY <1>1 DEF LocationInit
<1>3. age \in 0..Oldest /\ idle \in 0..Period /\ since \in 0..Longest
  BY Bounds DEF LocationInit
<1> QED
  BY <1>2, <1>3 DEF LocationInit, LocationTypeOK

LEMMA ReportEndsType ==
  ASSUME LocationTypeOK, NEW s \in Reports, Ends(s)
  PROVE  report' \in [Reports -> ReportType]
<1>1. NoReport \in ReportType
  BY DEF ReportType
<1> QED
  BY <1>1 DEF LocationTypeOK, Ends

(* A slot that is in use holds a report of a place.                        *)
LEMMA ReportInUse ==
  ASSUME LocationTypeOK, NEW s \in Reports, Pending(s)
  PROVE  report[s] \in [pc : {"read", "write"}, place : Places, late : 0..Latency]
BY DEF LocationTypeOK, Pending, ReportType, NoReport

LEMMA LocationStepType == LocationTypeOK /\ [LocationNext]_locationVars => LocationTypeOK'
<1> SUFFICES ASSUME LocationTypeOK, [LocationNext]_locationVars
             PROVE  LocationTypeOK'
  OBVIOUS
<1> USE Bounds
<1>1. CASE UNCHANGED locationVars
  BY <1>1 DEF LocationTypeOK, locationVars
<1>2. CASE Start
  <2>1. idle' \in 0..Period /\ since' \in 0..Longest
    BY <1>2 DEF Start
  <2> QED
    BY <1>2, <2>1 DEF Start, LocationTypeOK
<1>3. CASE Stop
  <2>1. idle' \in 0..Period
    BY <1>3 DEF Stop
  <2> QED
    BY <1>3, <2>1 DEF Stop, LocationTypeOK
<1>4. ASSUME NEW s \in Reports, NEW place \in Places, Post(s, place)
      PROVE  LocationTypeOK'
  <2>1. [pc |-> "read", place |-> place, late |-> 0] \in ReportType
    BY DEF ReportType
  <2>2. report' \in [Reports -> ReportType]
    BY <1>4, <2>1 DEF Post, LocationTypeOK
  <2>3. recent' \in SUBSET Places
    BY <1>4 DEF Post, LocationTypeOK
  <2> QED
    BY <1>4, <2>2, <2>3 DEF Post, LocationTypeOK
<1>5. ASSUME NEW s \in Reports, ReadPrevious(s)
      PROVE  LocationTypeOK'
  <2>1. Pending(s)
    BY <1>5 DEF ReadPrevious, Pending
  <2>2. [report[s] EXCEPT !.pc = "write"] \in ReportType
    BY <2>1, ReportInUse DEF ReportType
  <2>3. report' \in [Reports -> ReportType]
    BY <1>5, <2>2, ReportEndsType DEF ReadPrevious, LocationTypeOK
  <2> QED
    BY <1>5, <2>3 DEF ReadPrevious, LocationTypeOK
<1>6. ASSUME NEW s \in Reports, Upsert(s)
      PROVE  LocationTypeOK'
  <2>1. report' \in [Reports -> ReportType]
    BY <1>6, ReportEndsType DEF Upsert
  <2>2. Pending(s)
    BY <1>6 DEF Upsert, Pending
  <2>3. stored' \in Places
    BY <1>6, <2>2, ReportInUse DEF Upsert
  <2> QED
    BY <1>6, <2>1, <2>3 DEF Upsert, LocationTypeOK
<1>7. ASSUME NEW s \in Reports, Die(s)
      PROVE  LocationTypeOK'
  <2>1. report' \in [Reports -> ReportType]
    BY <1>7, ReportEndsType DEF Die
  <2>2. recent' \in SUBSET Places
    BY <1>7 DEF Die, LocationTypeOK
  <2>3. since' \in 0..Longest
    BY <1>7 DEF Die
  <2> QED
    BY <1>7, <2>1, <2>2, <2>3 DEF Die, LocationTypeOK
<1>8. CASE DeleteLocation
  <2>1. recent' \in SUBSET Places
    BY <1>8, ReportInUse DEF DeleteLocation
  <2> QED
    BY <1>8, <2>1 DEF DeleteLocation, LocationTypeOK
<1>9. CASE DatabaseCrash
  <2>1. NoReport \in ReportType
    BY DEF ReportType
  <2> QED
    BY <1>9, <2>1 DEF DatabaseCrash, LocationTypeOK
<1>10. CASE Tick
  <2>1. ASSUME NEW s \in Reports, Pending(s)
        PROVE  [report[s] EXCEPT !.late = @ + 1] \in ReportType
    <3>1. report[s].late < Latency
      BY <1>10, <2>1 DEF Tick
    <3> QED
      BY <2>1, <3>1, ReportInUse DEF ReportType
  <2>2. report' \in [Reports -> ReportType]
    BY <1>10, <2>1 DEF Tick, LocationTypeOK
  <2>3. age' \in 0..Oldest /\ since' \in 0..Longest
    BY <1>10 DEF Tick, LocationTypeOK, Later
  <2>4. idle' \in 0..Period
    BY <1>10 DEF Tick, LocationTypeOK
  <2> QED
    BY <1>10, <2>2, <2>3, <2>4 DEF Tick, LocationTypeOK
<1> QED
  BY <1>1, <1>2, <1>3, <1>4, <1>5, <1>6, <1>7, <1>8, <1>9, <1>10 DEF LocationNext

(* Every variable keeps to its type.                                       *)
THEOREM LocationTypeCorrect == LocationSpec => []LocationTypeOK
<1> QED
  BY LocationInitType, LocationStepType, PTL DEF LocationSpec

-----------------------------------------------------------------------------
(* Where the row says the user is.                                         *)

RecentInv ==
  /\ \A s \in Reports : Pending(s) => report[s].place \in recent
  /\ StoredIsRecent

LEMMA NearItself ==
  ASSUME NEW p \in Places
  PROVE  Near(p, p)
BY Bounds DEF Near, Meters

(* A report that ends without a crash leaves a row near what it reported.  *)
LEMMA EndsNear ==
  ASSUME LocationTypeOK, RecentInv, NEW s \in Reports, Pending(s), Ends(s),
         recent' = recent,
         stored' # NoPlace => Near(stored', report[s].place)
  PROVE  RecentInv'
<1>1. \A r \in Reports : Pending(r)' => Pending(r) /\ report'[r] = report[r]
  BY DEF LocationTypeOK, Ends, Pending, NoReport
<1>2. report[s].place \in recent
  BY DEF RecentInv
<1> QED
  BY <1>1, <1>2 DEF RecentInv, StoredIsRecent

LEMMA RecentStep ==
  LocationTypeOK /\ RecentInv /\ [LocationNext]_locationVars => RecentInv'
<1> SUFFICES ASSUME LocationTypeOK, RecentInv, [LocationNext]_locationVars
             PROVE  RecentInv'
  OBVIOUS
<1>1. CASE UNCHANGED <<stored, report, recent>>
  BY <1>1 DEF RecentInv, StoredIsRecent, Quiescent, Pending
<1>2. ASSUME NEW s \in Reports, NEW place \in Places, Post(s, place)
      PROVE  RecentInv'
  <2>1. report'[s] = [pc |-> "read", place |-> place, late |-> 0]
    BY <1>2 DEF Post, LocationTypeOK
  <2>2. \A r \in Reports \ {s} : report'[r] = report[r]
    BY <1>2 DEF Post, LocationTypeOK
  <2>3. Pending(s)'
    BY <2>1 DEF Pending
  <2>4. \A r \in Reports : Pending(r)' => report'[r].place \in recent'
    BY <1>2, <2>1, <2>2 DEF Post, RecentInv, Quiescent, Pending
  <2> QED
    BY <2>3, <2>4 DEF RecentInv, StoredIsRecent, Quiescent
<1>3. ASSUME NEW s \in Reports, ReadPrevious(s)
      PROVE  RecentInv'
  <2>1. Pending(s)
    BY <1>3 DEF ReadPrevious, Pending
  <2>2. CASE Debounced(s) /\ Ends(s)
    BY <1>3, <2>1, <2>2, EndsNear DEF ReadPrevious, Debounced
  <2>3. CASE report' = [report EXCEPT ![s].pc = "write"]
    <3>1. \A r \in Reports : report'[r].place = report[r].place /\ (Pending(r)' <=> Pending(r))
      BY <2>1, <2>3, ReportInUse DEF LocationTypeOK, Pending
    <3> QED
      BY <1>3, <3>1 DEF ReadPrevious, RecentInv, StoredIsRecent, Quiescent
  <2> QED
    BY <1>3, <2>2, <2>3 DEF ReadPrevious
<1>4. ASSUME NEW s \in Reports, Upsert(s)
      PROVE  RecentInv'
  <2>1. Pending(s)
    BY <1>4 DEF Upsert, Pending
  <2>2. Near(stored', report[s].place)
    BY <1>4, <2>1, ReportInUse, NearItself DEF Upsert
  <2> QED
    BY <1>4, <2>1, <2>2, EndsNear DEF Upsert
<1>5. ASSUME NEW s \in Reports, Die(s)
      PROVE  RecentInv'
  <2>1. \A r \in Reports : Pending(r)' => Pending(r) /\ report'[r] = report[r]
    BY <1>5 DEF Die, LocationTypeOK, Ends, Pending, NoReport
  <2>2. stored' # NoPlace => stored' \in recent' /\ Near(stored', stored')
    BY <1>5, NearItself DEF Die, LocationTypeOK
  <2> QED
    BY <1>5, <2>1, <2>2 DEF Die, RecentInv, StoredIsRecent
<1>6. CASE DeleteLocation
  BY <1>6 DEF DeleteLocation, RecentInv, StoredIsRecent, Pending
<1>7. CASE DatabaseCrash
  BY <1>7 DEF DatabaseCrash, RecentInv, StoredIsRecent, Pending, NoReport
<1>8. CASE Tick
  <2>1. \A r \in Reports : report'[r].place = report[r].place /\ (Pending(r)' <=> Pending(r))
    BY <1>8, ReportInUse DEF Tick, LocationTypeOK, Pending
  <2> QED
    BY <1>8, <2>1 DEF Tick, RecentInv, StoredIsRecent, Quiescent
<1> QED
  BY <1>1, <1>2, <1>3, <1>4, <1>5, <1>6, <1>7, <1>8
     DEF LocationNext, locationVars, Start, Stop

(* The row says within DebounceMeters where one of the last reports was.   *)
THEOREM RowFollowsReports == LocationSpec => []StoredIsRecent
<1>1. LocationInit => RecentInv
  BY DEF LocationInit, RecentInv, StoredIsRecent, Pending, NoReport
<1>2. RecentInv => StoredIsRecent
  BY DEF RecentInv
<1> QED
  BY <1>1, <1>2, RecentStep, LocationTypeCorrect, PTL DEF LocationSpec
-----------------------------------------------------------------------------
(* How fresh the row of an active user is.                                 *)

(* A report is due no later than Period after a moment n ticks ago at which
   one was posted: it is the last one, or a later one is still in flight.  *)
Due(n) ==
  \/ n = idle
  \/ \E s \in Reports :
       Pending(s) /\ report[s].late < n /\ n <= report[s].late + Period

(* e ticks ago, the report was posted that has ended and was posted last, or
   the user's row was lost.  What has been posted since then follows in steps
   of Period.                                                              *)
Served(e) ==
  /\ Due(e)
  /\ \A s \in Reports : Pending(s) /\ report[s].late <= e => Due(report[s].late)
  /\ since <= e \/ (stored # NoPlace /\ age <= DebounceSeconds + e)

FreshInv ==
  active => /\ \A s \in Reports : Pending(s) => idle <= report[s].late
            /\ \E e \in 0..(Period + Latency) : Served(e)

(* A moment at which since is 0 counts as served, idle ticks ago.          *)
LEMMA LossServes ==
  ASSUME LocationTypeOK', since' = 0,
         (\A s \in Reports : Pending(s) => idle <= report[s].late)'
  PROVE  FreshInv'
<1>1. idle' \in 0..(Period + Latency)
  BY Bounds DEF LocationTypeOK
<1>2. Served(idle)'
  <2>1. \A s \in Reports : Pending(s)' => report'[s].late \in Nat
    BY Bounds DEF LocationTypeOK, ReportType, Pending, NoReport
  <2> QED
    BY <1>1, <2>1, Bounds DEF Served, Due
<1> QED
  BY <1>1, <1>2 DEF FreshInv

(* A report that ends, with the row fresh when it was posted or since.     *)
LEMMA EndServes ==
  ASSUME LocationTypeOK, LocationTypeOK', FreshInv, NEW s \in Reports, Pending(s), Ends(s),
         stored' # NoPlace, age' <= DebounceSeconds,
         UNCHANGED <<active, idle, since>>
  PROVE  FreshInv'
<1> SUFFICES ASSUME active PROVE FreshInv'
  BY DEF FreshInv
<1> USE Bounds
<1>1. \A r \in Reports : Pending(r)' => Pending(r) /\ report'[r] = report[r] /\ r # s
  BY DEF LocationTypeOK, Ends, Pending, NoReport
<1>2. \A r \in Reports : r # s /\ Pending(r) => Pending(r)' /\ report'[r] = report[r]
  BY DEF LocationTypeOK, Ends, Pending
<1>3. \A r \in Reports : Pending(r) => report[r].late \in 0..Latency
  BY ReportInUse
<1>4. PICK e \in 0..(Period + Latency) : Served(e)
  BY DEF FreshInv
<1>5. age' \in Nat /\ since \in Nat
  BY DEF LocationTypeOK
<1>6. PICK n \in 0..(Period + Latency) :
        n <= report[s].late /\ n <= e /\ (n = report[s].late \/ n = e)
  <2>1. CASE report[s].late <= e
    BY <2>1, <1>3
  <2>2. CASE ~(report[s].late <= e)
    BY <2>2, <1>3
  <2> QED
    BY <2>1, <2>2
<1>7. \A m \in Nat : m <= report[s].late /\ Due(m) => Due(m)'
  <2> SUFFICES ASSUME NEW m \in Nat, m <= report[s].late, Due(m), m # idle
               PROVE  Due(m)'
    BY DEF Due
  <2>1. PICK r \in Reports : Pending(r) /\ report[r].late < m /\ m <= report[r].late + Period
    BY DEF Due
  <2>2. r # s
    BY <2>1, <1>3
  <2> QED
    BY <2>1, <2>2, <1>2 DEF Due
<1>8. Due(n)'
  BY <1>4, <1>6, <1>7 DEF Served
<1>9. (\A r \in Reports : Pending(r) /\ report[r].late <= n => Due(report[r].late))'
  <2> SUFFICES ASSUME NEW r \in Reports, Pending(r)', report'[r].late <= n
               PROVE  Due(report[r].late)'
    OBVIOUS
  <2>1. PICK m \in Nat : m = report[r].late
    BY <1>1, <1>3
  <2>2. Pending(r) /\ report'[r] = report[r] /\ m <= n
    BY <1>1, <2>1
  <2>3. Due(m)
    BY <1>3, <1>4, <1>6, <2>1, <2>2 DEF Served
  <2>4. Due(m)'
    BY <1>3, <1>6, <1>7, <2>2, <2>3
  <2> QED
    BY <2>1, <2>2, <2>4 DEF Due
<1>10. Served(n)'
  BY <1>5, <1>6, <1>8, <1>9 DEF Served
<1>11. (\A r \in Reports : Pending(r) => idle <= report[r].late)'
  BY <1>1 DEF FreshInv
<1> QED
  BY <1>10, <1>11 DEF FreshInv

LEMMA PostServes ==
  ASSUME LocationTypeOK, LocationTypeOK', FreshInv, NEW s \in Reports, NEW place \in Places, Post(s, place)
  PROVE  FreshInv'
<1> USE Bounds
<1>1. active /\ active' /\ idle' = 0 /\ since' = since /\ stored' = stored /\ age' = age
  BY DEF Post
<1>2. Pending(s)' /\ report'[s].late = 0 /\ ~Pending(s)
  BY DEF Post, LocationTypeOK, Pending
<1>3. \A r \in Reports : r # s => report'[r] = report[r] /\ (Pending(r)' <=> Pending(r))
  BY DEF Post, LocationTypeOK, Pending
<1>4. \A r \in Reports : Pending(r) => report[r].late \in 0..Latency
  BY ReportInUse
<1>5. PICK e \in 0..(Period + Latency) : Served(e)
  BY <1>1 DEF FreshInv
<1>6. idle \in 0..Period
  BY DEF LocationTypeOK
<1>7. \A m \in Nat : Due(m) => Due(m)'
  <2> SUFFICES ASSUME NEW m \in Nat, Due(m), m # 0
               PROVE  Due(m)'
    BY <1>1 DEF Due
  <2>1. CASE m = idle
    BY <2>1, <1>2, <1>6 DEF Due
  <2>2. CASE m # idle
    BY <2>2, <1>2, <1>3 DEF Due
  <2> QED
    BY <2>1, <2>2
<1>8. Due(0)'
  BY <1>1 DEF Due
<1>9. (\A r \in Reports : Pending(r) /\ report[r].late <= e => Due(report[r].late))'
  <2> SUFFICES ASSUME NEW r \in Reports, Pending(r)', report'[r].late <= e
               PROVE  Due(report[r].late)'
    OBVIOUS
  <2>1. CASE r = s
    BY <2>1, <1>1, <1>2 DEF Due
  <2>2. CASE r # s
    <3>1. PICK m \in Nat : m = report[r].late
      BY <2>2, <1>3, <1>4
    <3>2. Due(m)
      BY <2>2, <1>3, <1>5, <3>1 DEF Served
    <3> QED
      BY <2>2, <1>3, <1>7, <3>1, <3>2 DEF Due
  <2> QED
    BY <2>1, <2>2
<1>10. Served(e)'
  BY <1>1, <1>5, <1>7, <1>9 DEF Served
<1>11. \A r \in Reports : Pending(r)' => idle' <= report'[r].late
  BY <1>1, <1>2, <1>3, <1>4
<1> QED
  BY <1>10, <1>11 DEF FreshInv

LEMMA TickServes ==
  ASSUME LocationTypeOK, LocationTypeOK', FreshInv, Tick
  PROVE  FreshInv'
<1> SUFFICES ASSUME active PROVE FreshInv'
  BY DEF Tick, FreshInv
<1> USE Bounds
<1>1. idle < Period /\ idle' = idle + 1 /\ idle \in Nat
  BY DEF Tick, LocationTypeOK
<1>2. \A r \in Reports : Pending(r) => /\ report[r].late \in Nat /\ report[r].late < Latency
                                      /\ report'[r].late = report[r].late + 1
  BY ReportInUse DEF Tick
<1>3. \A r \in Reports : Pending(r)' <=> Pending(r)
  BY ReportInUse DEF Tick, LocationTypeOK, Pending
<1>4. PICK e \in 0..(Period + Latency) : Served(e)
  BY DEF FreshInv
<1>5. \A m \in Nat : Due(m) => m + 1 \in 0..(Period + Latency) /\ Due(m + 1)'
  <2> SUFFICES ASSUME NEW m \in Nat, Due(m)
               PROVE  m + 1 \in 0..(Period + Latency) /\ Due(m + 1)'
    OBVIOUS
  <2>1. CASE m = idle
    BY <2>1, <1>1 DEF Due
  <2>2. CASE m # idle
    <3>1. PICK r \in Reports : Pending(r) /\ report[r].late < m /\ m <= report[r].late + Period
      BY <2>2 DEF Due
    <3>2. /\ Pending(r)' /\ report[r].late \in Nat /\ report[r].late < Latency
          /\ report'[r].late = report[r].late + 1
      BY <3>1, <1>2, <1>3
    <3> QED
      BY <3>1, <3>2 DEF Due
  <2> QED
    BY <2>1, <2>2
<1>6. (\A r \in Reports : Pending(r) /\ report[r].late <= e + 1 => Due(report[r].late))'
  <2> SUFFICES ASSUME NEW r \in Reports, Pending(r)', report'[r].late <= e + 1
               PROVE  Due(report[r].late)'
    OBVIOUS
  <2>1. PICK m \in Nat : m = report[r].late
    BY <1>2, <1>3
  <2>2. Pending(r) /\ report'[r].late = m + 1 /\ m <= e
    BY <1>2, <1>3, <2>1
  <2>3. Due(m)
    BY <1>4, <2>1, <2>2 DEF Served
  <2>4. Due(m + 1)'
    BY <1>5, <2>3
  <2> QED
    BY <2>2, <2>4 DEF Due
<1>7. since \in Nat /\ since' <= since + 1 /\ since' \in Nat
  BY DEF Tick, Later, LocationTypeOK
<1>8. stored' = stored /\ age \in Nat /\ age' \in Nat /\ (stored # NoPlace => age' <= age + 1)
  BY DEF Tick, Later, LocationTypeOK
<1>9. Served(e + 1)' /\ e + 1 \in 0..(Period + Latency)
  BY <1>4, <1>5, <1>6, <1>7, <1>8 DEF Served
<1>10. \A r \in Reports : Pending(r)' => idle' <= report'[r].late
  BY <1>1, <1>2, <1>3 DEF FreshInv
<1> QED
  BY <1>9, <1>10 DEF FreshInv

LEMMA FreshStep ==
  LocationTypeOK /\ LocationTypeOK' /\ FreshInv /\ [LocationNext]_locationVars => FreshInv'
<1> SUFFICES ASSUME LocationTypeOK, LocationTypeOK', FreshInv, [LocationNext]_locationVars
             PROVE  FreshInv'
  OBVIOUS
<1> USE Bounds
<1>1. CASE UNCHANGED locationVars
  BY <1>1 DEF locationVars, FreshInv, Served, Due, Pending
<1>2. CASE Start
  <2>1. \A r \in Reports : Pending(r)' => idle' <= report'[r].late
    BY <1>2, ReportInUse DEF Start, Pending
  <2> QED
    BY <1>2, <2>1, LossServes DEF Start
<1>3. CASE Stop
  BY <1>3 DEF Stop, FreshInv
<1>4. ASSUME NEW s \in Reports, NEW place \in Places, Post(s, place)
      PROVE  FreshInv'
  BY <1>4, PostServes
<1>5. ASSUME NEW s \in Reports, ReadPrevious(s)
      PROVE  FreshInv'
  <2>1. Pending(s)
    BY <1>5 DEF ReadPrevious, Pending
  <2>2. CASE Debounced(s) /\ Ends(s)
    BY <1>5, <2>1, <2>2, EndServes DEF ReadPrevious, Debounced
  <2>3. CASE report' = [report EXCEPT ![s].pc = "write"]
    <3>1. \A r \in Reports : (Pending(r)' <=> Pending(r)) /\ report'[r].late = report[r].late
      BY <2>1, <2>3, ReportInUse DEF LocationTypeOK, Pending
    <3> QED
      BY <1>5, <3>1 DEF ReadPrevious, FreshInv, Served, Due
  <2> QED
    BY <1>5, <2>2, <2>3 DEF ReadPrevious
<1>6. ASSUME NEW s \in Reports, Upsert(s)
      PROVE  FreshInv'
  <2>1. Pending(s)
    BY <1>6 DEF Upsert, Pending
  <2>2. stored' # NoPlace /\ age' <= DebounceSeconds
    BY <1>6, <2>1, ReportInUse DEF Upsert
  <2> QED
    BY <1>6, <2>1, <2>2, EndServes DEF Upsert
<1>7. ASSUME NEW s \in Reports, Die(s)
      PROVE  FreshInv'
  <2>1. \A r \in Reports : Pending(r)' => Pending(r) /\ report'[r] = report[r]
    BY <1>7 DEF Die, LocationTypeOK, Ends, Pending, NoReport
  <2>2. CASE active
    BY <1>7, <2>1, <2>2, LossServes DEF Die, FreshInv
  <2> QED
    BY <1>7, <2>2 DEF Die, FreshInv
<1>8. CASE DeleteLocation
  <2>1. CASE active
    BY <1>8, <2>1, LossServes DEF DeleteLocation, FreshInv, Pending
  <2> QED
    BY <1>8, <2>1 DEF DeleteLocation, FreshInv
<1>9. CASE DatabaseCrash
  BY <1>9, LossServes DEF DatabaseCrash, Pending, NoReport
<1>10. CASE Tick
  BY <1>10, TickServes
<1> QED
  BY <1>1, <1>2, <1>3, <1>4, <1>5, <1>6, <1>7, <1>8, <1>9, <1>10 DEF LocationNext

(* Who goes on reporting is online, if the window is as long as it takes.  *)
THEOREM ReportersAreOnline == LocationSpec => []ActiveIsOnline
<1>1. LocationInit => FreshInv
  BY DEF LocationInit, FreshInv
<1>2. LocationTypeOK /\ FreshInv => ActiveIsOnline
  <2> SUFFICES ASSUME LocationTypeOK, FreshInv, active, since > Period + Latency
               PROVE  stored # NoPlace /\ age <= FreshFor
                      /\ (OnlineWindow > FreshFor => OnlineFilter /\ IsOnline)
    BY DEF ActiveIsOnline
  <2>1. PICK e \in 0..(Period + Latency) : Served(e)
    BY DEF FreshInv
  <2>2. since \in Nat /\ age \in Nat
    BY Bounds DEF LocationTypeOK
  <2>3. stored # NoPlace /\ age <= FreshFor
    BY <2>1, <2>2, Bounds DEF Served, FreshFor
  <2> QED
    BY <2>2, <2>3, Bounds DEF OnlineFilter, IsOnline
<1> QED
  BY <1>1, <1>2, FreshStep, LocationTypeCorrect, PTL DEF LocationSpec

-----------------------------------------------------------------------------
(* NEARBY: the search of the Grid.                                          *)

(* Distances, and the order of the rows.                                   *)

LEMMA DistanceType ==
  ASSUME NEW p \in Points \cup {Away}, NEW q \in Points \cup {Away}
  PROVE  /\ Distance(p, q) \in Nat \cup {Away}
         /\ Distance(p, q) = Away <=> p = Away \/ q = Away
BY NearbyAssumption DEF NearbyAssumption, Distance

LEMMA DistanceOfType ==
  ASSUME NearbyTypeOK, NEW u \in People
  PROVE  /\ DistanceOf(u) \in Nat \cup {Away}
         /\ DistanceOf(u) = Away <=> spot[u] = Away \/ origin = Away
<1>1. spot[u] \in Points \cup {Away} /\ origin \in Points \cup {Away}
  BY DEF NearbyTypeOK
<1> QED
  BY <1>1, DistanceType DEF DistanceOf

(* Among those in range, the order is total.                               *)
LEMMA Ordered ==
  ASSUME NearbyTypeOK, NEW u \in People, NEW v \in People, InRange(u), InRange(v)
  PROVE  /\ u # v => (Before(u, v) <=> ~Before(v, u))
         /\ ~Before(u, u)
BY DistanceOfType, NearbyAssumption DEF NearbyAssumption, InRange, Before

(* What is not beyond a boundary comes before all that is.                 *)
LEMMA BoundaryDivides ==
  ASSUME NearbyTypeOK, NEW u \in People, NEW v \in People, InRange(u), InRange(v),
         ~Beyond(u), Beyond(v)
  PROVE  Before(u, v)
<1>1. after # NoBoundary
  BY DEF Beyond
<1>2. after.dist # Away /\ after.dist \in Nat
  <2>1. after.dist # Away
    BY <1>1 DEF Beyond
  <2> QED
    BY <1>1, <2>1 DEF NearbyTypeOK
<1>3. after.id \in Nat
  BY <1>1, NearbyAssumption DEF NearbyTypeOK, NearbyAssumption
<1>4. DistanceOf(u) \in Nat /\ DistanceOf(v) \in Nat /\ u \in Nat /\ v \in Nat
  BY DistanceOfType, NearbyAssumption DEF NearbyAssumption, InRange
<1> QED
  BY <1>1, <1>2, <1>3, <1>4 DEF Beyond, Before
-----------------------------------------------------------------------------
(* The types.                                                              *)

WalkType == [pc : {"closed", "broken", "page", "blocks", "cursor", "query", "end"},
             cursor : People \cup {NoOne}]

AfterType == {NoBoundary} \cup [dist : Nat \cup {Away}, id : People]

LEMMA OverType ==
  ASSUME NEW pc \in {"closed", "broken"}, Over(pc), NearbyTypeOK, UNCHANGED people
  PROVE  NearbyTypeOK'
BY DEF Over, NearbyTypeOK, people

LEMMA GoOnType ==
  ASSUME NearbyTypeOK, NEW pc \in {"page", "blocks", "cursor", "query"}, GoOn(pc),
         pc = "cursor" => walk.cursor # NoOne,
         excluded' \subseteq People, after' \in AfterType
  PROVE  NearbyTypeOK'
BY DEF GoOn, NearbyTypeOK, AfterType, people, history

LEMMA WorldType ==
  ASSUME NearbyTypeOK, Watched, spot' \in [People -> Points \cup {Away}],
         origin' \in Points \cup {Away}, shy' \subseteq People, shunned' \subseteq People
  PROVE  NearbyTypeOK'
<1>1. fixed' \subseteq People /\ sealed' \subseteq People /\ unseen' \subseteq People
  BY DEF NearbyTypeOK, Watched
<1> QED
  BY <1>1 DEF NearbyTypeOK, Watched, handler

LEMMA NearbyStepType == NearbyTypeOK /\ [NearbyNext]_nearbyVars => NearbyTypeOK'
<1> SUFFICES ASSUME NearbyTypeOK, [NearbyNext]_nearbyVars
             PROVE  NearbyTypeOK'
  OBVIOUS
<1>1. CASE UNCHANGED nearbyVars
  BY <1>1 DEF NearbyTypeOK, nearbyVars, people, handler, history
<1>2. ASSUME NEW u \in Roaming, Move(u)
      PROVE  NearbyTypeOK'
  <2>1. spot' \in [People -> Points \cup {Away}]
    BY <1>2 DEF Move, NearbyTypeOK
  <2> QED
    BY <1>2, <2>1, WorldType DEF Move, NearbyTypeOK
<1>3. CASE Wander
  BY <1>3, WorldType DEF Wander, NearbyTypeOK
<1>4. ASSUME NEW u \in Fickle, SetDiscoverable(u)
      PROVE  NearbyTypeOK'
  BY <1>4, WorldType, NearbyAssumption DEF SetDiscoverable, Flip, NearbyTypeOK, NearbyAssumption
<1>5. ASSUME NEW u \in Fickle, BlockOrUnblock(u)
      PROVE  NearbyTypeOK'
  BY <1>5, WorldType, NearbyAssumption DEF BlockOrUnblock, Flip, NearbyTypeOK, NearbyAssumption
<1>6. CASE OpenGrid
  <2>1. CanBeFound \subseteq People /\ CannotBeSeen \subseteq People
    BY DEF CanBeFound, CannotBeSeen, NearbyTypeOK
  <2> QED
    BY <1>6, <2>1 DEF OpenGrid, NearbyTypeOK, people
<1>7. CASE Leave \/ Done
  BY <1>7, OverType DEF Leave, Done
<1>8. CASE RequireOrigin
  <2>1. CASE Over("broken") /\ UNCHANGED people
    BY <2>1, OverType
  <2>2. CASE GoOn("blocks") /\ UNCHANGED <<excluded, after>>
    BY <2>2, GoOnType DEF NearbyTypeOK, AfterType
  <2> QED
    BY <1>8, <2>1, <2>2 DEF RequireOrigin
<1>9. CASE BlockedIdsFor
  BY <1>9, GoOnType DEF BlockedIdsFor, NearbyTypeOK, AfterType
<1>10. CASE ResolveCursor
  <2>1. CASE Over("broken") /\ UNCHANGED people
    BY <2>1, OverType
  <2>2. CASE /\ spot[walk.cursor] # Away
             /\ after' = [dist |-> DistanceOf(walk.cursor), id |-> walk.cursor]
             /\ GoOn("query") /\ UNCHANGED excluded
    <3>1. after' \in AfterType
      <4>1. walk.cursor \in People
        BY <1>10 DEF ResolveCursor, NearbyTypeOK
      <4> QED
        BY <2>2, <4>1, DistanceOfType DEF AfterType
    <3> QED
      BY <2>2, <3>1, GoOnType DEF NearbyTypeOK
  <2> QED
    BY <1>10, <2>1, <2>2 DEF ResolveCursor
<1>11. CASE Query
  <2>1. Rows \subseteq People
    BY DEF Rows
  <2>2. walk' \in WalkType /\ walk'.pc # "cursor"
    BY <1>11, <2>1 DEF Query, WalkType
  <2>3. found' \subseteq People /\ again' \subseteq found'
    BY <1>11, <2>1 DEF Query, NearbyTypeOK
  <2> QED
    BY <1>11, <2>2, <2>3 DEF Query, NearbyTypeOK, WalkType, people
<1> QED
  BY <1>1, <1>2, <1>3, <1>4, <1>5, <1>6, <1>7, <1>8, <1>9, <1>10, <1>11 DEF NearbyNext

(* Every variable keeps to its type.                                       *)
THEOREM NearbyTypeCorrect == NearbySpec => []NearbyTypeOK
<1>1. NearbyInit => NearbyTypeOK
  BY DEF NearbyInit, NearbyTypeOK
<1> QED
  BY <1>1, NearbyStepType, PTL DEF NearbySpec

-----------------------------------------------------------------------------
(* The invariant.  Of those who stay where they are, the pages so far have *)
(* shown whoever is not beyond the boundary, and nobody who is.            *)

Waiting == walk.pc \in {"page", "blocks", "cursor"}

HistoryInv ==
  /\ fixed \subseteq CanBeFound
  /\ sealed \subseteq shunned /\ unseen \subseteq CannotBeSeen
  /\ walk.pc \in {"cursor", "query"} => sealed \subseteq excluded /\ fixed \cap excluded = {}
  /\ ~Walking => found = {} /\ again = {} /\ fixed = {} /\ sealed = {} /\ unseen = {}

BoundaryInv ==
  /\ walk.pc # "query" => after = NoBoundary
  /\ Waiting /\ walk.cursor = NoOne => fixed \cap found = {}
  /\ Waiting /\ walk.cursor # NoOne /\ fixed # {} =>
       /\ InRange(walk.cursor)
       /\ \A u \in fixed : u \in found <=> ~Before(walk.cursor, u)
  /\ walk.pc = "query" => \A u \in fixed : u \in found <=> ~Beyond(u)
  /\ walk.pc = "end" => fixed \subseteq found

PageInv == HistoryInv /\ BoundaryInv

LEMMA OverInv ==
  ASSUME NEW pc \in {"closed", "broken"}, Over(pc)
  PROVE  PageInv'
BY DEF Over, PageInv, HistoryInv, BoundaryInv, Waiting, Walking, CanBeFound, CannotBeSeen

(* What the others and the searcher do.                                    *)
LEMMA WatchedInv ==
  ASSUME NearbyTypeOK, NearbyTypeOK', PageInv, Watched
  PROVE  PageInv'
<1>1. fixed' \subseteq fixed /\ UNCHANGED <<walk, excluded, after, found, again>>
  BY DEF Watched, handler
<1>2. HistoryInv'
  BY <1>1 DEF Watched, PageInv, HistoryInv, Walking
<1>3. SUFFICES ASSUME fixed' # {} PROVE BoundaryInv'
  BY <1>1, <1>2 DEF PageInv, BoundaryInv, Waiting
<1>4. ~BoundaryShifts /\ origin' = origin
  BY <1>3 DEF Watched, BoundaryShifts
<1>5. \A u \in fixed' : spot'[u] = spot[u]
  BY <1>4 DEF Watched
<1>6. \A u \in fixed' : DistanceOf(u)' = DistanceOf(u)
  BY <1>4, <1>5 DEF DistanceOf
<1>7. ASSUME Waiting, walk.cursor # NoOne
      PROVE  DistanceOf(walk.cursor)' = DistanceOf(walk.cursor)
  BY <1>1, <1>4, <1>7 DEF BoundaryShifts, DistanceOf, Waiting
<1> QED
  BY <1>1, <1>3, <1>6, <1>7 DEF PageInv, BoundaryInv, Waiting, Before, Beyond, InRange

LEMMA QueryInv ==
  ASSUME NearbyTypeOK, PageInv, Query
  PROVE  PageInv'
<1>1. PICK page \in SUBSET Rows :
        /\ \A u \in page, v \in Rows \ page : Before(u, v)
        /\ \/ \E last \in page :
                /\ \A u \in page \ {last} : Before(u, last)
                /\ walk' = [pc |-> "page", cursor |-> last]
           \/ page = Rows /\ walk' = [pc |-> "end", cursor |-> NoOne]
        /\ found' = found \cup page
  BY DEF Query
<1>2. walk.pc = "query" /\ after' = NoBoundary /\ UNCHANGED <<people, fixed, sealed, unseen>>
  BY DEF Query
<1>3. Walking' /\ HistoryInv'
  BY <1>1, <1>2 DEF PageInv, HistoryInv, Walking, people, CanBeFound, CannotBeSeen, InRange, DistanceOf
<1>4. \A u \in fixed : u \in People /\ InRange(u) /\ (u \in found <=> ~Beyond(u))
  BY <1>2 DEF PageInv, HistoryInv, BoundaryInv, CanBeFound
<1>5. \A u \in fixed : Beyond(u) => u \in Rows
  BY <1>2, <1>4 DEF PageInv, HistoryInv, CanBeFound, Rows
<1>6. \A u \in Rows : u \in People /\ InRange(u) /\ Beyond(u)
  BY DEF Rows
<1>7. CASE page = Rows /\ walk' = [pc |-> "end", cursor |-> NoOne]
  <2>1. fixed' \subseteq found'
    BY <1>1, <1>2, <1>4, <1>5, <1>7
  <2> QED
    BY <1>2, <1>3, <1>7, <2>1 DEF PageInv, BoundaryInv, Waiting
<1>8. ASSUME NEW last \in page, \A u \in page \ {last} : Before(u, last),
             walk' = [pc |-> "page", cursor |-> last]
      PROVE  PageInv'
  <2>1. last \in People /\ InRange(last) /\ Beyond(last) /\ last # NoOne
    BY <1>6, <1>8, NearbyAssumption DEF NearbyAssumption
  <2>2. ASSUME NEW u \in fixed
        PROVE  u \in found' <=> ~Before(last, u)
    <3>1. CASE ~Beyond(u)
      <4>1. Before(u, last)
        BY <1>4, <2>1, <2>2, <3>1, BoundaryDivides
      <4>2. u # last
        BY <2>1, <3>1
      <4> QED
        BY <1>1, <1>4, <2>1, <2>2, <3>1, <4>1, <4>2, Ordered
    <3>2. CASE u \in page
      <4>1. ~Before(last, u)
        BY <1>4, <1>8, <2>1, <2>2, <3>2, Ordered
      <4> QED
        BY <1>1, <3>2, <4>1
    <3>3. CASE Beyond(u) /\ u \notin page
      <4>1. Before(last, u) /\ u \notin found
        BY <1>1, <1>4, <1>5, <2>2, <3>3
      <4> QED
        BY <1>1, <3>3, <4>1
    <3> QED
      BY <3>1, <3>2, <3>3
  <2>3. InRange(last)' /\ \A u \in fixed' : Before(last, u)' <=> Before(last, u)
    BY <1>2, <2>1 DEF people, InRange, Before, DistanceOf
  <2>4. BoundaryInv'
    BY <1>2, <1>8, <2>1, <2>2, <2>3 DEF BoundaryInv, Waiting
  <2> QED
    BY <1>3, <2>4 DEF PageInv
<1> QED
  BY <1>1, <1>7, <1>8

LEMMA PageStep ==
  NearbyTypeOK /\ NearbyTypeOK' /\ PageInv /\ [NearbyNext]_nearbyVars => PageInv'
<1> SUFFICES ASSUME NearbyTypeOK, NearbyTypeOK', PageInv, [NearbyNext]_nearbyVars
             PROVE  PageInv'
  OBVIOUS
<1>a. ASSUME UNCHANGED <<people, history>>
      PROVE  /\ CanBeFound' = CanBeFound /\ CannotBeSeen' = CannotBeSeen
             /\ \A u, v : Before(u, v)' <=> Before(u, v)
             /\ \A u : (InRange(u)' <=> InRange(u)) /\ DistanceOf(u)' = DistanceOf(u)
  BY <1>a DEF people, history, CanBeFound, CannotBeSeen, Before, InRange, DistanceOf
<1>1. CASE UNCHANGED nearbyVars
  BY <1>1, <1>a DEF nearbyVars, people, handler, history, PageInv, HistoryInv, BoundaryInv,
                    Waiting, Walking, Beyond
<1>2. CASE \/ \E u \in Roaming : Move(u)
           \/ Wander
           \/ \E u \in Fickle : SetDiscoverable(u) \/ BlockOrUnblock(u)
  BY <1>2, WatchedInv DEF Move, Wander, SetDiscoverable, BlockOrUnblock
<1>3. CASE OpenGrid
  <2>1. HistoryInv'
    BY <1>3 DEF OpenGrid, HistoryInv, Walking, people, CanBeFound, CannotBeSeen, InRange, DistanceOf
  <2>2. BoundaryInv'
    BY <1>3 DEF OpenGrid, PageInv, HistoryInv, BoundaryInv, Walking, Waiting
  <2> QED
    BY <2>1, <2>2 DEF PageInv
<1>4. CASE Leave \/ Done
  BY <1>4, OverInv DEF Leave, Done
<1>5. CASE RequireOrigin
  <2>1. CASE GoOn("blocks") /\ UNCHANGED <<excluded, after>> /\ walk.pc = "page"
    <3>1. walk'.pc = "blocks" /\ walk'.cursor = walk.cursor /\ UNCHANGED <<people, history>>
      BY <2>1 DEF GoOn, NearbyTypeOK
    <3> QED
      BY <2>1, <3>1, <1>a DEF people, history, PageInv, HistoryInv, BoundaryInv, Walking, Waiting
  <2> QED
    BY <1>5, <2>1, OverInv DEF RequireOrigin
<1>6. CASE BlockedIdsFor
  <2>1. PICK pc \in {"query", "cursor"} :
          GoOn(pc) /\ (pc = "query" <=> walk.cursor = NoOne)
    BY <1>6 DEF BlockedIdsFor
  <2>2. /\ walk.pc = "blocks" /\ walk'.pc = pc /\ walk'.cursor = walk.cursor
        /\ UNCHANGED <<people, history>> /\ excluded' = shunned /\ after' = after
    BY <1>6, <2>1 DEF BlockedIdsFor, GoOn, NearbyTypeOK
  <2>3. HistoryInv'
    <3>1. sealed \subseteq shunned
      BY DEF PageInv, HistoryInv
    <3> QED
      BY <2>2, <3>1, <1>a DEF people, history, PageInv, HistoryInv, Walking, CanBeFound
  <2>4. BoundaryInv'
    BY <2>1, <2>2, <1>a DEF history, PageInv, BoundaryInv, Waiting, Beyond
  <2> QED
    BY <2>3, <2>4 DEF PageInv
<1>7. CASE ResolveCursor
  <2>1. CASE /\ spot[walk.cursor] # Away
             /\ after' = [dist |-> DistanceOf(walk.cursor), id |-> walk.cursor]
             /\ GoOn("query") /\ UNCHANGED excluded /\ walk.pc = "cursor"
    <3>1. walk'.pc = "query" /\ UNCHANGED <<people, history>>
      BY <2>1 DEF GoOn, NearbyTypeOK
    <3>2. HistoryInv'
      BY <2>1, <3>1, <1>a DEF people, history, PageInv, HistoryInv, Walking
    <3>3. walk.cursor \in People /\ walk.cursor # NoOne
      BY <2>1 DEF NearbyTypeOK
    <3>4. ASSUME NEW u \in fixed
          PROVE  Beyond(u)' <=> Before(walk.cursor, u)
      <4>1. InRange(walk.cursor)
        BY <2>1, <3>3, <3>4 DEF PageInv, BoundaryInv, Waiting
      <4>2. after' # NoBoundary /\ after'.dist # Away /\ after'.id = walk.cursor
        BY <2>1, <3>3, <4>1 DEF NoBoundary, InRange
      <4>3. DistanceOf(u)' = DistanceOf(u) /\ after'.dist = DistanceOf(walk.cursor)
        BY <2>1, <3>1, <1>a
      <4>4. u \in People /\ InRange(u)
        BY DEF PageInv, HistoryInv, CanBeFound
      <4> QED
        BY <3>3, <4>1, <4>2, <4>3, <4>4, DistanceOfType, NearbyAssumption
           DEF Beyond, Before, InRange, NearbyAssumption
    <3>5. BoundaryInv'
      BY <2>1, <3>1, <3>3, <3>4 DEF history, PageInv, BoundaryInv, Waiting
    <3> QED
      BY <3>2, <3>5 DEF PageInv
  <2> QED
    BY <1>7, <2>1, OverInv DEF ResolveCursor
<1>8. CASE Query
  BY <1>8, QueryInv
<1> QED
  BY <1>1, <1>2, <1>3, <1>4, <1>5, <1>6, <1>7, <1>8 DEF NearbyNext

(* So it is after any number of pages, however often people moved.         *)
THEOREM PagesKeepPace == NearbySpec => []PageInv
<1>1. NearbyInit => PageInv
  BY DEF NearbyInit, PageInv, HistoryInv, BoundaryInv, Waiting, Walking
<1> QED
  BY <1>1, PageStep, NearbyTypeCorrect, PTL DEF NearbySpec

-----------------------------------------------------------------------------
(* Every step is one of Listing, or none.                                  *)

LEMMA OverRefines ==
  ASSUME NEW pc \in {"closed", "broken"}, Over(pc), Walking,
         pc = "closed" => fixed \subseteq found
  PROVE  GridList!Finish \/ GridList!Abandon
BY DEF Over, Walking, GridList!Finish, GridList!Abandon, GridList!Cleared

LEMMA WatchedRefines ==
  ASSUME PageInv, Watched
  PROVE  GridList!Shake \/ UNCHANGED GridList!vars
<1>1. fixed' \subseteq fixed /\ sealed' \subseteq sealed /\ unseen' \subseteq unseen
  BY DEF Watched
<1>2. CASE Walking
  BY <1>1, <1>2 DEF Watched, handler, Walking, GridList!Shake
<1>3. CASE ~Walking
  BY <1>1, <1>3 DEF Watched, handler, Walking, PageInv, HistoryInv, GridList!vars
<1> QED
  BY <1>2, <1>3

LEMMA QueryRefines ==
  ASSUME NearbyTypeOK, PageInv, Query
  PROVE  GridList!Next
<1>1. PICK page \in SUBSET Rows :
        found' = found \cup page /\ again' = again \cup (page \cap found)
  BY DEF Query
<1>2. walk.pc = "query" /\ Walking /\ Walking' /\ UNCHANGED <<fixed, sealed, unseen>>
  BY DEF Query, Walking
<1>3. page \cap (sealed \cup unseen) = {}
  <2>1. \A u \in Rows : u \notin shy /\ u \notin excluded /\ spot[u] # Away
    BY DistanceOfType DEF Rows, InRange
  <2> QED
    BY <1>2, <2>1 DEF PageInv, HistoryInv, CannotBeSeen
<1>4. page \cap found \cap fixed = {}
  BY <1>2 DEF PageInv, BoundaryInv, Rows
<1>5. page \in SUBSET People
  BY DEF Rows
<1>6. GridList!Page(page)
  BY <1>1, <1>2, <1>3, <1>4 DEF GridList!Page, GridList!MayShow
<1> QED
  BY <1>5, <1>6 DEF GridList!Next

LEMMA SearchRefines ==
  NearbyTypeOK /\ PageInv /\ [NearbyNext]_nearbyVars => [GridList!Next]_(GridList!vars)
<1> SUFFICES ASSUME NearbyTypeOK, PageInv, [NearbyNext]_nearbyVars
             PROVE  GridList!Next \/ UNCHANGED GridList!vars
  OBVIOUS
<1>a. ASSUME NEW pc, GoOn(pc), Walking, pc \notin {"closed", "broken"}
      PROVE  UNCHANGED GridList!vars
  BY <1>a DEF GoOn, history, NearbyTypeOK, Walking, GridList!vars
<1>1. CASE UNCHANGED nearbyVars
  BY <1>1 DEF nearbyVars, handler, history, Walking, GridList!vars
<1>2. CASE \/ \E u \in Roaming : Move(u)
           \/ Wander
           \/ \E u \in Fickle : SetDiscoverable(u) \/ BlockOrUnblock(u)
  BY <1>2, WatchedRefines
     DEF Move, Wander, SetDiscoverable, BlockOrUnblock, GridList!Next
<1>3. CASE OpenGrid
  <2>1. CanBeFound \subseteq People /\ CannotBeSeen \subseteq People /\ shunned \subseteq People
    BY DEF CanBeFound, CannotBeSeen, NearbyTypeOK
  <2>2. CanBeFound \cap (shunned \cup CannotBeSeen) = {}
    BY DistanceOfType DEF CanBeFound, CannotBeSeen, InRange
  <2>3. GridList!Begin
    BY <1>3, <2>1, <2>2 DEF OpenGrid, Walking, GridList!Begin
  <2> QED
    BY <2>3 DEF GridList!Next
<1>4. CASE Leave \/ Done
  BY <1>4, OverRefines DEF Leave, Done, Walking, PageInv, BoundaryInv, GridList!Next
<1>5. CASE RequireOrigin
  BY <1>5, <1>a, OverRefines DEF RequireOrigin, Walking, GridList!Next
<1>6. CASE BlockedIdsFor
  BY <1>6, <1>a DEF BlockedIdsFor, Walking
<1>7. CASE ResolveCursor
  BY <1>7, <1>a, OverRefines DEF ResolveCursor, Walking, GridList!Next
<1>8. CASE Query
  BY <1>8, QueryRefines
<1> QED
  BY <1>1, <1>2, <1>3, <1>4, <1>5, <1>6, <1>7, <1>8 DEF NearbyNext

(* Paging through the Grid is reading a list.                              *)
THEOREM GridImplementsListing == NearbySpec => NearbyIsListing
<1>1. NearbyInit => GridList!Init
  BY DEF NearbyInit, GridList!Init, Walking
<1> QED
  BY <1>1, SearchRefines, NearbyTypeCorrect, PagesKeepPace, PTL
     DEF NearbySpec, NearbyIsListing, GridList!Spec

-----------------------------------------------------------------------------
(* Every radius that may be asked for is a bound of the labels: it divides  *)
(* none of them, its own edge apart.                                       *)
THEOREM RadiusDividesNoBucket == NearbySpec => []RadiusTellsTheLabel
<1>1. NearbyTypeOK => RadiusTellsTheLabel
  <2> SUFFICES ASSUME NearbyTypeOK, NEW u \in People, NEW v \in People,
                      InRange(u), ~InRange(v), DistanceOf(v) # Away,
                      SameBucket(DistanceOf(u), DistanceOf(v))
               PROVE  DistanceOf(u) = Radius
    BY DEF RadiusTellsTheLabel
  <2>1. DistanceOf(u) \in Nat /\ DistanceOf(v) \in Nat /\ Radius \in Nat
    BY DistanceOfType, NearbyAssumption DEF InRange, NearbyAssumption, GRID_RADIUS_METERS
  <2>2. DistanceOf(u) < Radius <=> DistanceOf(v) < Radius
    BY NearbyAssumption DEF SameBucket, NearbyAssumption, GRID_RADIUS_METERS, BucketBounds
  <2> QED
    BY <2>1, <2>2 DEF InRange
<1> QED
  BY <1>1, NearbyTypeCorrect, PTL

-----------------------------------------------------------------------------
(* THREADPAGING: the pages of a thread, and what its activity says.         *)

(* The types.                                                              *)

MailType == [pc : {"none", "inserted", "updated", "committed", "gone"}, sentAt : 0..LastStamp]

LEMMA GoesType ==
  ASSUME PagingTypeOK, NEW m \in Mails,
         NEW pc \in {"none", "inserted", "updated", "committed", "gone"}, Goes(m, pc)
  PROVE  /\ mail' \in [Mails -> MailType]
         /\ mail'[m].pc = pc
         /\ \A n \in Mails : mail'[n].sentAt = mail[n].sentAt
         /\ \A n \in Mails \ {m} : mail'[n].pc = mail[n].pc
BY DEF PagingTypeOK, MailType, Goes

LEMMA WriteType ==
  ASSUME PagingTypeOK, Unread, mail' \in [Mails -> MailType], exists' \in BOOLEAN,
         lastMessageAt' \in 0..LastStamp, overlap' \subseteq Mails \X Mails, clock' = clock
  PROVE  PagingTypeOK'
BY DEF PagingTypeOK, MailType, Unread

LEMMA EndType ==
  ASSUME PagingTypeOK, NEW pc \in {"closed", "broken"}, EndReading(pc)
  PROVE  PagingTypeOK'
BY DEF PagingTypeOK, EndReading, writing

LEMMA FindType ==
  ASSUME PagingTypeOK, FindMany
  PROVE  PagingTypeOK'
<1>1. FromCursor \subseteq Mails
  BY DEF FromCursor, Committed
<1>2. /\ reader' \in [pc : {"closed", "broken", "page", "find", "end"}, cursor : Mails \cup {NoMail}]
      /\ \E page \in SUBSET Mails : shown' = shown \cup page /\ reshown' = reshown \cup (page \cap shown)
  <2>1. PICK rest \in SUBSET Mails :
          \/ \E page \in SUBSET rest, last \in rest :
               /\ reader' = [pc |-> "page", cursor |-> last]
               /\ shown' = shown \cup page
               /\ reshown' = reshown \cup (page \cap shown)
          \/ /\ reader' = [pc |-> "end", cursor |-> NoMail]
             /\ shown' = shown \cup rest
             /\ reshown' = reshown \cup (rest \cap shown)
    BY <1>1 DEF FindMany
  <2> QED
    BY <2>1
<1> QED
  BY <1>2 DEF FindMany, PagingTypeOK, writing

LEMMA PagingStepType == PagingTypeOK /\ [PagingNext]_pagingVars => PagingTypeOK'
<1> SUFFICES ASSUME PagingTypeOK, [PagingNext]_pagingVars
             PROVE  PagingTypeOK'
  OBVIOUS
<1>1. CASE UNCHANGED pagingVars
  BY <1>1 DEF PagingTypeOK, pagingVars, writing, reading
<1>2. ASSUME NEW m \in Mails, InsertMail(m)
      PROVE  PagingTypeOK'
  <2>1. mail' \in [Mails -> MailType]
    BY <1>2, PagingAssumption DEF InsertMail, PagingTypeOK, MailType, PagingAssumption
  <2>2. overlap' \subseteq Mails \X Mails
    BY <1>2 DEF InsertMail, PagingTypeOK, InFlight
  <2> QED
    BY <1>2, <2>1, <2>2, WriteType DEF InsertMail, PagingTypeOK
<1>3. ASSUME NEW m \in Mails, UpdatePing(m) \/ RollBack(m)
      PROVE  PagingTypeOK'
  BY <1>3, GoesType, WriteType DEF UpdatePing, RollBack, PagingTypeOK
<1>4. ASSUME NEW m \in Mails, CommitMail(m)
      PROVE  PagingTypeOK'
  <2>1. mail[m].sentAt \in 0..LastStamp
    BY DEF PagingTypeOK
  <2> QED
    BY <1>4, <2>1, GoesType, WriteType DEF CommitMail, PagingTypeOK
<1>5. CASE DeletePing
  <2>1. mail' \in [Mails -> MailType]
    BY <1>5 DEF DeletePing, PagingTypeOK, MailType
  <2> QED
    BY <1>5, <2>1, WriteType DEF DeletePing, PagingTypeOK
<1>6. CASE TickClock
  BY <1>6, PagingAssumption DEF TickClock, PagingTypeOK, reading, PagingAssumption
<1>7. CASE OpenThread
  BY <1>7 DEF OpenThread, PagingTypeOK, writing, Untied, Committed
<1>8. CASE CloseThread \/ ReadAll
  BY <1>8, EndType DEF CloseThread, ReadAll
<1>9. CASE GateReader
  <2>1. CASE /\ reader' = [reader EXCEPT !.pc = "find"]
             /\ UNCHANGED <<writing, shown, reshown, kept, outside>>
    BY <2>1 DEF PagingTypeOK, writing
  <2> QED
    BY <1>9, <2>1, EndType DEF GateReader
<1>10. CASE FindMany
  BY <1>10, FindType
<1> QED
  BY <1>1, <1>2, <1>3, <1>4, <1>5, <1>6, <1>7, <1>8, <1>9, <1>10 DEF PagingNext

(* Every variable keeps to its type.                                       *)
THEOREM PagingTypeCorrect == PagingSpec => []PagingTypeOK
<1>1. PagingInit => PagingTypeOK
  BY PagingAssumption DEF PagingInit, PagingTypeOK, PagingAssumption
<1> QED
  BY <1>1, PagingStepType, PTL DEF PagingSpec

-----------------------------------------------------------------------------
(* The stamp of the last activity.  Whoever took a later stamp than one    *)
(* whose transaction is open took it during that transaction.              *)

ClockInv ==
  \A m \in Mails :
    /\ mail[m].sentAt <= clock
    /\ mail[m].pc \notin {"none", "gone"} => mail[m].sentAt > 0

OverlapInv ==
  \A m \in InFlight, n \in Committed \cup InFlight :
    mail[n].sentAt > mail[m].sentAt => <<m, n>> \in overlap

ActivityInv == ClockInv /\ OverlapInv /\ ActivityLags

LEMMA ActivityStep ==
  PagingTypeOK /\ ActivityInv /\ [PagingNext]_pagingVars => ActivityInv'
<1> SUFFICES ASSUME PagingTypeOK, ActivityInv, [PagingNext]_pagingVars
             PROVE  ActivityInv'
  OBVIOUS
<1>1. CASE UNCHANGED writing
  BY <1>1 DEF writing, ActivityInv, ClockInv, OverlapInv, ActivityLags, InFlight, Committed
<1>2. ASSUME NEW m \in Mails, InsertMail(m)
      PROVE  ActivityInv'
  <2>1. /\ mail'[m] = [pc |-> "inserted", sentAt |-> clock]
        /\ \A n \in Mails \ {m} : mail'[n] = mail[n]
        /\ mail[m].pc = "none" /\ clock' = clock /\ clock \in Nat \ {0}
    BY <1>2, PagingAssumption DEF InsertMail, PagingTypeOK, PagingAssumption
  <2>2. ClockInv'
    BY <2>1 DEF ActivityInv, ClockInv
  <2>3. InFlight' = InFlight \cup {m} /\ Committed' = Committed
    BY <2>1 DEF InFlight, Committed
  <2>4. OverlapInv'
    <3> SUFFICES ASSUME NEW k \in InFlight \cup {m}, NEW n \in Committed \cup InFlight \cup {m},
                        mail'[n].sentAt > mail'[k].sentAt
                 PROVE  <<k, n>> \in overlap'
      BY <2>3 DEF OverlapInv
    <3>1. k # m
      <4>1. n \in Mails /\ mail'[n].sentAt <= clock
        BY <2>1, <2>2 DEF ClockInv, Committed, InFlight
      <4> QED
        BY <2>1, <4>1 DEF PagingTypeOK, Committed, InFlight
    <3>2. CASE n = m
      BY <1>2, <3>1, <3>2 DEF InsertMail
    <3>3. CASE n # m
      <4>1. k \in Mails /\ n \in Mails
        BY DEF InFlight, Committed
      <4> QED
        BY <1>2, <2>1, <3>1, <3>3, <4>1 DEF InsertMail, ActivityInv, OverlapInv
    <3> QED
      BY <3>2, <3>3
  <2>5. ActivityLags'
    <3>1. \A n \in Committed : n # m /\ n \in Mails /\ mail'[n] = mail[n]
      BY <2>1 DEF Committed
    <3> QED
      BY <1>2, <2>3, <3>1 DEF InsertMail, ActivityInv, ActivityLags
  <2> QED
    BY <2>2, <2>4, <2>5 DEF ActivityInv
<1>3. ASSUME NEW m \in Mails, UpdatePing(m) \/ RollBack(m)
      PROVE  ActivityInv'
  <2>1. /\ \A n \in Mails : mail'[n].sentAt = mail[n].sentAt
        /\ \A n \in Mails \ {m} : mail'[n].pc = mail[n].pc
        /\ m \in InFlight /\ mail'[m].pc \in {"updated", "gone"}
    BY <1>3, GoesType DEF UpdatePing, RollBack, InFlight
  <2>2. InFlight' \subseteq InFlight /\ Committed' = Committed
    BY <2>1 DEF InFlight, Committed
  <2>3. UNCHANGED <<clock, exists, lastMessageAt, overlap>>
    BY <1>3 DEF UpdatePing, RollBack
  <2>4. ClockInv'
    BY <2>1, <2>3 DEF ActivityInv, ClockInv, InFlight
  <2>5. OverlapInv' /\ ActivityLags'
    <3>1. \A n \in Committed \cup InFlight : mail'[n].sentAt = mail[n].sentAt
      BY <2>1 DEF Committed, InFlight
    <3> QED
      BY <2>2, <2>3, <3>1 DEF ActivityInv, OverlapInv, ActivityLags
  <2> QED
    BY <2>4, <2>5 DEF ActivityInv
<1>4. ASSUME NEW m \in Mails, CommitMail(m)
      PROVE  ActivityInv'
  <2>1. /\ \A n \in Mails : mail'[n].sentAt = mail[n].sentAt
        /\ \A n \in Mails \ {m} : mail'[n].pc = mail[n].pc
        /\ m \in InFlight /\ mail'[m].pc = "committed"
    BY <1>4, GoesType DEF CommitMail, InFlight
  <2>2. InFlight' \subseteq InFlight /\ Committed' = Committed \cup {m}
    BY <2>1 DEF InFlight, Committed
  <2>3. UNCHANGED <<clock, exists, overlap>> /\ lastMessageAt' = mail[m].sentAt
    BY <1>4 DEF CommitMail
  <2>4. ClockInv'
    BY <2>1, <2>3 DEF ActivityInv, ClockInv, InFlight
  <2>5. OverlapInv'
    <3>1. \A n \in Committed \cup InFlight : mail'[n].sentAt = mail[n].sentAt
      BY <2>1 DEF Committed, InFlight
    <3> QED
      BY <2>1, <2>2, <2>3, <3>1 DEF ActivityInv, OverlapInv
  <2>6. ActivityLags'
    <3>1. lastMessageAt' # 0
      BY <2>1, <2>3 DEF ActivityInv, ClockInv, InFlight, PagingTypeOK
    <3>2. \A n \in Committed' : mail'[n].sentAt > lastMessageAt' => <<m, n>> \in overlap'
      <4>1. mail[m].sentAt \in Nat
        BY DEF PagingTypeOK
      <4>2. ASSUME NEW n \in Committed', mail'[n].sentAt > lastMessageAt'
            PROVE  n \in Committed /\ mail[n].sentAt > mail[m].sentAt
        <5>1. n \in Mails /\ mail'[n].sentAt = mail[n].sentAt
          BY <2>1, <4>2 DEF Committed
        <5> QED
          BY <2>2, <2>3, <4>1, <4>2, <5>1
      <4> QED
        BY <2>1, <2>3, <4>2 DEF ActivityInv, OverlapInv
    <3> QED
      BY <2>1, <2>2, <2>3, <3>1, <3>2 DEF ActivityLags
  <2> QED
    BY <2>4, <2>5, <2>6 DEF ActivityInv
<1>5. CASE DeletePing
  <2>1. /\ \A n \in Mails : mail'[n].sentAt = mail[n].sentAt /\ mail'[n].pc = "gone"
        /\ exists' = FALSE /\ clock' = clock
    BY <1>5 DEF DeletePing, PagingTypeOK
  <2>2. InFlight' = {}
    BY <2>1 DEF InFlight
  <2> QED
    BY <2>1, <2>2 DEF ActivityInv, ClockInv, OverlapInv, ActivityLags
<1>6. CASE TickClock
  <2>1. UNCHANGED <<exists, mail, lastMessageAt, overlap>> /\ clock' = clock + 1
    BY <1>6 DEF TickClock
  <2>2. ClockInv'
    BY <2>1 DEF ActivityInv, ClockInv, PagingTypeOK
  <2> QED
    BY <2>1, <2>2 DEF ActivityInv, OverlapInv, ActivityLags, InFlight, Committed
<1> QED
  BY <1>1, <1>2, <1>3, <1>4, <1>5, <1>6
     DEF PagingNext, pagingVars, OpenThread, CloseThread, ReadAll, GateReader, FindMany, EndReading

(* The last activity of a thread is a message, and misses a newer one only *)
(* if the two were sent at the same time.                                  *)
THEOREM ActivityIsSound == PagingSpec => []ActivityLags
<1>1. PagingInit => ActivityInv
  BY DEF PagingInit, ActivityInv, ClockInv, OverlapInv, ActivityLags, InFlight, Committed
<1>2. ActivityInv => ActivityLags
  BY DEF ActivityInv
<1> QED
  BY <1>1, <1>2, ActivityStep, PagingTypeCorrect, PTL DEF PagingSpec

-----------------------------------------------------------------------------
(* The pages.  Of the messages that are kept, the pages so far have shown  *)
(* those whose stamp is not before the cursor's, and no others.            *)

HeldInv ==
  /\ kept \subseteq Untied
  /\ outside \cap Committed = {}
  /\ ~Reads => shown = {} /\ reshown = {} /\ kept = {} /\ outside = {}

CursorInv ==
  /\ reader.pc \in {"page", "find"} =>
       IF reader.cursor = NoMail THEN kept \cap shown = {}
       ELSE kept # {} => /\ reader.cursor \in Committed
                         /\ \A u \in kept :
                              u \in shown <=> mail[reader.cursor].sentAt <= mail[u].sentAt
  /\ reader.pc = "end" => kept \subseteq shown

ReadingInv == HeldInv /\ CursorInv

LEMMA EndReadingInv ==
  ASSUME NEW pc \in {"closed", "broken"}, EndReading(pc)
  PROVE  ReadingInv'
BY DEF EndReading, ReadingInv, HeldInv, CursorInv, Reads

(* What the writers do: no stamp of a committed message changes, and none  *)
(* is taken back but with all of them.                                     *)
LEMMA UnreadInv ==
  ASSUME PagingTypeOK, ReadingInv, Unread,
         Committed' = {} \/ Committed \subseteq Committed',
         \A m \in Committed : mail'[m].sentAt = mail[m].sentAt
  PROVE  ReadingInv'
<1>1. kept' \subseteq kept /\ kept' \subseteq Untied' /\ UNCHANGED <<reader, shown, reshown>>
  BY DEF Unread
<1>2. HeldInv'
  BY <1>1 DEF Unread, ReadingInv, HeldInv, Reads
<1>3. kept \subseteq Committed /\ (Committed' = {} => kept' = {})
  BY <1>1 DEF ReadingInv, HeldInv, Untied
<1>4. CursorInv'
  BY <1>1, <1>3 DEF ReadingInv, CursorInv
<1> QED
  BY <1>2, <1>4 DEF ReadingInv

(* What a page takes from a thread.                                        *)
LEMMA RestHolds ==
  ASSUME PagingTypeOK, ReadingInv, reader.pc = "find", NEW skipped \in Skipped,
         NEW u \in kept
  PROVE  u \in shown <=> u \notin FromCursor \ skipped
<1>1. u \in Committed /\ \A n \in Committed \ {u} : mail[n].sentAt # mail[u].sentAt
  BY DEF ReadingInv, HeldInv, Untied
<1>2. \A n \in Committed : mail[n].sentAt \in Nat
  BY DEF PagingTypeOK, Committed
<1>3. CASE reader.cursor = NoMail
  BY <1>1, <1>3 DEF ReadingInv, CursorInv, FromCursor, Skipped
<1>4. CASE reader.cursor # NoMail
  <2> DEFINE c == reader.cursor
             ties == {m \in FromCursor : mail[m].sentAt = mail[c].sentAt}
  <2>1. c \in Committed /\ (u \in shown <=> mail[c].sentAt <= mail[u].sentAt)
    BY <1>4 DEF ReadingInv, CursorInv
  <2>2. FromCursor = {m \in Committed : mail[m].sentAt <= mail[c].sentAt}
    BY <1>4, <2>1 DEF FromCursor
  <2>3. c \in ties /\ FromCursor # {}
    BY <1>2, <2>1, <2>2
  <2>4. skipped \subseteq ties /\ skipped # {}
    BY <1>4, <2>3 DEF Skipped
  <2>5. CASE u = c
    <3>1. ties = {u}
      BY <1>1, <2>2, <2>3, <2>5
    <3>2. skipped = {u}
      <4> HIDE DEF ties
      <4> QED
        BY <2>4, <3>1
    <3> QED
      BY <1>2, <2>1, <2>5, <3>2
  <2>6. CASE u # c
    <3>1. mail[u].sentAt # mail[c].sentAt
      BY <1>1, <2>1, <2>6
    <3> QED
      BY <1>1, <1>2, <2>1, <2>2, <2>4, <3>1
  <2> QED
    BY <2>5, <2>6
<1> QED
  BY <1>3, <1>4

LEMMA FindInv ==
  ASSUME PagingTypeOK, ReadingInv, FindMany
  PROVE  /\ ReadingInv'
         /\ reader.pc = "find" /\ reader'.pc \in {"page", "end"} /\ UNCHANGED <<kept, outside>>
         /\ \E page \in SUBSET Committed :
              /\ shown' = shown \cup page
              /\ reshown' = reshown \cup (page \cap shown)
              /\ page \cap shown \cap kept = {}
<1>1. PICK skipped \in Skipped :
        LET rest == FromCursor \ skipped
        IN \/ \E page \in SUBSET rest, last \in rest :
                /\ last \in page
                /\ Newest(page, rest) /\ Newest(page \ {last}, page)
                /\ reader' = [pc |-> "page", cursor |-> last]
                /\ shown' = shown \cup page
                /\ reshown' = reshown \cup (page \cap shown)
           \/ /\ reader' = [pc |-> "end", cursor |-> NoMail]
              /\ shown' = shown \cup rest
              /\ reshown' = reshown \cup (rest \cap shown)
  BY DEF FindMany
<1> DEFINE rest == FromCursor \ skipped
<1>2. reader.pc = "find" /\ UNCHANGED <<writing, kept, outside>>
  BY DEF FindMany
<1>3. rest \subseteq Committed /\ \A u \in kept : u \in shown <=> u \notin rest
  BY <1>2, RestHolds DEF FromCursor
<1>4. reader'.pc \in {"page", "end"}
  <2> HIDE DEF rest
  <2>1. \/ \E last \in rest : reader' = [pc |-> "page", cursor |-> last]
        \/ reader' = [pc |-> "end", cursor |-> NoMail]
    BY <1>1 DEF rest
  <2> QED
    BY <2>1
<1>5. HeldInv'
  <2>1. Untied' = Untied /\ Committed' = Committed
    BY <1>2 DEF writing, Untied, Committed
  <2>2. Reads'
    BY <1>4 DEF Reads
  <2> QED
    BY <1>2, <2>1, <2>2 DEF ReadingInv, HeldInv
<1>6. CASE /\ reader' = [pc |-> "end", cursor |-> NoMail]
           /\ shown' = shown \cup rest
           /\ reshown' = reshown \cup (rest \cap shown)
  <2>1. CursorInv'
    BY <1>2, <1>3, <1>6 DEF CursorInv
  <2>2. rest \in SUBSET Committed /\ rest \cap shown \cap kept = {}
    BY <1>3
  <2> HIDE DEF rest
  <2> QED
    BY <1>2, <1>5, <1>6, <1>4, <2>1, <2>2 DEF ReadingInv
<1>7. ASSUME NEW page \in SUBSET rest, NEW last \in page,
             Newest(page, rest), Newest(page \ {last}, page),
             reader' = [pc |-> "page", cursor |-> last],
             shown' = shown \cup page, reshown' = reshown \cup (page \cap shown)
      PROVE  /\ ReadingInv'
             /\ page \in SUBSET Committed /\ page \cap shown \cap kept = {}
  <2> HIDE DEF rest
  <2>1. last \in Committed /\ page \subseteq Committed /\ last \in rest
    BY <1>3, <1>7
  <2>2. \A n \in Committed : mail[n].sentAt \in Nat
    BY DEF PagingTypeOK, Committed
  <2>3. ASSUME NEW u \in kept
        PROVE  u \in shown' <=> mail[last].sentAt <= mail[u].sentAt
    <3>1. u \in Committed /\ \A n \in Committed \ {u} : mail[n].sentAt # mail[u].sentAt
      BY DEF ReadingInv, HeldInv, Untied
    <3>2. CASE u \in page
      <4>1. mail[last].sentAt <= mail[u].sentAt
        BY <1>7, <2>1, <2>2, <3>1, <3>2 DEF Newest
      <4> QED
        BY <1>7, <3>2, <4>1
    <3>3. CASE u \in rest \ page
      <4>1. mail[u].sentAt <= mail[last].sentAt
        BY <1>7, <3>3 DEF Newest
      <4>2. mail[u].sentAt # mail[last].sentAt
        BY <2>1, <3>1, <3>3
      <4>3. u \notin shown'
        BY <1>3, <1>7, <2>3, <3>3
      <4> QED
        BY <2>1, <2>2, <3>1, <4>1, <4>2, <4>3
    <3>4. CASE u \notin rest
      <4>1. u \in shown
        BY <1>3, <2>3, <3>4
      <4>2. reader.cursor # NoMail
        BY <1>2, <2>3, <4>1 DEF ReadingInv, CursorInv
      <4>3. /\ reader.cursor \in Committed
            /\ mail[reader.cursor].sentAt <= mail[u].sentAt
        BY <1>2, <2>3, <4>1, <4>2 DEF ReadingInv, CursorInv
      <4>4. mail[last].sentAt <= mail[reader.cursor].sentAt
        BY <2>1, <4>2 DEF rest, FromCursor
      <4>5. u \in shown'
        BY <1>7, <4>1
      <4> QED
        BY <2>1, <2>2, <3>1, <4>3, <4>4, <4>5
    <3> QED
      BY <3>2, <3>3, <3>4
  <2>4. CursorInv'
    <3>1. UNCHANGED <<mail, kept>> /\ Committed' = Committed
      BY <1>2 DEF writing, Committed
    <3>2. last # NoMail
      BY <2>1, PagingAssumption DEF PagingAssumption, Committed
    <3> QED
      BY <1>7, <2>1, <2>3, <3>1, <3>2 DEF CursorInv
  <2> QED
    BY <1>3, <1>5, <1>7, <2>1, <2>4 DEF ReadingInv
<1> QED
  <2> HIDE DEF rest
  <2>1. CASE \E page \in SUBSET rest, last \in rest :
                /\ last \in page
                /\ Newest(page, rest) /\ Newest(page \ {last}, page)
                /\ reader' = [pc |-> "page", cursor |-> last]
                /\ shown' = shown \cup page
                /\ reshown' = reshown \cup (page \cap shown)
    BY <1>2, <1>7, <1>4, <2>1
  <2>2. CASE /\ reader' = [pc |-> "end", cursor |-> NoMail]
             /\ shown' = shown \cup rest
             /\ reshown' = reshown \cup (rest \cap shown)
    <3>1. rest \in SUBSET Committed /\ rest \cap shown \cap kept = {}
      BY <1>3
    <3> QED
      BY <1>2, <1>6, <1>4, <2>2, <3>1
  <2> QED
    BY <1>1, <2>1, <2>2 DEF rest

LEMMA ReadingStep ==
  PagingTypeOK /\ ReadingInv /\ [PagingNext]_pagingVars => ReadingInv'
<1> SUFFICES ASSUME PagingTypeOK, ReadingInv, [PagingNext]_pagingVars
             PROVE  ReadingInv'
  OBVIOUS
<1>1. CASE UNCHANGED <<mail, reading>>
  BY <1>1 DEF reading, ReadingInv, HeldInv, CursorInv, Untied, Committed, Reads
<1>2. ASSUME NEW m \in Mails, InsertMail(m) \/ UpdatePing(m) \/ CommitMail(m) \/ RollBack(m)
      PROVE  ReadingInv'
  <2>1. mail[m].pc # "committed" /\ \A n \in Mails \ {m} : mail'[n] = mail[n]
    BY <1>2 DEF InsertMail, UpdatePing, CommitMail, RollBack, Goes, InFlight, PagingTypeOK
  <2>2. Committed \subseteq Committed' /\ \A n \in Committed : mail'[n].sentAt = mail[n].sentAt
    BY <2>1 DEF Committed
  <2> QED
    BY <1>2, <2>2, UnreadInv DEF InsertMail, UpdatePing, CommitMail, RollBack
<1>3. CASE DeletePing
  <2>1. Committed' = {} /\ \A n \in Committed : mail'[n].sentAt = mail[n].sentAt
    BY <1>3 DEF DeletePing, Committed, PagingTypeOK
  <2> QED
    BY <1>3, <2>1, UnreadInv DEF DeletePing
<1>4. CASE OpenThread
  BY <1>4 DEF OpenThread, writing, ReadingInv, HeldInv, CursorInv, Untied, Committed, Reads
<1>5. CASE CloseThread \/ ReadAll
  BY <1>5, EndReadingInv DEF CloseThread, ReadAll
<1>6. CASE GateReader
  <2>1. CASE /\ reader.pc = "page" /\ reader' = [reader EXCEPT !.pc = "find"]
             /\ UNCHANGED <<writing, shown, reshown, kept, outside>>
    <3>1. reader'.pc = "find" /\ reader'.cursor = reader.cursor
      BY <2>1 DEF PagingTypeOK
    <3> QED
      BY <2>1, <3>1 DEF writing, ReadingInv, HeldInv, CursorInv, Untied, Committed, Reads
  <2> QED
    BY <1>6, <2>1, EndReadingInv DEF GateReader
<1>7. CASE FindMany
  BY <1>7, FindInv
<1> QED
  BY <1>1, <1>2, <1>3, <1>4, <1>5, <1>6, <1>7 DEF PagingNext, pagingVars, writing, TickClock

LEMMA ReadingHolds == PagingSpec => []ReadingInv
<1>1. PagingInit => ReadingInv
  BY DEF PagingInit, ReadingInv, HeldInv, CursorInv, Reads
<1> QED
  BY <1>1, ReadingStep, PagingTypeCorrect, PTL DEF PagingSpec

-----------------------------------------------------------------------------
(* Every step is one of Listing, or none.                                  *)

LEMMA EndRefines ==
  ASSUME NEW pc \in {"closed", "broken"}, EndReading(pc), Reads,
         pc = "closed" => kept \subseteq shown
  PROVE  MailList!Finish \/ MailList!Abandon
BY DEF EndReading, Reads, MailList!Finish, MailList!Abandon, MailList!Cleared

LEMMA UnreadRefines ==
  ASSUME ReadingInv, Unread
  PROVE  MailList!Shake \/ UNCHANGED MailList!vars
<1>1. kept' \subseteq kept /\ outside' \subseteq outside /\ UNCHANGED <<reader, shown, reshown>>
  BY DEF Unread
<1>2. CASE Reads
  BY <1>1, <1>2 DEF Reads, MailList!Shake
<1>3. CASE ~Reads
  BY <1>1, <1>3 DEF Reads, ReadingInv, HeldInv, MailList!vars
<1> QED
  BY <1>2, <1>3

LEMMA FindRefines ==
  ASSUME PagingTypeOK, ReadingInv, FindMany
  PROVE  MailList!Next
<1>1. PICK page \in SUBSET Committed :
        /\ shown' = shown \cup page
        /\ reshown' = reshown \cup (page \cap shown)
        /\ page \cap shown \cap kept = {}
  BY FindInv
<1>2. reader.pc = "find" /\ reader'.pc \in {"page", "end"} /\ UNCHANGED <<kept, outside>>
  BY FindInv
<1>3. page \cap outside = {}
  BY DEF ReadingInv, HeldInv
<1>4. MailList!Page(page)
  BY <1>1, <1>2, <1>3 DEF Reads, MailList!Page, MailList!MayShow
<1>5. page \in SUBSET Mails
  BY DEF Committed
<1> QED
  BY <1>4, <1>5 DEF MailList!Next

LEMMA ReadingRefines ==
  PagingTypeOK /\ ReadingInv /\ [PagingNext]_pagingVars => [MailList!Next]_(MailList!vars)
<1> SUFFICES ASSUME PagingTypeOK, ReadingInv, [PagingNext]_pagingVars
             PROVE  MailList!Next \/ UNCHANGED MailList!vars
  OBVIOUS
<1>1. CASE UNCHANGED reading
  BY <1>1 DEF reading, Reads, MailList!vars
<1>2. CASE DeletePing \/ \E m \in Mails : \/ InsertMail(m) \/ UpdatePing(m)
                                          \/ CommitMail(m) \/ RollBack(m)
  BY <1>2, UnreadRefines
     DEF InsertMail, UpdatePing, CommitMail, RollBack, DeletePing, MailList!Next
<1>3. CASE OpenThread
  <2>1. Untied \subseteq Mails /\ Mails \ Committed \subseteq Mails \ Untied
    BY DEF Untied, Committed
  <2>2. MailList!Begin
    BY <1>3, <2>1 DEF OpenThread, Reads, MailList!Begin
  <2> QED
    BY <2>2 DEF MailList!Next
<1>4. CASE CloseThread \/ ReadAll
  BY <1>4, EndRefines DEF CloseThread, ReadAll, Reads, ReadingInv, CursorInv, MailList!Next
<1>5. CASE GateReader
  <2>1. CASE /\ reader.pc = "page" /\ reader' = [reader EXCEPT !.pc = "find"]
             /\ UNCHANGED <<writing, shown, reshown, kept, outside>>
    BY <2>1 DEF PagingTypeOK, Reads, MailList!vars
  <2>2. CASE EndReading("broken") /\ reader.pc = "page"
    BY <2>2, EndRefines DEF Reads, MailList!Next
  <2> QED
    BY <1>5, <2>1, <2>2 DEF GateReader
<1>6. CASE FindMany
  BY <1>6, FindRefines
<1> QED
  BY <1>1, <1>2, <1>3, <1>4, <1>5, <1>6 DEF PagingNext, pagingVars, TickClock

(* Reading a thread page by page is reading a list.                        *)
THEOREM ThreadImplementsListing == PagingSpec => ThreadIsListing
<1>1. PagingInit => MailList!Init
  BY DEF PagingInit, MailList!Init, Reads
<1> QED
  BY <1>1, ReadingRefines, PagingTypeCorrect, ReadingHolds, PTL
     DEF PagingSpec, ThreadIsListing, MailList!Spec
-----------------------------------------------------------------------------
(* The three side by side, as TLC runs them.                               *)

(* Type correctness of the three: the row of a location and its reports, the
   searcher's request and its cursor, the messages of a thread and its
   reader hold only what the handlers are written for.                     *)
THEOREM ListsTypeCorrect == Spec => []TypeOK
<1>1. LocationInit => LocationTypeOK
  BY LocationInitType
<1>2. NearbyInit => NearbyTypeOK
  BY DEF NearbyInit, NearbyTypeOK
<1>3. PagingInit => PagingTypeOK
  BY PagingAssumption DEF PagingInit, PagingTypeOK, PagingAssumption
<1>4. Init => TypeOK
  BY <1>1, <1>2, <1>3 DEF Init, TypeOK
<1>5. TypeOK /\ [Next]_<<part, locationVars, nearbyVars, pagingVars>> => TypeOK'
  <2> SUFFICES ASSUME TypeOK, [Next]_<<part, locationVars, nearbyVars, pagingVars>>
               PROVE  TypeOK'
    OBVIOUS
  <2>1. /\ [LocationNext]_locationVars
        /\ [NearbyNext]_nearbyVars
        /\ [PagingNext]_pagingVars
    BY DEF Next
  <2> QED
    BY <2>1, LocationStepType, NearbyStepType, PagingStepType DEF TypeOK
<1> QED
  BY <1>4, <1>5, PTL DEF Spec
=============================================================================
