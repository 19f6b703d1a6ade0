----------------------------- MODULE MediaProofs -----------------------------
(***************************************************************************)
(* Proofs about Media, for any uploads, requests in flight and workers,    *)
(* any number of tries and stalls of a job, with or without failures of    *)
(* the object store and crashes.                                           *)
(***************************************************************************)
EXTENDS Media, TLAPS

-----------------------------------------------------------------------------
(* The inductive invariant, one part per variable, and one that relates    *)
(* them.                                                                   *)

AssetType == [status : Statuses \cup {"NONE", "DELETED"}, old : BOOLEAN, blurred : BOOLEAN]

JobType == [state : {"NONE", "WAITING", "ACTIVE", "DONE", "FAILED"}, tries : 0..MaxTries,
            stalls : 0..MaxStalls, holder : Workers \cup {NoWorker}]

CallType == [op : {"none", "upload", "confirm", "delete"},
             pc : {"idle", "count", "create", "key", "load", "enqueue", "write", "erase",
                   "row"},
             asset : Assets \cup {NoAsset}, blurred : BOOLEAN]

WorkerType == [pc : {"idle", "load", "head", "get", "put", "blur", "ready", "erase", "reject"},
               asset : Assets \cup {NoAsset}]

SweepType == [pc : {"idle", "erase", "reject"}, list : SUBSET Assets,
              asset : Assets \cup {NoAsset}]

RowsOK == asset \in [Assets -> AssetType]

StoreOK ==
  /\ object \in [Assets -> {"NONE", "RAW", "BAD", "CLEAN"}]
  /\ thumb \in SUBSET Assets
  /\ url \in SUBSET Assets
  /\ openAtPut \in SUBSET Assets

(* A request or a worker past its first step has an asset in hand.         *)
CallKnows(x) == x.pc \notin {"idle", "count"} => x.asset \in Assets

CallsOK == call \in [Calls -> CallType] /\ \A c \in Calls : CallKnows(call[c])

WorkersOK ==
  /\ worker \in [Workers -> WorkerType]
  /\ \A w \in Workers : worker[w].pc # "idle" => worker[w].asset \in Assets

(* A job that is still to run has a try left, and only one that runs has a *)
(* holder.                                                                 *)
JobKnows(x) ==
  /\ x.state \in {"NONE", "WAITING", "ACTIVE"} => x.tries < MaxTries
  /\ x.holder # NoWorker => x.state = "ACTIVE"

QueueOK == job \in [Assets -> JobType] /\ \A a \in Assets : JobKnows(job[a])

SweepOK == sweep \in SweepType /\ (sweep.pc # "idle" => sweep.asset \in Assets)

TypeInv == RowsOK /\ StoreOK /\ CallsOK /\ WorkersOK /\ QueueOK /\ SweepOK

LEMMA TypeInvType == TypeInv => TypeOK
BY DEF TypeInv, RowsOK, StoreOK, CallsOK, WorkersOK, QueueOK, SweepOK, TypeOK, AssetType,
   JobType, CallType, WorkerType, SweepType

(* What a step leaves alone stays right.                                   *)
LEMMA Kept ==
  /\ RowsOK /\ UNCHANGED asset => RowsOK'
  /\ StoreOK /\ UNCHANGED Stored => StoreOK'
  /\ CallsOK /\ UNCHANGED call => CallsOK'
  /\ WorkersOK /\ UNCHANGED worker => WorkersOK'
  /\ QueueOK /\ UNCHANGED job => QueueOK'
  /\ SweepOK /\ UNCHANGED sweep => SweepOK'
BY DEF RowsOK, StoreOK, Stored, CallsOK, CallKnows, WorkersOK, QueueOK, JobKnows, SweepOK

-----------------------------------------------------------------------------
(* How each of the variables moves.                                        *)

LEMMA CallMoves ==
  ASSUME CallsOK, NEW c \in Calls, NEW x \in CallType, CallKnows(x),
         call' = [call EXCEPT ![c] = x]
  PROVE  CallsOK' /\ call'[c] = x /\ \A d \in Calls \ {c} : call'[d] = call[d]
<1>1. /\ call' \in [Calls -> CallType]
      /\ call'[c] = x /\ \A d \in Calls \ {c} : call'[d] = call[d]
  BY DEF CallsOK
<1> QED
  BY <1>1 DEF CallsOK, CallKnows

LEMMA IdleCallType == IdleCall \in CallType
BY DEF IdleCall, CallType

LEMMA EndAt ==
  ASSUME CallsOK, NEW c \in Calls, End(c)
  PROVE  CallsOK' /\ call'[c] = IdleCall /\ \A d \in Calls \ {c} : call'[d] = call[d]
<1>1. IdleCall \in CallType /\ CallKnows(IdleCall)
  BY IdleCallType DEF IdleCall, CallKnows
<1> QED
  BY <1>1, CallMoves DEF End

LEMMA GotoAt ==
  ASSUME CallsOK, NEW c \in Calls, call[c].pc \notin {"idle", "count"},
         NEW pc \in {"key", "enqueue", "write", "erase", "row"}, Goto(c, pc)
  PROVE  /\ CallsOK' /\ \A d \in Calls \ {c} : call'[d] = call[d]
         /\ call'[c].pc = pc /\ call'[c].op = call[c].op /\ call'[c].asset = call[c].asset
<1> DEFINE x == [call[c] EXCEPT !.pc = pc]
<1>1. call[c] \in CallType /\ CallKnows(call[c])
  BY DEF CallsOK
<1>2. x \in CallType /\ x.pc = pc /\ x.op = call[c].op /\ x.asset = call[c].asset
  BY <1>1 DEF CallType
<1>3. call' = [call EXCEPT ![c] = x]
  BY DEF Goto, CallsOK
<1> HIDE DEF x
<1>4. CallKnows(x)
  BY <1>1, <1>2 DEF CallKnows
<1> QED
  BY <1>2, <1>3, <1>4, CallMoves

LEMMA SetStatusAt ==
  ASSUME RowsOK, NEW a \in Assets, NEW status \in Statuses \cup {"DELETED"},
         SetStatus(a, status)
  PROVE  /\ RowsOK' /\ asset'[a].status = status
         /\ \A b \in Assets \ {a} : asset'[b] = asset[b]
<1> DEFINE x == [asset[a] EXCEPT !.status = status, !.old = FALSE]
<1>1. asset[a] \in AssetType
  BY DEF RowsOK
<1>2. x \in AssetType /\ x.status = status
  BY <1>1 DEF AssetType
<1>3. asset' = [asset EXCEPT ![a] = x]
  BY DEF SetStatus, RowsOK
<1> HIDE DEF x
<1> QED
  BY <1>2, <1>3 DEF RowsOK

LEMMA EraseAt ==
  ASSUME StoreOK, NEW a \in Assets, Erase(a)
  PROVE  /\ object' \in [Assets -> {"NONE", "RAW", "BAD", "CLEAN"}]
         /\ \A b \in Assets : object'[b] = object[b] \/ object'[b] = "NONE"
BY DEF Erase, StoreOK

LEMMA WorkerMoves ==
  ASSUME WorkersOK, NEW w \in Workers, NEW x \in WorkerType, x.pc # "idle" => x.asset \in Assets,
         worker' = [worker EXCEPT ![w] = x]
  PROVE  WorkersOK' /\ worker'[w] = x /\ \A v \in Workers \ {w} : worker'[v] = worker[v]
<1>1. /\ worker' \in [Workers -> WorkerType]
      /\ worker'[w] = x /\ \A v \in Workers \ {w} : worker'[v] = worker[v]
  BY DEF WorkersOK
<1> QED
  BY <1>1 DEF WorkersOK

LEMMA StepAt ==
  ASSUME WorkersOK, NEW w \in Workers, worker[w].pc # "idle",
         NEW pc \in {"head", "get", "put", "blur", "ready", "erase", "reject"}, Step(w, pc)
  PROVE  /\ WorkersOK' /\ \A v \in Workers \ {w} : worker'[v] = worker[v]
         /\ worker'[w].pc = pc /\ worker'[w].asset = worker[w].asset
         /\ job' = job
<1> DEFINE x == [worker[w] EXCEPT !.pc = pc]
<1>1. worker[w] \in WorkerType /\ worker[w].asset \in Assets
  BY DEF WorkersOK
<1>2. x \in WorkerType /\ x.pc = pc /\ x.asset = worker[w].asset
  BY <1>1 DEF WorkerType
<1>3. worker' = [worker EXCEPT ![w] = x] /\ job' = job
  BY DEF Step, WorkersOK
<1> HIDE DEF x
<1> QED
  BY <1>1, <1>2, <1>3, WorkerMoves

LEMMA WorkerIdles ==
  ASSUME WorkersOK, NEW w \in Workers, worker' = [worker EXCEPT ![w] = IdleWorker]
  PROVE  /\ WorkersOK' /\ \A v \in Workers \ {w} : worker'[v] = worker[v]
         /\ worker'[w] = IdleWorker
<1>1. IdleWorker \in WorkerType /\ IdleWorker.pc = "idle"
  BY DEF IdleWorker, WorkerType
<1> QED
  BY <1>1, WorkerMoves

LEMMA JobMoves ==
  ASSUME QueueOK, NEW a \in Assets, NEW x \in JobType, JobKnows(x),
         job' = [job EXCEPT ![a] = x]
  PROVE  QueueOK' /\ job'[a] = x /\ \A b \in Assets \ {a} : job'[b] = job[b]
<1>1. /\ job' \in [Assets -> JobType]
      /\ job'[a] = x /\ \A b \in Assets \ {a} : job'[b] = job[b]
  BY DEF QueueOK
<1> QED
  BY <1>1 DEF QueueOK, JobKnows

(* A worker that finishes is done with the job, if it is still its own.    *)
LEMMA FinishAt ==
  ASSUME TypeInv, NEW w \in Workers, worker[w].pc # "idle",
         NEW state \in {"WAITING", "DONE", "FAILED"}, NEW tries \in Nat,
         job[worker[w].asset].state = "ACTIVE" =>
           tries <= MaxTries /\ (state = "WAITING" => tries < MaxTries),
         Finish(w, state, tries)
  PROVE  /\ WorkersOK' /\ \A v \in Workers \ {w} : worker'[v] = worker[v]
         /\ worker'[w] = IdleWorker
         /\ QueueOK' /\ \A b \in Assets \ {worker[w].asset} : job'[b] = job[b]
         /\ \A b \in Assets : job[b].state # "NONE" => job'[b].state # "NONE"
<1>1. PICK a : a = worker[w].asset
  OBVIOUS
<1>2. a \in Assets /\ job[a] \in JobType /\ JobKnows(job[a]) /\ QueueOK /\ WorkersOK
  BY <1>1 DEF TypeInv, WorkersOK, QueueOK
<1>3. /\ WorkersOK' /\ \A v \in Workers \ {w} : worker'[v] = worker[v]
      /\ worker'[w] = IdleWorker
  BY <1>2, WorkerIdles DEF Finish
<1>4. CASE job[a].holder # w
  <2>1. job' = job
    BY <1>1, <1>4 DEF Finish
  <2> QED
    BY <1>1, <1>2, <1>3, <2>1, Kept
<1>5. CASE job[a].holder = w
  <2> DEFINE x == [job[a] EXCEPT !.state = state, !.tries = tries, !.holder = NoWorker]
  <2>1. job[a].state = "ACTIVE" /\ tries \in 0..MaxTries
    BY <1>1, <1>2, <1>5, MediaAssumption DEF JobKnows, MediaAssumption
  <2>2. x \in JobType /\ x.state = state /\ x.tries = tries /\ x.holder = NoWorker
    BY <1>2, <2>1 DEF JobType
  <2>3. job' = [job EXCEPT ![a] = x]
    BY <1>1, <1>5, <1>2 DEF Finish, QueueOK
  <2> HIDE DEF x
  <2>4. JobKnows(x)
    BY <1>1, <2>1, <2>2 DEF JobKnows
  <2>5. QueueOK' /\ job'[a] = x /\ \A b \in Assets \ {a} : job'[b] = job[b]
    BY <1>2, <2>2, <2>3, <2>4, JobMoves
  <2>6. \A b \in Assets : job[b].state # "NONE" => job'[b].state # "NONE"
    BY <2>2, <2>5
  <2> QED
    BY <1>1, <1>3, <2>5, <2>6
<1> QED
  BY <1>4, <1>5

LEMMA DoneOrThrowAt ==
  ASSUME TypeInv, NEW w \in Workers, worker[w].pc # "idle", Done(w) \/ Throw(w)
  PROVE  /\ WorkersOK' /\ \A v \in Workers \ {w} : worker'[v] = worker[v]
         /\ worker'[w] = IdleWorker
         /\ QueueOK' /\ \A b \in Assets \ {worker[w].asset} : job'[b] = job[b]
         /\ \A b \in Assets : job[b].state # "NONE" => job'[b].state # "NONE"
<1> DEFINE n == Tries(w)
<1>1. /\ n \in 0..MaxTries /\ MaxTries \in Nat
      /\ job[worker[w].asset].state = "ACTIVE" => n < MaxTries
  BY MediaAssumption DEF MediaAssumption, Tries, TypeInv, WorkersOK, QueueOK, JobType, JobKnows
<1> HIDE DEF n
<1>2. CASE Done(w)
  <2>1. Finish(w, "DONE", n)
    BY <1>2 DEF Done, n
  <2> QED
    BY <1>1, <2>1, FinishAt
<1>3. CASE Throw(w)
  <2>1. Finish(w, IF n + 1 < MaxTries THEN "WAITING" ELSE "FAILED", n + 1)
    BY <1>3 DEF Throw, n
  <2>2. CASE n + 1 < MaxTries
    <3>1. Finish(w, "WAITING", n + 1)
      BY <2>1, <2>2
    <3> QED
      BY <1>1, <2>2, <3>1, FinishAt
  <2>3. CASE ~(n + 1 < MaxTries)
    <3>1. Finish(w, "FAILED", n + 1)
      BY <2>1, <2>3
    <3> QED
      BY <1>1, <3>1, FinishAt
  <2> QED
    BY <2>2, <2>3
<1> QED
  BY <1>2, <1>3
-----------------------------------------------------------------------------
(* What the bytes are.  The URL of an asset is given once, before anybody  *)
(* else knows of the asset; so a URL that is dead when a worker puts stays *)
(* dead, and what the worker put is safe from the client.                  *)

HasJob(a) == job[a].state # "NONE"

Reserving(a) == \E c \in Calls : call[c].op = "upload" /\ call[c].asset = a

Known(a) == Status(a) # "NONE" /\ ~Reserving(a)

KnownInv ==
  /\ \A c \in Calls :
       call[c].op = "confirm" => call[c].asset \in Assets /\ Known(call[c].asset)
  /\ \A a \in Assets : HasJob(a) => Known(a)

Safe(a) == a \in openAtPut \/ (a \notin url /\ Sanitised(a))

SealedInv ==
  /\ \A a \in Assets : Status(a) = "READY" => HasJob(a) /\ Safe(a)
  /\ \A w \in Workers :
       /\ worker[w].pc # "idle" => HasJob(worker[w].asset)
       /\ worker[w].pc \in {"blur", "ready"} => Safe(worker[w].asset)

MediaInv == TypeInv /\ KnownInv /\ SealedInv

(* What a step may do to a request: drop it, carry it on, reserve an id that
   is free, or take up one that is known.                                  *)
CallStays(c) ==
  \/ call'[c].op \notin {"upload", "confirm"}
  \/ call'[c].op = call[c].op /\ call'[c].asset = call[c].asset
  \/ call'[c].op = "upload" /\ (call'[c].asset = NoAsset \/ Status(call'[c].asset) = "NONE")
  \/ call'[c].op = "confirm" /\ call'[c].asset \in Assets /\ Known(call'[c].asset)

(* No row is forgotten, and no job comes but by a confirmation.            *)
Orderly ==
  /\ \A a \in Assets : Status(a) # "NONE" => asset'[a].status # "NONE"
  /\ \A a \in Assets : job'[a].state # "NONE" =>
       HasJob(a) \/ \E c \in Calls : call[c].op = "confirm" /\ call[c].asset = a
  /\ \A c \in Calls : CallStays(c)

(* A job stays one, and what is safe stays so.                             *)
Careful ==
  /\ \A a \in Assets : HasJob(a) => job'[a].state # "NONE"
  /\ \A a \in Assets : Known(a) /\ Safe(a) => Safe(a)'

(* Every worker stays where it is, goes idle, takes a job, or moves on to
   where its object need not be safe, or is.                               *)
WorkerStays(w) ==
  \/ worker'[w] = worker[w]
  \/ worker'[w].pc = "idle"
  \/ worker'[w].pc = "load" /\ worker'[w].asset \in Assets /\ HasJob(worker'[w].asset)
  \/ /\ worker[w].pc # "idle" /\ worker'[w].asset = worker[w].asset
     /\ \/ worker'[w].pc \notin {"blur", "ready"}
        \/ worker[w].pc = "blur"
        \/ Safe(worker[w].asset)'

LEMMA KnownStays ==
  ASSUME Orderly, NEW a \in Assets, Known(a)
  PROVE  Known(a)'
<1>1. Status(a)' # "NONE"
  BY DEF Orderly, Known, Status
<1>2. ASSUME NEW c \in Calls, call'[c].op = "upload", call'[c].asset = a PROVE FALSE
  BY <1>2, MediaAssumption DEF Orderly, CallStays, Known, Reserving, MediaAssumption
<1> QED
  BY <1>1, <1>2 DEF Known, Reserving

LEMMA KnownKept ==
  ASSUME KnownInv, Orderly
  PROVE  KnownInv'
<1>1. ASSUME NEW c \in Calls, call'[c].op = "confirm"
      PROVE  \E a \in Assets : a = call'[c].asset /\ Known(a)'
  <2>1. call'[c].asset \in Assets /\ Known(call'[c].asset)
    BY <1>1 DEF Orderly, CallStays, KnownInv
  <2>2. PICK a \in Assets : a = call'[c].asset /\ Known(a)
    BY <2>1
  <2>3. Known(a)'
    BY <2>2, KnownStays
  <2> QED
    BY <2>2, <2>3
<1>2. ASSUME NEW a \in Assets, job'[a].state # "NONE"
      PROVE  Known(a)'
  BY <1>2, KnownStays DEF Orderly, KnownInv
<1> QED
  BY <1>1, <1>2 DEF KnownInv, HasJob, Known, Reserving, Status

LEMMA SealedKept ==
  ASSUME MediaInv, Careful, \A w \in Workers : WorkerStays(w),
         \A a \in Assets : asset'[a].status = "READY" =>
           Status(a) = "READY" \/ \E w \in Workers : worker[w].pc = "ready" /\ worker[w].asset = a
  PROVE  SealedInv'
<1>1. \A w \in Workers : worker[w].pc # "idle" =>
        worker[w].asset \in Assets /\ HasJob(worker[w].asset) /\ Known(worker[w].asset)
  BY DEF MediaInv, TypeInv, WorkersOK, SealedInv, KnownInv
<1>2. ASSUME NEW a \in Assets, asset'[a].status = "READY"
      PROVE  job'[a].state # "NONE" /\ Safe(a)'
  <2>1. HasJob(a) /\ Safe(a)
    BY <1>2 DEF MediaInv, SealedInv
  <2>2. Known(a)
    BY <2>1 DEF MediaInv, KnownInv
  <2> QED
    BY <2>1, <2>2 DEF Careful
<1>3. ASSUME NEW w \in Workers, worker'[w].pc # "idle"
      PROVE  \E a \in Assets : /\ a = worker'[w].asset /\ job'[a].state # "NONE"
                               /\ worker'[w].pc \in {"blur", "ready"} => Safe(a)'
  <2>1. PICK a \in Assets : a = worker'[w].asset /\ HasJob(a)
    BY <1>1, <1>3 DEF WorkerStays
  <2>2. Known(a)
    BY <2>1 DEF MediaInv, KnownInv
  <2>3. worker'[w].pc \in {"blur", "ready"} => Safe(a)' \/ Safe(a)
    BY <1>3, <2>1 DEF WorkerStays, MediaInv, SealedInv, Safe, Sanitised
  <2>4. job'[a].state # "NONE" /\ (worker'[w].pc \in {"blur", "ready"} => Safe(a)')
    BY <2>1, <2>2, <2>3 DEF Careful
  <2> QED
    BY <2>1, <2>4
<1>4. \A a \in Assets : Status(a)' = "READY" => HasJob(a)' /\ Safe(a)'
  BY <1>2 DEF Status, HasJob
<1>5. ASSUME NEW w \in Workers
      PROVE  /\ (worker[w].pc # "idle")' => HasJob(worker[w].asset)'
             /\ (worker[w].pc \in {"blur", "ready"})' => Safe(worker[w].asset)'
  <2>1. CASE worker'[w].pc # "idle"
    <3>1. PICK a \in Assets : /\ a = worker'[w].asset /\ job'[a].state # "NONE"
                              /\ worker'[w].pc \in {"blur", "ready"} => Safe(a)'
      BY <1>3, <2>1
    <3> QED
      BY <3>1 DEF Safe, Sanitised, HasJob
  <2> QED
    BY <2>1
<1> QED
  BY <1>4, <1>5 DEF SealedInv

LEMMA InvKept ==
  ASSUME MediaInv, TypeInv', Careful, Orderly, \A w \in Workers : WorkerStays(w),
         \A a \in Assets : asset'[a].status = "READY" =>
           Status(a) = "READY" \/ \E w \in Workers : worker[w].pc = "ready" /\ worker[w].asset = a
  PROVE  MediaInv'
BY KnownKept, SealedKept DEF MediaInv

(* Objects that are left alone or erased, and URLs that are not given, keep
   what is safe.                                                           *)
LEMMA SafeKept ==
  ASSUME openAtPut' = openAtPut, url' \subseteq url,
         \A a \in Assets : object'[a] = object[a] \/ object'[a] = "NONE"
  PROVE  \A a \in Assets : Safe(a) => Safe(a)'
BY DEF Safe, Sanitised

-----------------------------------------------------------------------------
(* The steps: first the API's.  What becomes of the request itself.        *)

LEMMA CallsGoOn ==
  ASSUME TypeInv, NEW c \in Calls,
         \/ StartUpload(c) \/ Serve(c) \/ CrashCall(c)
         \/ \E a \in Assets : StartOn(c, "confirm", a) \/ StartOn(c, "delete", a)
  PROVE  CallsOK' /\ \A d \in Calls : CallStays(d)
<1>0. CallsOK /\ call[c] \in CallType /\ CallKnows(call[c])
  BY DEF TypeInv, CallsOK
<1>1. ASSUME NEW x \in CallType, CallKnows(x), call' = [call EXCEPT ![c] = x],
             \/ x.op \notin {"upload", "confirm"}
             \/ x.op = call[c].op /\ x.asset = call[c].asset
             \/ x.op = "upload" /\ (x.asset = NoAsset \/ Status(x.asset) = "NONE")
             \/ x.op = "confirm" /\ x.asset \in Assets /\ Known(x.asset)
      PROVE  CallsOK' /\ \A d \in Calls : CallStays(d)
  BY <1>0, <1>1, CallMoves DEF CallStays
<1>2. CASE End(c)
  BY <1>0, <1>2, EndAt DEF CallStays, IdleCall
<1>3. ASSUME NEW pc \in {"key", "enqueue", "write", "erase", "row"}, Goto(c, pc),
             call[c].pc \notin {"idle", "count"}
      PROVE  CallsOK' /\ \A d \in Calls : CallStays(d)
  BY <1>0, <1>3, GotoAt DEF CallStays
<1>4. CASE StartUpload(c)
  <2> DEFINE x == [IdleCall EXCEPT !.op = "upload", !.pc = "count"]
  <2>1. x \in CallType /\ x.pc = "count" /\ x.op = "upload" /\ x.asset = NoAsset
    BY IdleCallType DEF CallType, IdleCall
  <2>2. call' = [call EXCEPT ![c] = x]
    BY <1>4 DEF StartUpload
  <2> HIDE DEF x
  <2> QED
    BY <1>1, <2>1, <2>2 DEF CallKnows
<1>5. ASSUME NEW a \in Assets, NEW op \in {"confirm", "delete"}, StartOn(c, op, a)
      PROVE  CallsOK' /\ \A d \in Calls : CallStays(d)
  <2> DEFINE x == [IdleCall EXCEPT !.op = op, !.pc = "load", !.asset = a]
  <2>1. x \in CallType /\ x.asset = a /\ x.op = op
    BY IdleCallType DEF CallType, IdleCall
  <2>2. call' = [call EXCEPT ![c] = x]
    BY <1>5 DEF StartOn
  <2>3. Known(a)
    BY <1>5 DEF StartOn, Known, Reserving, Exists, Statuses
  <2> HIDE DEF x
  <2> QED
    BY <1>1, <2>1, <2>2, <2>3 DEF CallKnows
<1>6. CASE CountPhotos(c)
  <2>1. ASSUME NEW a \in Assets, Status(a) = "NONE",
               call' = [call EXCEPT ![c].pc = "create", ![c].asset = a]
        PROVE  CallsOK' /\ \A d \in Calls : CallStays(d)
    <3> DEFINE x == [call[c] EXCEPT !.pc = "create", !.asset = a]
    <3>1. x \in CallType /\ x.asset = a /\ x.op = "upload"
      BY <1>0, <1>6 DEF CallType, CountPhotos, At
    <3>2. call' = [call EXCEPT ![c] = x]
      BY <1>0, <2>1 DEF CallsOK
    <3> HIDE DEF x
    <3> QED
      BY <1>1, <2>1, <3>1, <3>2 DEF CallKnows
  <2> QED
    BY <1>2, <1>6, <2>1 DEF CountPhotos
<1>7. CASE LoadForDelete(c)
  <2> DEFINE a == call[c].asset
  <2>1. ASSUME call' = [call EXCEPT ![c].pc = "erase", ![c].blurred = asset[a].blurred]
        PROVE  CallsOK' /\ \A d \in Calls : CallStays(d)
    <3> DEFINE x == [call[c] EXCEPT !.pc = "erase", !.blurred = asset[a].blurred]
    <3>1. a \in Assets /\ RowsOK
      BY <1>0, <1>7 DEF LoadForDelete, At, CallKnows, TypeInv
    <3>2. asset[a].blurred \in BOOLEAN
      BY <3>1 DEF RowsOK, AssetType
    <3>3. x \in CallType /\ x.asset = a /\ x.op = call[c].op
      BY <1>0, <3>2 DEF CallType
    <3>4. call' = [call EXCEPT ![c] = x]
      BY <1>0, <2>1 DEF CallsOK
    <3> HIDE DEF x
    <3> QED
      BY <1>1, <3>1, <3>3, <3>4 DEF CallKnows
  <2> QED
    BY <1>2, <1>7, <2>1 DEF LoadForDelete
<1>8. CASE CreateAsset(c) \/ LoadForConfirm(c) \/ Enqueue(c) \/ EraseObjects(c)
  BY <1>2, <1>3, <1>8 DEF CreateAsset, LoadForConfirm, Enqueue, EraseObjects, At
<1>9. CASE GiveUrl(c) \/ WriteProcessing(c) \/ DeleteRow(c) \/ CrashCall(c)
  BY <1>2, <1>9 DEF GiveUrl, WriteProcessing, DeleteRow, CrashCall
<1> QED
  BY <1>4, <1>5, <1>6, <1>7, <1>8, <1>9 DEF Serve

(* And what it does to the rest.                                           *)
LEMMA CallSteps ==
  ASSUME MediaInv, NEW c \in Calls,
         \/ StartUpload(c) \/ Serve(c) \/ CrashCall(c)
         \/ \E a \in Assets : StartOn(c, "confirm", a) \/ StartOn(c, "delete", a)
  PROVE  MediaInv'
<1>0. /\ RowsOK /\ StoreOK /\ CallsOK /\ WorkersOK /\ QueueOK /\ SweepOK /\ TypeInv
      /\ call[c] \in CallType /\ CallKnows(call[c])
      /\ CallsOK' /\ \A d \in Calls : CallStays(d)
  BY CallsGoOn DEF MediaInv, TypeInv, CallsOK
<1> DEFINE a == call[c].asset
<1>1. ASSUME RowsOK', StoreOK', QueueOK', UNCHANGED <<worker, sweep>>,
             \A b \in Assets : Status(b) # "NONE" => asset'[b].status # "NONE",
             \A b \in Assets : asset'[b].status = "READY" => Status(b) = "READY",
             \A b \in Assets : job'[b] = job[b]
               \/ (job'[b].state # "NONE" /\ call[c].op = "confirm" /\ b = a),
             \A b \in Assets : Known(b) /\ Safe(b) => Safe(b)'
      PROVE  MediaInv'
  <2>1. Orderly
    BY <1>0, <1>1 DEF Orderly, HasJob
  <2>2. Careful /\ \A w \in Workers : WorkerStays(w)
    BY <1>1 DEF Careful, HasJob, WorkerStays
  <2>3. TypeInv'
    BY <1>0, <1>1, Kept DEF TypeInv
  <2> QED
    BY <1>1, <2>1, <2>2, <2>3, InvKept
<1>2. ASSUME RowsOK', UNCHANGED <<Stored, job, worker, sweep>>,
             \A b \in Assets : Status(b) # "NONE" => asset'[b].status # "NONE",
             \A b \in Assets : asset'[b].status = "READY" => Status(b) = "READY"
      PROVE  MediaInv'
  BY <1>0, <1>1, <1>2, Kept, SafeKept DEF Stored
<1>3. CASE UNCHANGED <<asset, Stored, job, worker, sweep>>
  BY <1>0, <1>2, <1>3, Kept DEF Status
<1>4. ASSUME a \in Assets, NEW status \in {"PENDING", "PROCESSING", "DELETED"},
             SetStatus(a, status), UNCHANGED <<Stored, job, worker, sweep>>
      PROVE  MediaInv'
  <2>1. RowsOK' /\ asset'[a].status = status /\ \A b \in Assets \ {a} : asset'[b] = asset[b]
    BY <1>0, <1>4, SetStatusAt DEF Statuses
  <2> QED
    BY <1>2, <1>4, <2>1 DEF Status
<1>5. CASE CreateAsset(c)
  BY <1>0, <1>4, <1>5 DEF CreateAsset, At, CallKnows
<1>6. CASE GiveUrl(c)
  <2>1. a \in Assets /\ Reserving(a)
    BY <1>0, <1>6 DEF GiveUrl, At, CallKnows, Reserving
  <2>2. StoreOK' /\ UNCHANGED <<asset, object, openAtPut, job, worker, sweep>>
    BY <1>0, <1>6, <2>1 DEF GiveUrl, StoreOK
  <2>3. \A b \in Assets : Known(b) /\ Safe(b) => Safe(b)'
    BY <1>6, <2>1, <2>2 DEF GiveUrl, Known, Safe, Sanitised
  <2> QED
    BY <1>0, <1>1, <2>2, <2>3, Kept DEF Status
<1>7. CASE Enqueue(c)
  <2>1. a \in Assets /\ call[c].op = "confirm" /\ UNCHANGED <<asset, Stored, worker, sweep>>
    BY <1>0, <1>7 DEF Enqueue, At, CallKnows
  <2>2. CASE job[a].state # "NONE"
    <3>1. job' = job
      BY <1>7, <2>2 DEF Enqueue
    <3> QED
      BY <1>3, <2>1, <3>1
  <2>3. CASE job[a].state = "NONE"
    <3> DEFINE x == [job[a] EXCEPT !.state = "WAITING"]
    <3>1. job[a] \in JobType /\ JobKnows(job[a])
      BY <1>0, <2>1 DEF QueueOK
    <3>2. x \in JobType /\ x.state = "WAITING" /\ x.tries = job[a].tries
          /\ x.holder = job[a].holder
      BY <3>1 DEF JobType
    <3>3. job' = [job EXCEPT ![a] = x]
      BY <1>0, <1>7, <2>3 DEF Enqueue, QueueOK
    <3> HIDE DEF x
    <3>4. JobKnows(x)
      BY <2>3, <3>1, <3>2 DEF JobKnows
    <3>5. QueueOK' /\ job'[a] = x /\ \A b \in Assets \ {a} : job'[b] = job[b]
      BY <1>0, <2>1, <3>2, <3>3, <3>4, JobMoves
    <3>6. RowsOK' /\ StoreOK' /\ \A b \in Assets : Safe(b) => Safe(b)'
      BY <1>0, <2>1, Kept, SafeKept DEF Stored
    <3> QED
      BY <1>1, <2>1, <3>2, <3>5, <3>6 DEF Status
  <2> QED
    BY <2>2, <2>3
<1>8. CASE WriteProcessing(c)
  <2>1. a \in Assets
    BY <1>0, <1>8 DEF WriteProcessing, At, CallKnows
  <2> QED
    BY <1>3, <1>4, <1>8, <2>1 DEF WriteProcessing
<1>9. CASE EraseObjects(c)
  <2>1. a \in Assets /\ UNCHANGED <<asset, url, openAtPut, job, worker, sweep>>
    BY <1>0, <1>9 DEF EraseObjects, At, CallKnows
  <2>2. /\ object' \in [Assets -> {"NONE", "RAW", "BAD", "CLEAN"}]
        /\ \A b \in Assets : object'[b] = object[b] \/ object'[b] = "NONE"
    BY <1>0, <1>9, <2>1, EraseAt DEF EraseObjects
  <2>3. thumb' \in SUBSET Assets
    BY <1>0, <1>9 DEF EraseObjects, StoreOK
  <2>4. StoreOK' /\ \A b \in Assets : Safe(b) => Safe(b)'
    BY <1>0, <2>1, <2>2, <2>3, SafeKept DEF StoreOK
  <2> QED
    BY <1>0, <1>1, <2>1, <2>4, Kept DEF Status
<1>10. CASE DeleteRow(c)
  <2>1. a \in Assets
    BY <1>0, <1>10 DEF DeleteRow, At, CallKnows
  <2> QED
    BY <1>3, <1>4, <1>10, <2>1 DEF DeleteRow
<1>11. CASE StartUpload(c) \/ CountPhotos(c) \/ LoadForConfirm(c) \/ LoadForDelete(c)
            \/ CrashCall(c)
  BY <1>3, <1>11 DEF StartUpload, CountPhotos, LoadForConfirm, LoadForDelete, CrashCall
<1>12. ASSUME NEW b \in Assets, StartOn(c, "confirm", b) \/ StartOn(c, "delete", b)
       PROVE  MediaInv'
  BY <1>3, <1>12 DEF StartOn
<1> QED
  BY <1>5, <1>6, <1>7, <1>8, <1>9, <1>10, <1>11, <1>12 DEF Serve
-----------------------------------------------------------------------------
(* The steps of a worker.                                                  *)

(* What a worker leaves alone: requests, rows but for their status, and the
   jobs of others.                                                         *)
LEMMA WorkIsOrderly ==
  ASSUME MediaInv, UNCHANGED call, NEW w \in Workers, worker[w].pc # "idle",
         \A b \in Assets : Status(b) # "NONE" => asset'[b].status # "NONE",
         \A b \in Assets \ {worker[w].asset} : job'[b] = job[b]
  PROVE  Orderly
<1>1. HasJob(worker[w].asset)
  BY DEF MediaInv, SealedInv
<1> QED
  BY <1>1 DEF Orderly, CallStays, HasJob

(* A worker that only reads, or hears of a failure.                        *)
LEMMA WorkerReads ==
  ASSUME MediaInv, NEW w \in Workers, worker[w].pc # "idle",
         UNCHANGED <<asset, Stored, call, sweep>>,
         \/ \E pc \in {"head", "get", "put", "erase"} : Step(w, pc)
         \/ Done(w) \/ Throw(w)
  PROVE  MediaInv'
<1>0. /\ RowsOK /\ StoreOK /\ CallsOK /\ WorkersOK /\ QueueOK /\ SweepOK /\ TypeInv
      /\ UNCHANGED <<asset, object, openAtPut, url>>
  BY DEF MediaInv, TypeInv, Stored
<1> DEFINE JobsStay == /\ \A b \in Assets \ {worker[w].asset} : job'[b] = job[b]
                       /\ \A b \in Assets : HasJob(b) => job'[b].state # "NONE"
<1>1. ASSUME NEW pc \in {"head", "get", "put", "erase"}, Step(w, pc)
      PROVE  WorkersOK' /\ QueueOK' /\ JobsStay /\ \A v \in Workers : WorkerStays(v)
  <2>1. /\ WorkersOK' /\ \A v \in Workers \ {w} : worker'[v] = worker[v]
        /\ worker'[w].pc = pc /\ worker'[w].asset = worker[w].asset /\ job' = job
    BY <1>0, <1>1, StepAt
  <2> QED
    BY <1>0, <2>1, Kept DEF HasJob, WorkerStays
<1>2. ASSUME Done(w) \/ Throw(w)
      PROVE  WorkersOK' /\ QueueOK' /\ JobsStay /\ \A v \in Workers : WorkerStays(v)
  BY <1>0, <1>2, DoneOrThrowAt DEF HasJob, WorkerStays, IdleWorker
<1>3. WorkersOK' /\ QueueOK' /\ JobsStay /\ \A v \in Workers : WorkerStays(v)
  BY <1>1, <1>2
<1>4. Orderly
  BY <1>0, <1>3, WorkIsOrderly DEF Status
<1>5. Careful
  BY <1>0, <1>3, SafeKept DEF Careful
<1>6. TypeInv'
  BY <1>0, <1>3, Kept DEF TypeInv
<1> QED
  BY <1>0, <1>3, <1>4, <1>5, <1>6, InvKept DEF Status

LEMMA WorkSteps ==
  ASSUME MediaInv, NEW w \in Workers, Work(w)
  PROVE  MediaInv'
<1>0. PICK a \in Assets :
        /\ RowsOK /\ StoreOK /\ CallsOK /\ WorkersOK /\ QueueOK /\ SweepOK /\ TypeInv
        /\ worker[w].pc # "idle" /\ a = worker[w].asset
  BY DEF MediaInv, TypeInv, WorkersOK, Work, LoadAsset, Head, Get, PutClean, PutBlurred,
     WriteReady, EraseRejected, WriteRejected, StorageThrows, On
<1>1. CASE LoadAsset(w) \/ Head(w) \/ Get(w) \/ StorageThrows(w)
  BY <1>0, <1>1, WorkerReads DEF LoadAsset, Head, Get, StorageThrows
(* A worker that writes to the store. *)
<1>2. ASSUME NEW pc \in {"blur", "ready", "reject"}, Step(w, pc), StoreOK',
             UNCHANGED <<asset, call, sweep>>,
             \A b \in Assets : Safe(b) => Safe(b)',
             pc = "reject" \/ worker[w].pc = "blur" \/ Safe(a)'
      PROVE  MediaInv'
  <2>1. /\ WorkersOK' /\ \A v \in Workers \ {w} : worker'[v] = worker[v]
        /\ worker'[w].pc = pc /\ worker'[w].asset = a /\ job' = job
    BY <1>0, <1>2, StepAt
  <2>2. \A v \in Workers : WorkerStays(v)
    BY <1>0, <1>2, <2>1 DEF WorkerStays, Safe, Sanitised
  <2>3. Orderly
    BY <1>0, <1>2, <2>1, WorkIsOrderly DEF Status
  <2>4. Careful
    BY <1>2, <2>1 DEF Careful, HasJob
  <2>5. TypeInv'
    BY <1>0, <1>2, <2>1, Kept DEF TypeInv
  <2> QED
    BY <1>2, <2>2, <2>3, <2>4, <2>5, InvKept DEF Status
<1>3. CASE PutClean(w)
  <2>1. PICK pc \in {"blur", "ready"} : Step(w, pc)
    BY <1>3 DEF PutClean
  <2>2. /\ object' = [object EXCEPT ![a] = "CLEAN"]
        /\ openAtPut' = (openAtPut \ {a}) \cup ({a} \cap url)
        /\ UNCHANGED <<asset, thumb, url, call, sweep>>
    BY <1>0, <1>3 DEF PutClean
  <2>3. StoreOK' /\ object'[a] = "CLEAN" /\ \A b \in Assets \ {a} : object'[b] = object[b]
    BY <1>0, <2>2 DEF StoreOK
  <2>4. Safe(a)' /\ \A b \in Assets : Safe(b) => Safe(b)'
    <3>1. Safe(a)'
      BY <2>2, <2>3 DEF Safe, Sanitised
    <3>2. ASSUME NEW b \in Assets \ {a}, Safe(b) PROVE Safe(b)'
      BY <2>2, <2>3, <3>2 DEF Safe, Sanitised
    <3> QED
      BY <3>1, <3>2
  <2> QED
    BY <1>2, <2>1, <2>2, <2>3, <2>4
<1>4. CASE PutBlurred(w)
  <2>1. /\ worker[w].pc = "blur" /\ Step(w, "ready")
        /\ UNCHANGED <<asset, object, url, openAtPut, call, sweep>>
    BY <1>4 DEF PutBlurred, On
  <2>2. StoreOK'
    BY <1>0, <1>4 DEF PutBlurred, StoreOK
  <2> QED
    BY <1>2, <2>1, <2>2, SafeKept
<1>5. CASE EraseRejected(w)
  <2>1. Erase(a) /\ Step(w, "reject") /\ UNCHANGED <<asset, thumb, url, openAtPut, call, sweep>>
    BY <1>0, <1>5 DEF EraseRejected
  <2>2. StoreOK' /\ \A b \in Assets : object'[b] = object[b] \/ object'[b] = "NONE"
    BY <1>0, <2>1, EraseAt DEF StoreOK
  <2> QED
    BY <1>2, <2>1, <2>2, SafeKept
<1>6. CASE WriteReady(w) \/ WriteRejected(w)
  <2>1. Done(w) \/ Throw(w)
    BY <1>6 DEF WriteReady, WriteRejected
  <2>2. UNCHANGED <<object, thumb, url, openAtPut, call, sweep>>
    BY <1>6 DEF WriteReady, WriteRejected, Stored
  <2>3. /\ WorkersOK' /\ QueueOK' /\ \A v \in Workers : WorkerStays(v)
        /\ \A b \in Assets \ {a} : job'[b] = job[b]
        /\ \A b \in Assets : HasJob(b) => job'[b].state # "NONE"
    BY <1>0, <2>1, DoneOrThrowAt DEF HasJob, WorkerStays, IdleWorker
  <2>4. Careful
    BY <2>2, <2>3, SafeKept DEF Careful
  <2>5. ASSUME RowsOK',
               \A b \in Assets : \/ asset'[b] = asset[b]
                                 \/ asset'[b].status = "REJECTED"
                                 \/ asset'[b].status = "READY" /\ b = a /\ worker[w].pc = "ready"
        PROVE  MediaInv'
    <3>1. \A b \in Assets : Status(b) # "NONE" => asset'[b].status # "NONE"
      BY <2>5 DEF Status
    <3>2. Orderly
      BY <1>0, <2>2, <2>3, <3>1, WorkIsOrderly
    <3>3. TypeInv'
      BY <1>0, <2>2, <2>3, <2>5, Kept DEF TypeInv, Stored
    <3> QED
      BY <1>0, <2>3, <2>4, <2>5, <3>2, <3>3, InvKept DEF Status
  <2>6. CASE WriteReady(w) /\ Exists(a)
    <3> DEFINE x == [status |-> "READY", old |-> FALSE, blurred |-> a \in Photos]
    <3>1. x \in AssetType /\ x.status = "READY"
      BY DEF AssetType, Statuses
    <3>2. asset' = [asset EXCEPT ![a] = x] /\ worker[w].pc = "ready"
      BY <1>0, <2>6 DEF WriteReady, On
    <3> HIDE DEF x
    <3>3. RowsOK' /\ asset'[a] = x /\ \A b \in Assets \ {a} : asset'[b] = asset[b]
      BY <1>0, <3>1, <3>2 DEF RowsOK
    <3> QED
      BY <2>5, <3>1, <3>2, <3>3
  <2>7. CASE WriteRejected(w) /\ Exists(a)
    <3>1. SetStatus(a, "REJECTED")
      BY <1>0, <2>7 DEF WriteRejected
    <3> QED
      BY <1>0, <2>5, <3>1, SetStatusAt DEF Statuses
  <2>8. CASE ~Exists(a)
    <3>1. asset' = asset
      BY <1>0, <1>6, <2>8 DEF WriteReady, WriteRejected
    <3> QED
      BY <1>0, <2>5, <3>1, Kept
  <2> QED
    BY <1>6, <2>6, <2>7, <2>8
<1> QED
  BY <1>1, <1>3, <1>4, <1>5, <1>6 DEF Work

-----------------------------------------------------------------------------
(* The queue, the client, the sweep, the clock.                            *)

LEMMA ElseKept ==
  ASSUME MediaInv, TypeInv', UNCHANGED call, \A w \in Workers : WorkerStays(w),
         \A a \in Assets : job'[a].state # "NONE" <=> HasJob(a),
         \A a \in Assets : Status(a) # "NONE" => asset'[a].status # "NONE",
         \A a \in Assets : asset'[a].status = "READY" => Status(a) = "READY",
         \A a \in Assets : Safe(a) => Safe(a)'
  PROVE  MediaInv'
<1>1. Orderly /\ Careful
  BY DEF Orderly, Careful, CallStays
<1> QED
  BY <1>1, InvKept

LEMMA QueueSteps ==
  ASSUME MediaInv,
         \/ \E w \in Workers : CrashWorker(w) \/ \E a \in Assets : Take(w, a)
         \/ \E a \in Assets : Stall(a)
  PROVE  MediaInv'
<1>0. RowsOK /\ StoreOK /\ CallsOK /\ WorkersOK /\ QueueOK /\ SweepOK /\ TypeInv
  BY DEF MediaInv, TypeInv
<1>1. ASSUME NEW w \in Workers, CrashWorker(w) PROVE MediaInv'
  <2>1. /\ WorkersOK' /\ \A v \in Workers \ {w} : worker'[v] = worker[v]
        /\ worker'[w] = IdleWorker /\ UNCHANGED <<asset, Stored, job, call, sweep>>
    BY <1>0, <1>1, WorkerIdles DEF CrashWorker
  <2>2. \A v \in Workers : WorkerStays(v)
    BY <2>1 DEF WorkerStays, IdleWorker
  <2>3. TypeInv' /\ \A b \in Assets : Safe(b) => Safe(b)'
    BY <1>0, <2>1, Kept, SafeKept DEF TypeInv, Stored
  <2> QED
    BY <2>1, <2>2, <2>3, ElseKept DEF HasJob, Status
<1>2. ASSUME NEW w \in Workers, NEW a \in Assets, Take(w, a) PROVE MediaInv'
  <2> DEFINE x == [job[a] EXCEPT !.state = "ACTIVE", !.holder = w]
             y == [pc |-> "load", asset |-> a]
  <2>1. job[a] \in JobType /\ JobKnows(job[a]) /\ job[a].state = "WAITING"
    BY <1>0, <1>2 DEF QueueOK, Take
  <2>2. x \in JobType /\ x.state = "ACTIVE" /\ x.tries = job[a].tries
    BY <2>1 DEF JobType
  <2>3. y \in WorkerType /\ y.pc = "load" /\ y.asset = a
    BY DEF WorkerType
  <2>4. /\ job' = [job EXCEPT ![a] = x] /\ worker' = [worker EXCEPT ![w] = y]
        /\ UNCHANGED <<asset, Stored, call, sweep>>
    BY <1>0, <1>2 DEF Take, QueueOK
  <2> HIDE DEF x, y
  <2>5. JobKnows(x)
    BY <2>1, <2>2 DEF JobKnows
  <2>6. QueueOK' /\ job'[a] = x /\ \A b \in Assets \ {a} : job'[b] = job[b]
    BY <1>0, <2>2, <2>4, <2>5, JobMoves
  <2>7. WorkersOK' /\ worker'[w] = y /\ \A v \in Workers \ {w} : worker'[v] = worker[v]
    BY <1>0, <2>3, <2>4, WorkerMoves
  <2>8. \A v \in Workers : WorkerStays(v)
    BY <2>1, <2>3, <2>7 DEF WorkerStays, HasJob
  <2>9. TypeInv' /\ \A b \in Assets : Safe(b) => Safe(b)'
    BY <1>0, <2>4, <2>6, <2>7, Kept, SafeKept DEF TypeInv, Stored
  <2>10. \A b \in Assets : job'[b].state # "NONE" <=> HasJob(b)
    BY <2>1, <2>2, <2>6 DEF HasJob
  <2> QED
    BY <2>4, <2>8, <2>9, <2>10, ElseKept DEF Status
<1>3. ASSUME NEW a \in Assets, Stall(a) PROVE MediaInv'
  <2>1. job[a] \in JobType /\ JobKnows(job[a]) /\ job[a].state = "ACTIVE"
        /\ MaxStalls \in Nat
    BY <1>0, <1>3, MediaAssumption DEF QueueOK, Stall, MediaAssumption
  <2>2. PICK x \in JobType : /\ job' = [job EXCEPT ![a] = x] /\ x.tries = job[a].tries
                             /\ x.state \in {"WAITING", "FAILED"} /\ x.holder = NoWorker
    <3> DEFINE n == job[a].stalls + 1
               x == [job[a] EXCEPT !.state = "WAITING", !.stalls = n, !.holder = NoWorker]
               y == [job[a] EXCEPT !.state = "FAILED", !.holder = NoWorker]
    <3>1. CASE job[a].stalls < MaxStalls
      <4>1. job' = [job EXCEPT ![a] = x]
        BY <1>0, <1>3, <3>1 DEF Stall, QueueOK
      <4>2. n \in 0..MaxStalls
        BY <2>1, <3>1 DEF JobType
      <4> HIDE DEF n
      <4>3. x \in JobType /\ x.tries = job[a].tries /\ x.state = "WAITING"
            /\ x.holder = NoWorker
        BY <2>1, <4>2 DEF JobType
      <4> HIDE DEF x
      <4> QED
        BY <4>1, <4>3
    <3>2. CASE ~(job[a].stalls < MaxStalls)
      <4>1. y \in JobType /\ y.tries = job[a].tries /\ y.state = "FAILED"
            /\ y.holder = NoWorker
        BY <2>1 DEF JobType
      <4>2. job' = [job EXCEPT ![a] = y]
        BY <1>0, <1>3, <3>2 DEF Stall, QueueOK
      <4> HIDE DEF y
      <4> QED
        BY <4>1, <4>2
    <3> QED
      BY <3>1, <3>2
  <2>3. JobKnows(x)
    BY <2>1, <2>2 DEF JobKnows
  <2>4. QueueOK' /\ job'[a] = x /\ \A b \in Assets \ {a} : job'[b] = job[b]
    BY <1>0, <2>2, <2>3, JobMoves
  <2>5. UNCHANGED <<asset, Stored, call, worker, sweep>>
    BY <1>3 DEF Stall
  <2>6. TypeInv' /\ \A b \in Assets : Safe(b) => Safe(b)'
    BY <1>0, <2>4, <2>5, Kept, SafeKept DEF TypeInv, Stored
  <2>7. \A b \in Assets : job'[b].state # "NONE" <=> HasJob(b)
    BY <2>1, <2>2, <2>4 DEF HasJob
  <2> QED
    BY <2>5, <2>6, <2>7, ElseKept DEF Status, WorkerStays
<1> QED
  BY <1>1, <1>2, <1>3

LEMMA WorldSteps ==
  ASSUME MediaInv, NEW a \in Assets, Put(a) \/ UrlExpires(a) \/ GrowsOld(a)
  PROVE  MediaInv'
<1>0. RowsOK /\ StoreOK /\ CallsOK /\ WorkersOK /\ QueueOK /\ SweepOK /\ TypeInv
  BY DEF MediaInv, TypeInv
<1>1. CASE Put(a)
  <2>1. PICK content \in {"RAW", "BAD"} : object' = [object EXCEPT ![a] = content]
    BY <1>1 DEF Put
  <2>2. a \in url /\ UNCHANGED <<asset, thumb, url, openAtPut, job, call, worker, sweep>>
    BY <1>1 DEF Put
  <2>3. StoreOK' /\ \A b \in Assets \ {a} : object'[b] = object[b]
    BY <1>0, <2>1, <2>2 DEF StoreOK
(* A URL that is alive is not that of an asset that is safe for being sealed. *)
  <2>4. \A b \in Assets : Safe(b) => Safe(b)'
    BY <2>2, <2>3 DEF Safe, Sanitised
  <2>5. TypeInv'
    BY <1>0, <2>2, <2>3, Kept DEF TypeInv
  <2> QED
    BY <2>2, <2>4, <2>5, ElseKept DEF HasJob, Status, WorkerStays
<1>2. CASE UrlExpires(a)
  <2>1. /\ StoreOK' /\ url' \subseteq url
        /\ UNCHANGED <<asset, object, thumb, openAtPut, job, call, worker, sweep>>
    BY <1>0, <1>2 DEF UrlExpires, StoreOK
  <2>2. TypeInv' /\ \A b \in Assets : Safe(b) => Safe(b)'
    BY <1>0, <2>1, Kept, SafeKept DEF TypeInv
  <2> QED
    BY <2>1, <2>2, ElseKept DEF HasJob, Status, WorkerStays
<1>3. CASE GrowsOld(a)
  <2> DEFINE x == [asset[a] EXCEPT !.old = TRUE]
  <2>1. asset[a] \in AssetType
    BY <1>0 DEF RowsOK
  <2>2. x \in AssetType /\ x.status = asset[a].status
    BY <2>1 DEF AssetType
  <2>3. asset' = [asset EXCEPT ![a] = x] /\ UNCHANGED <<Stored, job, call, worker, sweep>>
    BY <1>0, <1>3 DEF GrowsOld, RowsOK
  <2> HIDE DEF x
  <2>4. RowsOK' /\ \A b \in Assets : asset'[b].status = asset[b].status
    BY <1>0, <2>2, <2>3 DEF RowsOK
  <2>5. TypeInv' /\ \A b \in Assets : Safe(b) => Safe(b)'
    BY <1>0, <2>3, <2>4, Kept, SafeKept DEF TypeInv, Stored
  <2> QED
    BY <2>3, <2>4, <2>5, ElseKept DEF HasJob, Status, WorkerStays
<1> QED
  BY <1>1, <1>2, <1>3

LEMMA SweepSteps ==
  ASSUME MediaInv, SweepStep
  PROVE  MediaInv'
<1>0. /\ RowsOK /\ StoreOK /\ CallsOK /\ WorkersOK /\ QueueOK /\ SweepOK /\ TypeInv
      /\ sweep \in SweepType
  BY DEF MediaInv, TypeInv, SweepOK
<1>1. ASSUME RowsOK', StoreOK', SweepOK', UNCHANGED <<url, openAtPut, job, call, worker>>,
             \A b \in Assets : object'[b] = object[b] \/ object'[b] = "NONE",
             \A b \in Assets : asset'[b] = asset[b] \/ asset'[b].status = "REJECTED"
      PROVE  MediaInv'
  <2>1. TypeInv' /\ \A b \in Assets : Safe(b) => Safe(b)'
    BY <1>0, <1>1, Kept, SafeKept DEF TypeInv
  <2> QED
    BY <1>1, <2>1, ElseKept DEF HasJob, Status, WorkerStays
<1>2. CASE SweepFinds
  <2>1. PICK b \in Stale : sweep' = [pc |-> "erase", list |-> Stale \ {b}, asset |-> b]
    BY <1>2 DEF SweepFinds
  <2>2. b \in Assets /\ Stale \ {b} \in SUBSET Assets
    BY DEF Stale
  <2>3. SweepOK'
    BY <2>1, <2>2 DEF SweepOK, SweepType
  <2>4. UNCHANGED <<asset, Stored, job, call, worker>>
    BY <1>2 DEF SweepFinds
  <2> QED
    BY <1>0, <1>1, <2>3, <2>4, Kept DEF Stored
<1>3. CASE SweepErases
  <2>1. sweep.asset \in Assets /\ UNCHANGED <<asset, thumb, url, openAtPut, job, call, worker>>
    BY <1>0, <1>3 DEF SweepErases, SweepOK
  <2>2. StoreOK' /\ \A b \in Assets : object'[b] = object[b] \/ object'[b] = "NONE"
    BY <1>0, <1>3, <2>1, EraseAt DEF SweepErases, StoreOK
  <2>3. SweepOK'
    BY <1>0, <1>3, <2>1 DEF SweepErases, SweepOK, SweepType
  <2> QED
    BY <1>0, <1>1, <2>1, <2>2, <2>3, Kept
<1>4. CASE SweepRejects
  <2>1. sweep.asset \in Assets /\ UNCHANGED <<Stored, job, call, worker>>
    BY <1>0, <1>4 DEF SweepRejects, SweepOK
  <2>2. /\ RowsOK'
        /\ \A b \in Assets : asset'[b] = asset[b] \/ asset'[b].status = "REJECTED"
    BY <1>0, <1>4, <2>1, SetStatusAt, Kept DEF SweepRejects, Statuses
  <2>3. SweepOK'
    <3>1. CASE sweep' = [pc |-> "idle", list |-> {}, asset |-> NoAsset]
      BY <3>1 DEF SweepOK, SweepType
    <3>2. ASSUME NEW b \in sweep.list,
                 sweep' = [pc |-> "erase", list |-> sweep.list \ {b}, asset |-> b]
          PROVE  SweepOK'
      <4>1. b \in Assets /\ sweep.list \ {b} \in SUBSET Assets
        BY <1>0 DEF SweepType
      <4> QED
        BY <3>2, <4>1 DEF SweepOK, SweepType
    <3> QED
      BY <1>4, <3>1, <3>2 DEF SweepRejects
  <2>4. StoreOK' /\ UNCHANGED <<object, url, openAtPut>>
    BY <1>0, <2>1, Kept DEF Stored
  <2> QED
    BY <1>1, <2>1, <2>2, <2>3, <2>4
<1> QED
  BY <1>2, <1>3, <1>4 DEF SweepStep

LEMMA MediaStep ==
  ASSUME MediaInv, [Next]_vars
  PROVE  MediaInv'
<1>1. CASE UNCHANGED vars
  <2>1. TypeInv'
    BY <1>1, Kept DEF vars, MediaInv, TypeInv, Stored
  <2>2. \A a \in Assets : Safe(a) => Safe(a)'
    BY <1>1, SafeKept DEF vars
  <2> QED
    BY <1>1, <2>1, <2>2, ElseKept DEF vars, HasJob, Status, WorkerStays
<1> QED
  BY <1>1, CallSteps, WorkSteps, QueueSteps, WorldSteps, SweepSteps DEF Next

LEMMA MediaInvHolds == Spec => []MediaInv
<1>1. Init => MediaInv
  <2> SUFFICES ASSUME Init PROVE MediaInv
    OBVIOUS
  <2>1. RowsOK
    BY DEF Init, RowsOK, AssetType
  <2>2. StoreOK
    BY DEF Init, StoreOK
  <2>3. CallsOK
    BY IdleCallType DEF Init, CallsOK, CallKnows, IdleCall
  <2>4. WorkersOK
    BY DEF Init, WorkersOK, WorkerType, IdleWorker
  <2>5. QueueOK
    <3> DEFINE x == [state |-> "NONE", tries |-> 0, stalls |-> 0, holder |-> NoWorker]
    <3>1. x \in JobType /\ JobKnows(x)
      BY MediaAssumption DEF JobType, JobKnows, MediaAssumption
    <3> QED
      BY <3>1 DEF Init, QueueOK
  <2>6. SweepOK
    BY DEF Init, SweepOK, SweepType
  <2>7. KnownInv /\ SealedInv
    BY DEF Init, KnownInv, SealedInv, Status, HasJob, IdleCall, IdleWorker
  <2> QED
    BY <2>1, <2>2, <2>3, <2>4, <2>5, <2>6, <2>7 DEF MediaInv, TypeInv
<1> QED
  BY <1>1, MediaStep, PTL DEF Spec

(* Type correctness: rows, jobs, requests, workers and the sweep hold only
   what the handlers are written for; no job is tried too often.           *)
THEOREM MediaTypeCorrect == Spec => []TypeOK
<1>1. MediaInv => TypeOK
  BY TypeInvType DEF MediaInv
<1> QED
  BY <1>1, MediaInvHolds, PTL

(* What a worker put when the upload URL was dead is served as it left the
   worker, or not at all, whoever else erased, retried, overwrote or swept the
   asset before and after.                                                 *)
THEOREM SealedStaysSanitised == Spec => []SealedIsSanitised
<1>1. MediaInv => SealedIsSanitised
  BY DEF MediaInv, SealedInv, Safe, SealedIsSanitised
<1> QED
  BY <1>1, MediaInvHolds, PTL
-----------------------------------------------------------------------------
(* What is settled stays so.  Nobody who may still write a settled asset   *)
(* has it in hand, and nobody but its owner can take it in hand again.     *)

Harmless(x, a) == x.asset # a \/ x.op = "delete" \/ x.pc = "load"

LEMMA SettledKept ==
  ASSUME NEW a \in Assets, Settled(a), asset'[a].status = asset[a].status, job'[a] = job[a],
         \A c \in Calls : Harmless(call'[c], a),
         \A w \in Workers : worker'[w].asset # a,
         sweep' = sweep \/ (sweep'.asset # a /\ a \notin sweep'.list)
  PROVE  Settled(a)' /\ Status(a)' = Status(a)
BY DEF Settled, Harmless, Status

LEMMA SettledCalls ==
  ASSUME MediaInv, NEW a \in Assets, Settled(a), NEW c \in Calls,
         \/ StartUpload(c) \/ Serve(c) \/ CrashCall(c)
         \/ \E b \in Assets : StartOn(c, "confirm", b) \/ StartOn(c, "delete", b)
  PROVE  asset'[a].status = "DELETED" \/ (Settled(a)' /\ Status(a)' = Status(a))
<1>0. /\ RowsOK /\ CallsOK /\ QueueOK /\ call[c] \in CallType /\ CallKnows(call[c])
      /\ NoAsset # a /\ Exists(a) /\ Status(a) \notin {"NONE", "PENDING"}
      /\ \A d \in Calls : Harmless(call[d], a)
  BY MediaAssumption DEF MediaInv, TypeInv, CallsOK, MediaAssumption, Settled, Harmless,
     Exists, Statuses
<1>1. ASSUME asset'[a].status = asset[a].status, job'[a] = job[a], UNCHANGED <<worker, sweep>>,
             Harmless(call'[c], a), \A d \in Calls \ {c} : call'[d] = call[d]
      PROVE  Settled(a)' /\ Status(a)' = Status(a)
  <2>1. \A d \in Calls : Harmless(call'[d], a)
    BY <1>0, <1>1
  <2>2. \A w \in Workers : worker'[w].asset # a
    BY <1>1 DEF Settled
  <2> QED
    BY <1>1, <2>1, <2>2, SettledKept
<1>2. ASSUME End(c), asset'[a].status = asset[a].status, job'[a] = job[a],
             UNCHANGED <<worker, sweep>>
      PROVE  Settled(a)' /\ Status(a)' = Status(a)
  <2>1. call'[c] = IdleCall /\ \A d \in Calls \ {c} : call'[d] = call[d]
    BY <1>0, <1>2, EndAt
  <2>2. Harmless(call'[c], a)
    BY <1>0, <2>1 DEF Harmless, IdleCall
  <2> QED
    BY <1>1, <1>2, <2>1, <2>2
<1>3. ASSUME NEW pc \in {"key", "enqueue", "write", "erase", "row"}, Goto(c, pc),
             call[c].pc \notin {"idle", "count"}, call[c].asset # a \/ call[c].op = "delete",
             asset'[a].status = asset[a].status, job'[a] = job[a],
             UNCHANGED <<worker, sweep>>
      PROVE  Settled(a)' /\ Status(a)' = Status(a)
  <2>1. /\ call'[c].op = call[c].op /\ call'[c].asset = call[c].asset
        /\ \A d \in Calls \ {c} : call'[d] = call[d]
    BY <1>0, <1>3, GotoAt
  <2> QED
    BY <1>1, <1>3, <2>1 DEF Harmless
<1>4. CASE StartUpload(c)
  <2> DEFINE x == [IdleCall EXCEPT !.op = "upload", !.pc = "count"]
  <2>1. x \in CallType /\ x.pc = "count" /\ x.asset = IdleCall.asset
    BY IdleCallType DEF CallType
  <2>2. call' = [call EXCEPT ![c] = x]
    BY <1>4 DEF StartUpload
  <2> HIDE DEF x
  <2>3. call'[c] = x /\ \A d \in Calls \ {c} : call'[d] = call[d]
    BY <1>0, <2>1, <2>2, CallMoves DEF CallKnows
  <2>4. Harmless(call'[c], a)
    BY <1>0, <2>1, <2>3 DEF Harmless, IdleCall
  <2> QED
    BY <1>1, <1>4, <2>3, <2>4 DEF StartUpload
<1>5. ASSUME NEW b \in Assets, NEW op \in {"confirm", "delete"}, StartOn(c, op, b)
      PROVE  Settled(a)' /\ Status(a)' = Status(a)
  <2> DEFINE x == [IdleCall EXCEPT !.op = op, !.pc = "load", !.asset = b]
  <2>1. x \in CallType /\ x.pc = "load" /\ x.asset = b
    BY IdleCallType DEF CallType
  <2>2. call' = [call EXCEPT ![c] = x]
    BY <1>5 DEF StartOn
  <2> HIDE DEF x
  <2>3. call'[c] = x /\ \A d \in Calls \ {c} : call'[d] = call[d]
    BY <1>0, <2>1, <2>2, CallMoves DEF CallKnows
  <2> QED
    BY <1>1, <1>5, <2>1, <2>3 DEF StartOn, Harmless
<1>6. CASE CountPhotos(c)
  <2>1. ASSUME NEW b \in Assets, Status(b) = "NONE",
               call' = [call EXCEPT ![c].pc = "create", ![c].asset = b]
        PROVE  Settled(a)' /\ Status(a)' = Status(a)
    <3> DEFINE x == [call[c] EXCEPT !.pc = "create", !.asset = b]
    <3>1. x \in CallType /\ x.asset = b
      BY <1>0 DEF CallType
    <3>2. call' = [call EXCEPT ![c] = x]
      BY <1>0, <2>1 DEF CallsOK
    <3> HIDE DEF x
    <3>3. call'[c] = x /\ \A d \in Calls \ {c} : call'[d] = call[d]
      BY <1>0, <3>1, <3>2, CallMoves DEF CallKnows
    <3>4. a # b
      BY <1>0, <2>1
    <3>5. Harmless(call'[c], a)
      BY <3>1, <3>3, <3>4 DEF Harmless
    <3> QED
      BY <1>1, <1>6, <3>3, <3>5 DEF CountPhotos
  <2> QED
    BY <1>2, <1>6, <2>1 DEF CountPhotos
<1>7. CASE CreateAsset(c)
  <2>1. call[c].asset \in Assets \ {a} /\ call[c].pc = "create"
    BY <1>0, <1>7 DEF CreateAsset, At, CallKnows, Harmless
  <2>2. asset'[a] = asset[a]
    BY <1>0, <1>7, <2>1, SetStatusAt DEF CreateAsset, Statuses
  <2> QED
    BY <1>3, <1>7, <2>1, <2>2 DEF CreateAsset
<1>8. CASE GiveUrl(c)
  BY <1>2, <1>8 DEF GiveUrl
<1>9. CASE LoadForConfirm(c)
  <2>1. CASE call[c].asset = a
    <3>1. Status(call[c].asset) # "PENDING"
      BY <1>0, <2>1
    <3> QED
      BY <1>2, <1>9, <3>1 DEF LoadForConfirm
  <2>2. CASE call[c].asset # a
    BY <1>2, <1>3, <1>9, <2>2 DEF LoadForConfirm, At
  <2> QED
    BY <2>1, <2>2
<1>10. CASE Enqueue(c)
  <2>1. call[c].asset \in Assets \ {a} /\ call[c].pc = "enqueue"
    BY <1>0, <1>10 DEF Enqueue, At, CallKnows, Harmless
  <2>2. job'[a] = job[a]
    BY <1>0, <1>10, <2>1 DEF Enqueue, QueueOK
  <2> QED
    BY <1>3, <1>10, <2>1, <2>2 DEF Enqueue
<1>11. CASE WriteProcessing(c)
  <2>1. call[c].asset \in Assets \ {a}
    BY <1>0, <1>11 DEF WriteProcessing, At, CallKnows, Harmless
  <2>2. asset'[a] = asset[a]
    BY <1>0, <1>11, <2>1, SetStatusAt DEF WriteProcessing, Statuses
  <2> QED
    BY <1>2, <1>11, <2>2 DEF WriteProcessing
<1>12. CASE LoadForDelete(c)
  <2>1. ASSUME call' = [call EXCEPT ![c].pc = "erase", ![c].blurred = asset[call[c].asset].blurred]
        PROVE  Settled(a)' /\ Status(a)' = Status(a)
    <3> DEFINE y == asset[call[c].asset].blurred
               x == [call[c] EXCEPT !.pc = "erase", !.blurred = y]
    <3>1. call[c].asset \in Assets /\ call[c].op = "delete"
      BY <1>0, <1>12 DEF LoadForDelete, At, CallKnows
    <3>2. y \in BOOLEAN
      BY <1>0, <3>1 DEF RowsOK, AssetType
    <3>3. x \in CallType /\ x.asset = call[c].asset /\ x.op = call[c].op
      BY <1>0, <3>2 DEF CallType
    <3>4. call' = [call EXCEPT ![c] = x]
      BY <1>0, <2>1 DEF CallsOK
    <3> HIDE DEF x, y
    <3>5. call'[c] = x /\ \A d \in Calls \ {c} : call'[d] = call[d]
      BY <1>0, <3>1, <3>3, <3>4, CallMoves DEF CallKnows
    <3>6. Harmless(call'[c], a)
      BY <3>1, <3>3, <3>5 DEF Harmless
    <3> QED
      BY <1>1, <1>12, <3>5, <3>6 DEF LoadForDelete
  <2> QED
    BY <1>2, <1>12, <2>1 DEF LoadForDelete
<1>13. CASE EraseObjects(c)
  BY <1>3, <1>13 DEF EraseObjects, At
<1>14. CASE DeleteRow(c)
  <2>1. call[c].asset \in Assets
    BY <1>0, <1>14 DEF DeleteRow, At, CallKnows
  <2>2. asset'[a] = asset[a] \/ asset'[a].status = "DELETED"
    BY <1>0, <1>14, <2>1, SetStatusAt DEF DeleteRow
  <2> QED
    BY <1>2, <1>14, <2>2 DEF DeleteRow
<1>15. CASE CrashCall(c)
  BY <1>2, <1>15 DEF CrashCall
<1> QED
  BY <1>4, <1>5, <1>6, <1>7, <1>8, <1>9, <1>10, <1>11, <1>12, <1>13, <1>14, <1>15
     DEF Serve

(* A worker has another asset in hand, and its job too is another's.       *)
LEMMA SettledWork ==
  ASSUME MediaInv, NEW a \in Assets, Settled(a), NEW w \in Workers, Work(w) \/ CrashWorker(w)
  PROVE  Settled(a)' /\ Status(a)' = Status(a)
<1>0. /\ RowsOK /\ WorkersOK /\ TypeInv /\ worker[w].pc # "idle" /\ NoAsset # a
      /\ worker[w].asset \in Assets \ {a}
      /\ \A d \in Calls : Harmless(call[d], a)
  BY MediaAssumption
     DEF MediaInv, TypeInv, WorkersOK, Work, CrashWorker, LoadAsset, Head, Get, PutClean,
         PutBlurred, WriteReady, EraseRejected, WriteRejected, StorageThrows, On, Settled,
         Harmless, MediaAssumption
<1>1. UNCHANGED <<call, sweep>>
  BY DEF Work, CrashWorker, LoadAsset, Head, Get, PutClean, PutBlurred, WriteReady,
     EraseRejected, WriteRejected, StorageThrows
<1>2. asset'[a] = asset[a]
  <2>1. CASE WriteReady(w)
    BY <1>0, <2>1 DEF WriteReady, RowsOK
  <2>2. CASE WriteRejected(w)
    BY <1>0, <2>2, SetStatusAt DEF WriteRejected, Statuses
  <2> QED
    BY <2>1, <2>2 DEF Work, CrashWorker, LoadAsset, Head, Get, PutClean, PutBlurred,
       EraseRejected, StorageThrows
<1>3. \/ \E pc \in {"head", "get", "put", "blur", "ready", "erase", "reject"} : Step(w, pc)
      \/ Done(w) \/ Throw(w)
      \/ worker' = [worker EXCEPT ![w] = IdleWorker] /\ job' = job
  BY DEF Work, CrashWorker, LoadAsset, Head, Get, PutClean, PutBlurred, WriteReady,
     EraseRejected, WriteRejected, StorageThrows
<1>4. /\ job'[a] = job[a] /\ worker'[w].asset # a
      /\ \A v \in Workers \ {w} : worker'[v] = worker[v]
  <2>1. ASSUME NEW pc \in {"head", "get", "put", "blur", "ready", "erase", "reject"}, Step(w, pc)
        PROVE  /\ job'[a] = job[a] /\ worker'[w].asset # a
               /\ \A v \in Workers \ {w} : worker'[v] = worker[v]
    BY <1>0, <2>1, StepAt
  <2>2. CASE Done(w) \/ Throw(w)
    BY <1>0, <2>2, DoneOrThrowAt DEF IdleWorker
  <2>3. CASE worker' = [worker EXCEPT ![w] = IdleWorker] /\ job' = job
    BY <1>0, <2>3, WorkerIdles DEF IdleWorker
  <2> QED
    BY <1>3, <2>1, <2>2, <2>3
<1>5. \A v \in Workers : worker'[v].asset # a
  BY <1>4 DEF Settled
<1>6. \A c \in Calls : Harmless(call'[c], a)
  BY <1>0, <1>1
<1> QED
  BY <1>1, <1>2, <1>4, <1>5, <1>6, SettledKept

LEMMA SettledElse ==
  ASSUME MediaInv, NEW a \in Assets, Settled(a),
         \/ \E b \in Assets : Put(b) \/ UrlExpires(b) \/ GrowsOld(b) \/ Stall(b)
         \/ \E w \in Workers, b \in Assets : Take(w, b)
         \/ SweepStep
  PROVE  Settled(a)' /\ Status(a)' = Status(a)
<1>0. /\ RowsOK /\ WorkersOK /\ QueueOK /\ SweepOK /\ NoAsset # a
      /\ job[a].state \notin {"WAITING", "ACTIVE"}
      /\ Status(a) \notin {"PENDING", "PROCESSING"}
      /\ a # sweep.asset /\ a \notin sweep.list
      /\ \A d \in Calls : Harmless(call[d], a)
      /\ \A w \in Workers : worker[w].asset # a
  BY MediaAssumption DEF MediaInv, TypeInv, Settled, Harmless, MediaAssumption
<1>1. ASSUME NEW b \in Assets, Put(b) \/ UrlExpires(b)
      PROVE  Settled(a)' /\ Status(a)' = Status(a)
  BY <1>0, <1>1, SettledKept DEF Put, UrlExpires
<1>2. ASSUME NEW b \in Assets, GrowsOld(b) PROVE Settled(a)' /\ Status(a)' = Status(a)
  <2>1. a # b /\ asset' = [asset EXCEPT ![b].old = TRUE]
    BY <1>0, <1>2 DEF GrowsOld
  <2>2. asset'[a] = asset[a]
    BY <1>0, <2>1 DEF RowsOK
  <2> QED
    BY <1>0, <1>2, <2>2, SettledKept DEF GrowsOld
<1>3. ASSUME NEW b \in Assets, Stall(b) PROVE Settled(a)' /\ Status(a)' = Status(a)
  <2>1. a # b
    BY <1>0, <1>3 DEF Stall
  <2>2. job'[a] = job[a]
    BY <1>0, <1>3, <2>1 DEF Stall, QueueOK
  <2> QED
    BY <1>0, <1>3, <2>2, SettledKept DEF Stall
<1>4. ASSUME NEW w \in Workers, NEW b \in Assets, Take(w, b)
      PROVE  Settled(a)' /\ Status(a)' = Status(a)
  <2>1. a # b
    BY <1>0, <1>4 DEF Take
  <2>2. job'[a] = job[a]
    BY <1>0, <1>4, <2>1 DEF Take, QueueOK
  <2>3. \A v \in Workers : worker'[v].asset # a
    BY <1>0, <1>4, <2>1 DEF Take, WorkersOK
  <2> QED
    BY <1>0, <1>4, <2>2, <2>3, SettledKept DEF Take
<1>5. CASE SweepFinds
  <2>1. PICK b \in Stale : sweep' = [pc |-> "erase", list |-> Stale \ {b}, asset |-> b]
    BY <1>5 DEF SweepFinds
  <2>2. a \notin Stale
    BY <1>0 DEF Stale
  <2>3. sweep'.asset # a /\ a \notin sweep'.list
    BY <2>1, <2>2
  <2> QED
    BY <1>0, <1>5, <2>3, SettledKept DEF SweepFinds
<1>6. CASE SweepErases
  <2>1. sweep'.asset # a /\ a \notin sweep'.list
    BY <1>0, <1>6 DEF SweepErases, SweepOK, SweepType
  <2> QED
    BY <1>0, <1>6, <2>1, SettledKept DEF SweepErases
<1>7. CASE SweepRejects
  <2>1. sweep.asset \in Assets \ {a}
    BY <1>0, <1>7 DEF SweepRejects, SweepOK
  <2>2. asset'[a] = asset[a]
    BY <1>0, <1>7, <2>1, SetStatusAt DEF SweepRejects, Statuses
  <2>3. sweep'.asset # a /\ a \notin sweep'.list
    BY <1>0, <1>7 DEF SweepRejects
  <2> QED
    BY <1>0, <1>7, <2>2, <2>3, SettledKept DEF SweepRejects
<1> QED
  BY <1>1, <1>2, <1>3, <1>4, <1>5, <1>6, <1>7 DEF SweepStep

LEMMA SettledStep ==
  ASSUME MediaInv, [Next]_vars, NEW a \in Assets, Settled(a)
  PROVE  Status(a)' = "DELETED" \/ (Settled(a)' /\ Status(a)' = Status(a))
<1>1. CASE UNCHANGED vars
  BY <1>1 DEF vars, Settled, Status
<1>2. CASE asset'[a].status = "DELETED"
  BY <1>2 DEF Status
<1> QED
  BY <1>1, <1>2, SettledCalls, SettledWork, SettledElse DEF Next

(* An asset that is ready or rejected, and that no confirmation, job or sweep
   has in hand any more, stays so until its owner deletes it.              *)
THEOREM SettledIsFinal == Spec => SettledForGood
<1>1. MediaInv /\ [Next]_vars
        => [\A a \in Assets :
              Settled(a) => Status(a)' = "DELETED" \/ (Settled(a)' /\ Status(a)' = Status(a))]_vars
  BY SettledStep
<1> QED
  BY <1>1, MediaInvHolds, PTL DEF Spec, SettledForGood
=============================================================================
