------------------------------- MODULE Media -------------------------------
(***************************************************************************)
(* Uploading media (modules/media/media.service.ts and                     *)
(* processors/media.processor.ts) for one owner: the API reserves a row    *)
(* and hands out an upload URL, the client uploads while the URL is valid, *)
(* and confirms, a queue job validates the object in a worker, a sweep     *)
(* rejects what got stuck, and the owner may delete at any time.           *)
(*                                                                         *)
(* External: the object store (StorageService), and the queue (BullMQ),    *)
(* which delivers a job at least once.                                     *)
(***************************************************************************)
EXTENDS Integers, FiniteSets

CONSTANTS
  Assets,        \* ids of media_assets: bounds the uploads
  Photos,        \* those that are profile photos; the others are KYC documents
  Calls,         \* API requests in flight at once
  Workers,       \* worker processes
  NoAsset, NoWorker,
  MaxPhotos,     \* MAX_PROFILE_PHOTOS
  MaxTries,      \* attempts of DEFAULT_JOB_OPTIONS
  MaxStalls,     \* how often the queue takes a job back from a slow worker
  StorageFails,  \* whether calls of the object store may fail
  CanCrash       \* whether an API instance or a worker may die

ASSUME MediaAssumption ==
  /\ Photos \subseteq Assets
  /\ NoAsset \notin Assets /\ NoWorker \notin Workers
  /\ MaxPhotos \in Nat \ {0} /\ MaxTries \in Nat \ {0} /\ MaxStalls \in Nat
  /\ {StorageFails, CanCrash} \subseteq BOOLEAN

VARIABLES
  asset,   \* the rows
  object,  \* what is stored at storageKey
  thumb,   \* the assets with an object at the blurred key
  url,     \* the assets whose upload URL is valid
  openAtPut, \* history: those whose URL was still valid when a worker put them
  job,     \* the queue
  call,    \* API requests in flight
  worker,  \* what each worker is doing
  sweep    \* the sweep: the rows it read as stale and is going through

vars == <<asset, object, thumb, url, openAtPut, job, call, worker, sweep>>

Statuses == {"PENDING", "PROCESSING", "READY", "REJECTED"}

IdleCall == [op |-> "none", pc |-> "idle", asset |-> NoAsset, blurred |-> FALSE]

IdleWorker == [pc |-> "idle", asset |-> NoAsset]

(* old: the sweep's cutoff for the status has passed.  blurred: blurredKey *)
(* is set.  An object is what a client sent, an image of whatever size with *)
(* its EXIF (RAW) or something else (BAD), or what a worker made of it     *)
(* (CLEAN).                                                                *)
TypeOK ==
  /\ asset \in [Assets -> [status : Statuses \cup {"NONE", "DELETED"},
                           old : BOOLEAN, blurred : BOOLEAN]]
  /\ object \in [Assets -> {"NONE", "RAW", "BAD", "CLEAN"}]
  /\ thumb \in SUBSET Assets
  /\ url \in SUBSET Assets
  /\ openAtPut \in SUBSET Assets
  /\ job \in [Assets -> [state : {"NONE", "WAITING", "ACTIVE", "DONE", "FAILED"},
                         tries : 0..MaxTries, stalls : 0..MaxStalls,
                         holder : Workers \cup {NoWorker}]]
  /\ call \in [Calls -> [op : {"none", "upload", "confirm", "delete"},
                         pc : {"idle", "count", "create", "key", "load", "enqueue",
                               "write", "erase", "row"},
                         asset : Assets \cup {NoAsset}, blurred : BOOLEAN]]
  /\ worker \in [Workers -> [pc : {"idle", "load", "head", "get", "put", "blur", "ready",
                                   "erase", "reject"},
                             asset : Assets \cup {NoAsset}]]
  /\ sweep \in [pc : {"idle", "erase", "reject"}, list : SUBSET Assets,
                asset : Assets \cup {NoAsset}]

Init ==
  /\ asset = [a \in Assets |-> [status |-> "NONE", old |-> FALSE, blurred |-> FALSE]]
  /\ object = [a \in Assets |-> "NONE"]
  /\ thumb = {}
  /\ url = {}
  /\ openAtPut = {}
  /\ job = [a \in Assets |-> [state |-> "NONE", tries |-> 0, stalls |-> 0,
                              holder |-> NoWorker]]
  /\ call = [c \in Calls |-> IdleCall]
  /\ worker = [w \in Workers |-> IdleWorker]
  /\ sweep = [pc |-> "idle", list |-> {}, asset |-> NoAsset]

-----------------------------------------------------------------------------
Status(a) == asset[a].status

Exists(a) == Status(a) \in Statuses

Idle(c) == call[c].pc = "idle"

At(c, op, pc) == call[c].op = op /\ call[c].pc = pc

Goto(c, pc) == call' = [call EXCEPT ![c].pc = pc]

End(c) == call' = [call EXCEPT ![c] = IdleCall]

(* An update of a row by its id; it refreshes updatedAt.  A row that is    *)
(* gone is P2025.                                                          *)
SetStatus(a, status) ==
  asset' = [asset EXCEPT ![a].status = status, ![a].old = FALSE]

(* A delete in the object store, whose failure every caller swallows.      *)
Erase(a) ==
  \/ object' = [object EXCEPT ![a] = "NONE"]
  \/ StorageFails /\ UNCHANGED object

Stored == <<object, thumb, url, openAtPut>>

-----------------------------------------------------------------------------
(* requestUpload                                                           *)

StartUpload(c) ==
  /\ Idle(c)
  /\ call' = [call EXCEPT ![c] = [IdleCall EXCEPT !.op = "upload", !.pc = "count"]]
  /\ UNCHANGED <<asset, Stored, job, worker, sweep>>

Held == {a \in Photos : Status(a) \in {"READY", "PROCESSING"}}

(* The row to be is of one kind or the other; only photos are counted.     *)
CountPhotos(c) ==
  /\ At(c, "upload", "count")
  /\ \/ End(c)
     \/ \E a \in Assets :
          /\ Status(a) = "NONE" /\ \A d \in Calls : call[d].asset # a
          /\ a \in Photos => Cardinality(Held) < MaxPhotos
          /\ call' = [call EXCEPT ![c].pc = "create", ![c].asset = a]
  /\ UNCHANGED <<asset, Stored, job, worker, sweep>>

CreateAsset(c) ==
  /\ At(c, "upload", "create")
  /\ SetStatus(call[c].asset, "PENDING")
  /\ Goto(c, "key")
  /\ UNCHANGED <<Stored, job, worker, sweep>>

(* The update that sets the key, and the URL signed for it.                *)
GiveUrl(c) ==
  /\ At(c, "upload", "key")
  /\ url' = url \cup {call[c].asset}
  /\ End(c)
  /\ UNCHANGED <<asset, object, thumb, openAtPut, job, worker, sweep>>

-----------------------------------------------------------------------------
(* The client.                                                             *)

(* The URL is good for its lifetime, whatever becomes of the row meanwhile. *)
Put(a) ==
  /\ a \in url
  /\ \E content \in {"RAW", "BAD"} : object' = [object EXCEPT ![a] = content]
  /\ UNCHANGED <<asset, thumb, url, openAtPut, job, call, worker, sweep>>

UrlExpires(a) ==
  /\ a \in url
  /\ url' = url \ {a}
  /\ UNCHANGED <<asset, object, thumb, openAtPut, job, call, worker, sweep>>

(* The client knows the id when it has the URL.                            *)
StartOn(c, op, a) ==
  /\ Idle(c)
  /\ Exists(a) \/ Status(a) = "DELETED"
  /\ \A d \in Calls : ~(call[d].op = "upload" /\ call[d].asset = a)
  /\ call' = [call EXCEPT ![c] = [IdleCall EXCEPT !.op = op, !.pc = "load", !.asset = a]]
  /\ UNCHANGED <<asset, Stored, job, worker, sweep>>

-----------------------------------------------------------------------------
(* confirmUpload                                                           *)

(* Mutant: whatever the status, the upload is confirmed.                   *)
LoadForConfirmAny(c) ==
  /\ At(c, "confirm", "load")
  /\ IF Exists(call[c].asset) THEN Goto(c, "enqueue") ELSE End(c)
  /\ UNCHANGED <<asset, Stored, job, worker, sweep>>

LoadForConfirm(c) ==
  /\ At(c, "confirm", "load")
  /\ IF Status(call[c].asset) = "PENDING" THEN Goto(c, "enqueue") ELSE End(c)
  /\ UNCHANGED <<asset, Stored, job, worker, sweep>>

(* The job id is the asset's: a job that is known, in whatever state, is   *)
(* not added again.                                                        *)
Enqueue(c) ==
  LET a == call[c].asset
  IN /\ At(c, "confirm", "enqueue")
     /\ job' = IF job[a].state = "NONE" THEN [job EXCEPT ![a].state = "WAITING"] ELSE job
     /\ Goto(c, "write")
     /\ UNCHANGED <<asset, Stored, worker, sweep>>

(* By id alone: the worker may have finished by now.                       *)
WriteProcessing(c) ==
  LET a == call[c].asset
  IN /\ At(c, "confirm", "write")
     /\ IF Exists(a) THEN SetStatus(a, "PROCESSING") ELSE UNCHANGED asset
     /\ End(c)
     /\ UNCHANGED <<Stored, job, worker, sweep>>

-----------------------------------------------------------------------------
(* deleteAsset                                                             *)

LoadForDelete(c) ==
  LET a == call[c].asset
  IN /\ At(c, "delete", "load")
     /\ \/ ~Exists(a) /\ End(c)
        \/ /\ Exists(a)
           /\ call' = [call EXCEPT ![c].pc = "erase", ![c].blurred = asset[a].blurred]
     /\ UNCHANGED <<asset, Stored, job, worker, sweep>>

(* allSettled: both deletes are tried and neither failure is looked at.    *)
EraseObjects(c) ==
  LET a == call[c].asset
  IN /\ At(c, "delete", "erase")
     /\ Erase(a)
     /\ \/ thumb' = IF call[c].blurred THEN thumb \ {a} ELSE thumb
        \/ StorageFails /\ UNCHANGED thumb
     /\ Goto(c, "row")
     /\ UNCHANGED <<asset, url, openAtPut, job, worker, sweep>>

DeleteRow(c) ==
  LET a == call[c].asset
  IN /\ At(c, "delete", "row")
     /\ IF Exists(a) THEN SetStatus(a, "DELETED") ELSE UNCHANGED asset
     /\ End(c)
     /\ UNCHANGED <<Stored, job, worker, sweep>>

-----------------------------------------------------------------------------
(* The queue, and the processor.                                           *)

Take(w, a) ==
  /\ worker[w].pc = "idle"
  /\ job[a].state = "WAITING"
  /\ job' = [job EXCEPT ![a].state = "ACTIVE", ![a].holder = w]
  /\ worker' = [worker EXCEPT ![w] = [pc |-> "load", asset |-> a]]
  /\ UNCHANGED <<asset, Stored, call, sweep>>

(* A worker whose job was taken back cannot finish it.                     *)
Finish(w, state, tries) ==
  LET a == worker[w].asset
  IN /\ job' = IF job[a].holder = w
               THEN [job EXCEPT ![a].state = state, ![a].tries = tries,
                                ![a].holder = NoWorker]
               ELSE job
     /\ worker' = [worker EXCEPT ![w] = IdleWorker]

Tries(w) == job[worker[w].asset].tries

Done(w) == Finish(w, "DONE", Tries(w))

(* Mutant: it is tried again without end.                                  *)
ThrowForever(w) == Finish(w, "WAITING", Tries(w) + 1)

(* The job threw: it is tried again, MaxTries times in all.                *)
Throw(w) ==
  Finish(w, IF Tries(w) + 1 < MaxTries THEN "WAITING" ELSE "FAILED", Tries(w) + 1)

Step(w, pc) == worker' = [worker EXCEPT ![w].pc = pc] /\ UNCHANGED job

On(w, pc) == worker[w].pc = pc

LoadAsset(w) ==
  LET a == worker[w].asset
  IN /\ On(w, "load")
     /\ IF Exists(a) /\ Status(a) # "READY" THEN Step(w, "head") ELSE Done(w)
     /\ UNCHANGED <<asset, Stored, call, sweep>>

(* No object is a rejection, and so is one of a size no upload may have.   *)
Head(w) ==
  LET content == object[worker[w].asset]
  IN /\ On(w, "head")
     /\ \/ content # "NONE" /\ Step(w, "get")
        \/ content # "CLEAN" /\ Step(w, "erase")
     /\ UNCHANGED <<asset, Stored, call, sweep>>

(* An image of a format that is allowed, whole enough to encode again.     *)
Decodes(content) == content \in {"RAW", "CLEAN"}

(* The bytes are read, and sanitised in memory.  What has the header of an *)
(* image and no more is no rejection: the encoder throws.                  *)
Get(w) ==
  LET content == object[worker[w].asset]
  IN /\ On(w, "get")
     /\ \/ content = "NONE" /\ Throw(w)
        \/ content # "NONE" /\ Decodes(content) /\ Step(w, "put")
        \/ content # "NONE" /\ ~Decodes(content) /\ (Step(w, "erase") \/ Throw(w))
     /\ UNCHANGED <<asset, Stored, call, sweep>>

(* Mutant: the original is left as it was uploaded.                        *)
PutNothing(w) ==
  /\ On(w, "put")
  /\ Step(w, IF worker[w].asset \in Photos THEN "blur" ELSE "ready")
  /\ UNCHANGED <<asset, Stored, call, sweep>>

PutClean(w) ==
  LET a == worker[w].asset
  IN /\ On(w, "put")
     /\ object' = [object EXCEPT ![a] = "CLEAN"]
     /\ openAtPut' = (openAtPut \ {a}) \cup ({a} \cap url)
     /\ Step(w, IF a \in Photos THEN "blur" ELSE "ready")
     /\ UNCHANGED <<asset, thumb, url, call, sweep>>

PutBlurred(w) ==
  /\ On(w, "blur")
  /\ thumb' = thumb \cup {worker[w].asset}
  /\ Step(w, "ready")
  /\ UNCHANGED <<asset, object, url, openAtPut, call, sweep>>

(* By id alone; a row that is gone throws.                                 *)
WriteReady(w) ==
  LET a == worker[w].asset
  IN /\ On(w, "ready")
     /\ \/ ~Exists(a) /\ Throw(w) /\ UNCHANGED asset
        \/ /\ Exists(a)
           /\ asset' = [asset EXCEPT ![a] = [status |-> "READY", old |-> FALSE,
                                             blurred |-> a \in Photos]]
           /\ Done(w)
     /\ UNCHANGED <<Stored, call, sweep>>

EraseRejected(w) ==
  /\ On(w, "erase")
  /\ Erase(worker[w].asset)
  /\ Step(w, "reject")
  /\ UNCHANGED <<asset, thumb, url, openAtPut, call, sweep>>

WriteRejected(w) ==
  LET a == worker[w].asset
  IN /\ On(w, "reject")
     /\ \/ ~Exists(a) /\ Throw(w) /\ UNCHANGED asset
        \/ Exists(a) /\ SetStatus(a, "REJECTED") /\ Done(w)
     /\ UNCHANGED <<Stored, call, sweep>>

(* A call of the object store fails, other than a delete.                  *)
StorageThrows(w) ==
  /\ StorageFails
  /\ worker[w].pc \in {"head", "get", "put", "blur"}
  /\ Throw(w)
  /\ UNCHANGED <<asset, Stored, call, sweep>>

(* The lock of an active job lapses, its worker being slow or dead.        *)
Stall(a) ==
  /\ job[a].state = "ACTIVE"
  /\ job' = IF job[a].stalls < MaxStalls
            THEN [job EXCEPT ![a].state = "WAITING", ![a].stalls = @ + 1,
                             ![a].holder = NoWorker]
            ELSE [job EXCEPT ![a].state = "FAILED", ![a].holder = NoWorker]
  /\ UNCHANGED <<asset, Stored, call, worker, sweep>>

-----------------------------------------------------------------------------
(* sweepStale                                                              *)

(* The cutoff of PENDING is past the life of the URL; that of PROCESSING   *)
(* is a time no job should need.                                           *)
GrowsOld(a) ==
  /\ Status(a) \in {"PENDING", "PROCESSING"} /\ ~asset[a].old
  /\ Status(a) = "PENDING" => a \notin url
  /\ asset' = [asset EXCEPT ![a].old = TRUE]
  /\ UNCHANGED <<Stored, job, call, worker, sweep>>

(* Mutant: only abandoned uploads are looked for.                          *)
StalePendingOnly == {a \in Assets : asset[a].old /\ Status(a) = "PENDING"}

(* Mutant: a row whose job is done is taken for settled.                   *)
StaleUnlessDone ==
  {a \in Assets : /\ asset[a].old /\ Status(a) \in {"PENDING", "PROCESSING"}
                  /\ job[a].state # "DONE"}

Stale == {a \in Assets : asset[a].old /\ Status(a) \in {"PENDING", "PROCESSING"}}

SweepFinds ==
  /\ sweep.pc = "idle" /\ Stale # {}
  /\ \E a \in Stale : sweep' = [pc |-> "erase", list |-> Stale \ {a}, asset |-> a]
  /\ UNCHANGED <<asset, Stored, job, call, worker>>

SweepErases ==
  /\ sweep.pc = "erase"
  /\ Erase(sweep.asset)
  /\ sweep' = [sweep EXCEPT !.pc = "reject"]
  /\ UNCHANGED <<asset, thumb, url, openAtPut, job, call, worker>>

(* By id alone; a row that is gone ends the sweep there.                   *)
SweepRejects ==
  LET a == sweep.asset
      idle == [pc |-> "idle", list |-> {}, asset |-> NoAsset]
  IN /\ sweep.pc = "reject"
     /\ IF Exists(a) THEN SetStatus(a, "REJECTED") ELSE UNCHANGED asset
     /\ \/ (~Exists(a) \/ sweep.list = {}) /\ sweep' = idle
        \/ /\ Exists(a)
           /\ \E b \in sweep.list :
                sweep' = [pc |-> "erase", list |-> sweep.list \ {b}, asset |-> b]
     /\ UNCHANGED <<Stored, job, call, worker>>

-----------------------------------------------------------------------------
(* Death of an API instance, or of a worker, whose job stays active.       *)
CrashCall(c) ==
  /\ CanCrash /\ ~Idle(c)
  /\ End(c)
  /\ UNCHANGED <<asset, Stored, job, worker, sweep>>

CrashWorker(w) ==
  /\ CanCrash /\ worker[w].pc # "idle"
  /\ worker' = [worker EXCEPT ![w] = IdleWorker]
  /\ UNCHANGED <<asset, Stored, job, call, sweep>>

Serve(c) ==
  \/ CountPhotos(c) \/ CreateAsset(c) \/ GiveUrl(c)
  \/ LoadForConfirm(c) \/ Enqueue(c) \/ WriteProcessing(c)
  \/ LoadForDelete(c) \/ EraseObjects(c) \/ DeleteRow(c)

Work(w) ==
  \/ LoadAsset(w) \/ Head(w) \/ Get(w) \/ PutClean(w) \/ PutBlurred(w)
  \/ WriteReady(w) \/ EraseRejected(w) \/ WriteRejected(w) \/ StorageThrows(w)

SweepStep == SweepFinds \/ SweepErases \/ SweepRejects

Next ==
  \/ \E c \in Calls : StartUpload(c) \/ Serve(c) \/ CrashCall(c)
  \/ \E c \in Calls, a \in Assets : StartOn(c, "confirm", a) \/ StartOn(c, "delete", a)
  \/ \E a \in Assets : Put(a) \/ UrlExpires(a) \/ GrowsOld(a) \/ Stall(a)
  \/ \E w \in Workers : Work(w) \/ CrashWorker(w)
  \/ \E w \in Workers, a \in Assets : Take(w, a)
  \/ SweepStep

Spec == Init /\ [][Next]_vars

(* The clock runs, and the scheduled sweep does.  No client and no worker  *)
(* has to do anything.                                                     *)
Fairness ==
  /\ WF_vars(SweepStep)
  /\ \A a \in Assets : WF_vars(UrlExpires(a)) /\ WF_vars(GrowsOld(a))

FairSpec == Spec /\ Fairness

-----------------------------------------------------------------------------
Sanitised(a) == object[a] \in {"CLEAN", "NONE"}

(* media.service.ts 134-137: a client that "uploads something else gains
   nothing", and media.processor.ts 131-132: once the worker has put its own,
   "the EXIF-bearing bytes are gone from storage entirely".  So a READY asset,
   which is what is served, would never be the bytes a client sent.        *)
ServedIsSanitised == \A a \in Assets : Status(a) = "READY" => Sanitised(a)

(* An asset that a worker put when its upload URL was dead is served
   sanitised, and for good: whoever else had it in hand, with the URL alive
   or dead, and erased, retried, overwrote or swept it meanwhile.          *)
SealedIsSanitised ==
  \A a \in Assets \ openAtPut : Status(a) = "READY" => Sanitised(a)

(* An asset that is ready or rejected and that no confirmation under way, job
   or sweep has in hand any more stays so until its owner deletes it,
   however often it is confirmed or swept again.                           *)
Settled(a) ==
  /\ Status(a) \in {"READY", "REJECTED"}
  /\ job[a].state \in {"NONE", "DONE", "FAILED"}
  /\ \A c \in Calls :
       call[c].asset # a \/ call[c].op = "delete" \/ call[c].pc = "load"
  /\ \A w \in Workers : worker[w].asset # a
  /\ a # sweep.asset /\ a \notin sweep.list

SettledForGood ==
  [][\A a \in Assets :
       Settled(a) => Status(a)' = "DELETED" \/ (Settled(a)' /\ Status(a)' = Status(a))]_vars

(* sweepStale: nothing is stranded, whatever crashed or gave up.           *)
NothingIsStranded ==
  \A a \in Assets :
    Status(a) \in {"PENDING", "PROCESSING"} ~> Status(a) \notin {"PENDING", "PROCESSING"}
=============================================================================
