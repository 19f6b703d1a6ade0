# Kinnred, specified in TLA+

Specifications, model-checking runs and proofs for the Kinnred backend
(`src/backend`, NestJS with PostgreSQL through Prisma, Redis, BullMQ, socket.io
and an S3-compatible object store). The program is a set of HTTP handlers that
run concurrently, on several API instances, against one database at READ
COMMITTED, beside worker processes that consume a queue. What it gets wrong it
gets wrong between two awaits, so that is where the models cut it.

## 1. The system

| Component | State it keeps | Operations | Talks to | What is hard |
|---|---|---|---|---|
| Pings (`modules/pings/pings.service.ts`) | `pings` rows, one per unordered pair (unique `pair_key`); Redis counter `ping:rate:<user>` | send, accept, reject, withdraw, three lists | Blocks, Realtime, Redis | read-then-write by id; two sends of one pair; counter and its TTL are two calls |
| Messaging (same file) | `messages`, `pings.last_message_at` | sendMessage, getThread, markRead | Pings' rows, Blocks, Realtime | a transaction against a cascading delete; stamps against commits |
| Blocks (`common/blocks`) | `blocks` (directed, enforced both ways) | block, unblock, reads | - | checked once, used later |
| Realtime gateway (`pings.gateway.ts`, `redis-io.adapter.ts`) | socket rooms | emitToUser, handshake | every handler | order of events against commits |
| Sessions (`modules/auth/token.service.ts`) | refresh-token families and tokens | create, rotate, revoke one, revoke all | - | reuse detection, lost answers, concurrent rotation |
| Phone login (`modules/auth/auth.service.ts`) | OTP challenges, Redis counter, users, signed tickets | requestOtp, verifyOtp, register | Sessions, SMS | attempts read before a slow hash; two live codes |
| Verification (`modules/verification`) | requests, event ledger, `users.is_verified` | submit, webhook, admin decision, expiry sweep | KYC vendor, Media | duplicated and contradictory decisions |
| Media (`modules/media`) | asset rows, objects, jobs | reserve, confirm, process, delete, sweep | object store, BullMQ, workers | at-least-once jobs, sweeps and deletes on the same row |
| Visibility (`common/visibility`) | none | decide who sees what | Blocks, Pings, Users | several reads, one decision |
| Profiles (`modules/users`) | profile, settings, views | read, update, record view | Visibility, Media | counters and flags |
| Grid (`modules/grid`) | `user_locations`, an UNLOGGED table (exact point, fuzzed point, `updated_at`) | update, delete, nearby | Visibility, Blocks | reports that overtake one another; presence read off a debounced write; a cursor whose person moves; bucket edges |
| Shell | none | config, health, logging, guards, filters | - | - |

What makes each component correct:

* **Pings**: one row per pair, whatever races; only the entitled decide; a
  decision is final; a block is never missed; the daily budget is a bound, and a
  bound that lifts; events follow commits, and do follow.
* **Messaging**: a message exists only with consent and only while its ping
  does; a block closes the thread; paging through a thread neither repeats nor
  drops a message; the order of the chat list is that of messages that exist, and
  out of step only with transactions that overlapped.
* **Sessions**: a live session always has a token that was not spent; a revoked one
  never issues again; an honest client is not taken for a thief; a token forks only
  among calls that overlap.
* **Phone login**: the guessing budget, the live codes and the sessions that come of
  one code are bounded by what overlaps; a spent code stays spent.
* **Verification**: a decision settles; no second
  attempt is added to one in progress; nobody waits forever.
* **Media**: what is served was sanitised, if the upload URL was dead by then; a settled
  asset stays settled; nothing is stranded.
* **Visibility, Profiles**: a real photo needs an act of its owner; a block holds on
  every surface, the folders of pings included; who is welcome is not shut out;
  invisible browsing is invisible both ways.
* **Grid**: a row says where one of the last reports was made, and never outlives its
  deletion by a report made before; who goes on reporting is online; paging shows
  everyone who keeps his place, once, and nobody who was hidden, gone or blocked all
  along; a radius tells no more than the label.

## 2. Modules

| Module | Models | Run by | Proved in |
|---|---|---|---|
| `Pings` | the four handlers of the ping, blocks, the daily limiter | `MCPings` | `PingsProofs` |
| `PairSlot` | abstract: one slot per pair, asked, decided, given back | as `PROPERTY ImplementsPairSlot` of `Pings` | `PingsProofs` |
| `Threads` | messages in a ping; EXTENDS `Pings` and composes with it | `MCThreads` | `ThreadsProofs` |
| `Sessions` | refresh-token families | `MCSessions` | `SessionsProofs` |
| `Otp` | codes, registration tickets, accounts of one phone number | `MCOtp` | `OtpProofs` |
| `Verification` | identity verification | `MCVerification` | `VerificationProofs` |
| `Media` | one owner's uploads, the worker and the sweep | `MCMedia` | `MediaProofs` |
| `Discovery` | who is shown what: profile, viewers, search, the folders of pings, and the photo rule; instantiates `PairSlot` | `MCDiscovery` | `DiscoveryProofs` |
| `Listing` | abstract: what reading a list page by page promises while others change it | as `PROPERTY NearbyIsListing` and `ThreadIsListing` | with the next two |
| `Location` | one user's location row, its debounce and its loss, and the client that reports | `MCLists` | `ListsProofs` |
| `Nearby` | the pages of the Grid's search while everyone moves, hides and blocks; implements `Listing` | `MCLists` | `ListsProofs` |
| `ThreadPaging` | the pages of a thread and the stamp of its last activity, against open transactions; implements `Listing` | `MCLists` | `ListsProofs` |

`MCLists` runs the last three side by side: they share no state, and its variable
`part` says which of them a behaviour is of.

### Conventions

A request, call, tab or worker is a slot in a function (`req`, `call`, `tab`,
`worker`); its `pc` names the await it is about to make. **One action is one
database, Redis, storage or queue call together with the synchronous code up to
the next await.** The action's first conjunct is the place in the handler, a
disjunct is a branch (an early return is `Reply` or `End`), and the
handler's local variables that outlive the await are fields of the slot: that is
how a value that was read and has gone stale stays visible in the model. A
transaction is one step where its statements read nothing that another
transaction may change; the transaction of `sendMessage`, which takes a lock and a
stamp first and commits later, is two.

`update where id` on a row that is gone is Prisma's P2025, which is no
`HttpException`, and so a 500: `Fail` in `Pings`, `End` where nothing
distinguishes the answers. Time is not measured: a TTL, a cutoff or an expiry
is an action that may happen at any moment (`KeyExpires`, `GrowsOld`,
`TokenExpires`, `CodeExpires`), subject to the orders the code does rely on
(Media's cutoff for PENDING passes only after the upload URL is dead). The exception
is `Location`, whose question is one of durations: there a `Tick` waits for what is due.
`ThreadPaging` has the clock that stamps come from.
Operators introduced with "Mutant:" are bugs, each defined next to the code it
breaks; nothing refers to them in the specification. They are substituted one at
a time to see that the named property notices.

### Pings

`row` is the table by primary key. A deleted row keeps its last content under
the state `DELETED`, which no handler reads, so that properties may speak of it.
`blocks` is the table of directed pairs, `rate` and `ttl` the Redis counter and
whether it has an expiry, `told` the events emitted. `passed` and `shut` are
history: the sends the limiter let through in the life of a key, and the
requests whose pair has been blocked ever since the handler knew the pair.

| Action | Code (`pings.service.ts`) |
|---|---|
| `StartSend`, `SendBlockCheck`, `SendFind`, `SendIncr`, `SendExpire`, `SendCreate`, `Emit` | `send` 70-131, `resolveExisting` 134-163, `enforceSendRateLimit` 178-199 |
| `StartDecision`, `Load`, `AcceptBlockCheck`, `AcceptWrite`, `Emit` | `accept` 213-242 with `loadDecidable` 318-337 |
| `Load`, `RejectWrite`, `Emit` | `reject` 257-277 |
| `Load`, `WithdrawWrite`, `Emit` | `withdraw` 288-315 |
| `Block`, `Unblock` | `blocks.service.ts` 43-94 |

A reverse ping turns a send into an accept (`SendFind` sets `op` to `accept`),
exactly as `resolveExisting` calls `this.accept`: the block check is made again.

### Threads

EXTENDS `Pings`; a step of the whole is a step of `Pings` with its effect on
threads (`PingStep`: a delete waits for key-share locks and cascades) or a step of a
messaging handler. `LoadThread` and `Gate` are `loadParticipating` (647-692),
`Insert`, `Commit` and `EmitMessage` are `sendMessage` (517-559), `Mark` is `markRead`
(618-637). `Insert` takes the stamp and the lock, `Commit` makes both rows visible.
`opened` and `tabShut` are history: pings that were accepted at some time, and tabs
whose pair has been blocked ever since the gate knew it. The MESSAGE_READ event
goes out in the turn in which `markRead` returns, and is part of `Mark`.

### Sessions

`CreateFamily`, `IssueFirst` are `createSession`; `ReadToken`, `Swap`, `Reply` are
`rotate`, whose transaction is `Swap` and whose sequence of tests, in their order, is
`Verdict`; `FindToken`, `RevokeFamily` are `revokeByToken`; `LogoutAll` is
`revokeAllForUser`. `parent`, `held` and `strayed` are history: which token replaced
which, which token the client was given last, and which families had a token
presented by anyone but the client whose turn it was, or lost an answer.

### Otp

One phone number; `requestOtp` (71-124), `verifyOtp` (130-187), `register` (193-296).
`grants` is history. The comparison of hashes is a step of its own, since scrypt is
awaited. A caller presents the code of a challenge that was sent, or no code that
fits any.

### Verification

The vendor's sessions and events are external. `RecordEvent` is the insert that a
unique index guards; `Apply` is the transaction, by id. The media checks of
`submit` are a choice.

### Media

Rows, objects, jobs, API calls, workers and the sweep. The object store and the
queue are external: the store keeps what is put and may fail; the queue delivers a
job at least once, retries it `MaxTries` times and may take it back from a worker
that is slow or dead, which goes on all the same. `Erase` swallows failures as its
callers do. The two deletes of `deleteAsset` run together and are one step. `Put` is whoever holds
a URL that is still valid: `presignUpload` signs it for a time, whatever becomes of the row, so
it may be used before and after the confirmation, under a worker, after READY and after a
delete. `openAtPut` is history: the assets whose URL was valid at the latest put of a worker.

### Discovery

The world is what the queries read: `slot` (the ping of each pair, which moves as
`PairSlot` allows and `Pings` implements), `blocks`, `locked` (`users.photos_locked`),
`untraced` and `hidden` (the two columns of `user_settings`), `located` (who has a row
in `user_locations`) and `views`. Each statement that changes one of them is an
action of any user at any time. A read request walks its queries:

| Action | Code |
|---|---|
| `OpenProfile`, `CheckBlocks`, ..., `CheckTrace`, `RecordView` | `getPublicProfile` 155-211, `recordView` 233-250 of `users.service.ts` |
| `OpenViewers`, `CheckRecording`, `ListViews`, ..., `Answer` | `getMyViewers` 263-312 |
| `OpenNearby`, `RequireOrigin`, `BlockedIdsFor`, `Search`, ..., `Answer` | `nearby` 182-250, `requireOrigin` 424-439 of `grid.service.ts` |
| `OpenFolder`, `ReadFolder`, `FilterBlocked`, `Answer` | `listRequests` 344-382, `listSent` 385-418, `listChats` 421-503 of `pings.service.ts` |
| `ReadTargets`, `LoadPairs`, `BlockedIdsAmong`, `Decided` | `resolveMany` 107-156, called by the first three |

`decide` and `ownerActionUnlocking` keep the names and the order of the tests of
`visibility.service.ts`. The decisions are taken in the turn in which the later of
the two parallel queries arrives. `ever` is history: for each request, who was
blocked, closed, open, or silent at every moment since it began; the
properties compare the answer with that. A settings row that does not exist counts
as the defaults in every query (`COALESCE`, the null test of `recordView`), so rows
that only hold defaults are not told apart from rows that are missing.

### Location

| Action | Code |
|---|---|
| `ReadPrevious`, with `Debounced` | `updateLocation` 85-112 of `grid.service.ts` |
| `Upsert` | 114-135: both points and `updated_at` at once, whatever the row has become since it was read |
| `DeleteLocation` | 147-150 |
| `DatabaseCrash` | the table is UNLOGGED (migration `20260817203050_s7_grid_locations`, 18-35): recovery truncates it |
| `OnlineFilter`, `IsOnline` | `onlyOnline` in the WHERE (`<`), `isOnline` in the answer (`<=`) |
| `Start`, `Stop`, `Post`, `Tick` | the client and time: while it is active it reports at least every `Period`, and a report is dealt with within `Latency` |
| `Die` | the instance dies under a report |

`since` and `recent` are history: how long the client has been reporting without a loss,
and where the row may rightly say that the user is. `ValidConfig` is the test that
`env.schema.ts` (245-278) makes at boot. Places are points on a line; the fuzz displaces a
user by a constant, so a fuzzed point is one more point.

### Nearby

One searcher asks for page after page; the people, and the searcher, move (`Move`,
`Wander`), hide (`SetDiscoverable`) and block (`BlockOrUnblock`) between any two of his
queries.

| Action | Code (`grid.service.ts`) |
|---|---|
| `RequireOrigin` | `requireOrigin` 424-439 |
| `BlockedIdsFor` | 187-189: a list of ids, read before the search |
| `ResolveCursor` | `resolveCursor` 456-478: the distance of the boundary is taken anew |
| `Query` | `nearbyQuery` 262-380: one statement; radius, blocks, opt-out, keyset, order by (distance, id), limit |

A full page has a cursor even if it is the last. Nothing is beyond a boundary whose
distance is NULL (`Beyond`). `fixed`, `sealed` and `unseen` are history: who could be found
at one distance, who was blocked, and who was hidden or had no row, all along.

### ThreadPaging

| Action | Code (`pings.service.ts`) |
|---|---|
| `InsertMail`, `UpdatePing`, `CommitMail`, `RollBack` | the transaction of `sendMessage`, 529-542 |
| `DeletePing` | `withdraw` 306, and the cascade |
| `GateReader` | `getThread`'s `loadParticipating`, 574 |
| `FindMany` | 576-605: order by `sentAt` alone, `cursor` with `skip: 1`, `take + 1` |

The insert takes the stamp, the commit makes the message visible, and between them lies
the lock on the ping's row; so messages appear behind others with a later stamp. Stamps
have milliseconds: two messages may have the same one, and then their order is the
query's own, in each query anew (`Skipped`, `Newest`). `overlap` is history: the pairs of
messages whose transactions were open together; so are `kept` (committed since before
the first page, with a stamp of its own) and `outside`.

### Listing

`Begin`, `Page`, `Finish` and `Abandon` are the reader's; `Shake` is anything that happens to
the items. `steady` and `absent` only shrink. A page shows nothing of `absent` and nothing
of `steady` twice; the list may end only when all of `steady` has been shown. What
`steady` is, each implementation says, and that is the content of its promise: see
"Seen while modelling".

## 3. Runs

| Run | Instance | Shows |
|---|---|---|
| `pings` | 2 users, 2 ids, 2 requests, budget 1; send, accept, reject, withdraw; crashes | `OnePerPair`, `WithinBudget`, `OnlyTheEntitledDecide`, `SettledForGood`, `ImplementsPairSlot` |
| `pings_live` | same, fair; send (with the accept a reverse ping becomes), reject, block; no crashes | `DecisionAnnounced`, `LimitLifts` |
| `threads` | 1 ping, 1 message, 2 requests (send, accept, withdraw, block), 2 tabs that may die | `ConsentBeforeMessage`, `BlockHonoured`, `BlocksCloseThreads` |
| `sessions` | 1 user, 2 families, 4 tokens, 2 calls, lost answers and crashes | `ForkNeedsOverlap`, `RevokedIsOver`, `HonestIsNeverRevoked` |
| `otp` | 3 codes, 2 calls, caps of 1, 2 tries, crashes | `GuessesAreBounded`, `OverlapsAreBounded`, `SpentIsSpent` |
| `verification` | 1 user, 2 requests, 2 events, 2 calls, operators, crashes, fair clock and sweep | `SettledForGood`, `NoSecondAttempt`, `PendingEnds` |
| `media` | failing store, crashes, fair clock and sweep, and one of: 2 assets, 1 call, no worker; 1 photo, 2 calls, 1 worker, 2 tries; 1 photo, 1 call, 2 workers, 1 stall | `SealedIsSanitised`, `SettledForGood`, `NothingIsStranded` |
| `discovery` | one who looks and one who is looked at, 1 request, of any of the six kinds | `UnlockIsOwners`, `BlockedSeesNothing`, `WelcomeIsShown`, `TraceIsMutual` |
| `lists` | three places, 2 reports in flight, debounce 1, window 6, period 2, latency 2; 3 people on a line of which one moves and one hides and blocks, a searcher who moves, pages of 1; 3 messages, 3 stamps, pages of 1 | `StoredIsRecent`, `ActiveIsOnline`, `NearbyIsListing`, `RadiusTellsTheLabel`, `ThreadIsListing`, `ActivityLags` |

Each module's type invariant is checked in its first run. Deadlock is checked in
every run.

Runs that are expected to fail; each refutes a sentence of the repository, quoted
next to the property in the module.

| Run | Property | Sentence | What happens |
|---|---|---|---|
| `verification_unaudited` | `VerifiedIsApproved` | D-038: the transaction rules out "a verified user with no approved request behind it" | an approval is overwritten by a rejection that read PENDING; `is_verified` stays |
| `media_overwritten` | `ServedIsSanitised` | a client that "uploads something else gains nothing"; after the worker's put "the EXIF-bearing bytes are gone from storage entirely" | the client uploads again while its URL is valid; the row becomes, or is, READY, and its bytes are served |
| `discovery_viewers` | `BlockedAreNotListed` | "the pair becomes mutually invisible regardless of who blocked whom" | `getMyViewers` asks about blocks for the photos alone, and lists name, age and gender |

### Seen while modelling, without a run of their own

In `verification_unaudited` a precondition is read in one
statement, and the write that rests on it is by id in another. The models show
more places of that kind. Where the promise of a comment does not hold, the
property that is checked says what does hold in its place (the `Settled...`,
`Spent`, `Over`, `OneInProgress` and `...Bounded` definitions: it needs a call that was
under way at the time, and once none is left the promise holds for good).

| Promise | What the code does | What is checked instead |
|---|---|---|
| D-042: "Rejection is terminal" (`DECISIONS.md` 1042) | an accept or a withdrawal that read PENDING writes after the reject | `SettledForGood` (Pings) |
| "cannot be withdrawn" once decided (`pings.service.ts` 288-306) | the delete is by id | `SettledForGood` (Pings) |
| D-043: a reverse ping accepts instead of erroring | both finds may precede both creates; the second create is answered with an error | `OnePerPair`, `ImplementsPairSlot` |
| the limit is "a rolling daily window" (`pings.service.ts` 174) | death between INCR and EXPIRE leaves a counter without an end | `LimitLifts`, without crashes |
| last activity of a thread | stamps are taken at the insert, commits may come in the other order | `ActivityLags`: only behind transactions that overlapped |
| a used token revokes the family (`token.service.ts` 173-206) | two calls that both read it unused both get a successor | `ForkNeedsOverlap` |
| the legitimate client has moved on | not if its answer was lost: the retry revokes it | `HonestIsNeverRevoked`, for families that never strayed |
| one code, one session; only the newest code works | verifications, or requests, that overlap; of two registrations the unique index on the phone stops one | `OverlapsAreBounded`, `SpentIsSpent` |
| past the cap the challenge is dead | `attempts` is read before a slow hash, counted after | `GuessesAreBounded` |
| one live attempt at verification | two submissions that overlap | `NoSecondAttempt` |
| no late delivery re-opens a decision | a delivery that read PENDING before the sweep | `SettledForGood` (Verification) |
| `confirmUpload`: "This order fails safe" | PROCESSING written over READY, until the sweep comes | `NothingIsStranded`, `SettledForGood` (Media) |
| `deleteAsset`: "A failed storage delete leaves the row" | `allSettled` swallows the failure, the row goes | nothing: `EraseObjects` keeps it |
| the cap on profile photos | reservations do not count | nothing: `CountPhotos` keeps it |
| D-052: the row is "fresh to within the debounce interval"; boot requires the online window to exceed the debounce | a report may be dropped just before the debounce ends, the next comes a period later and takes a while: the row may be as old as the three together | `ActiveIsOnline`, for a window that exceeds that sum |
| D-054, `distance-buckets.ts` 25: radii and labels are one array, and "cannot drift apart" | the radius takes in its edge (`ST_DWithin`), the label does not (`<`), and the edges are two arrays | `RadiusTellsTheLabel` on the two arrays, except for the distance that is the edge |
| D-054: "a searcher who moves mid-page may skip or repeat a few results" | the boundary's distance is taken anew: so the same happens when the person at the boundary moves | `NearbyIsListing`: `fixed` is emptied by such a move |
| a cursor repeats and drops nothing (`getThread`) | the order is by stamp alone; of messages that tie, one may be shown twice and one never | `ThreadIsListing`, for messages with a stamp of their own |
| the same | a message that commits behind the cursor is on no page; a ping withdrawn between gate and query gives an empty last page | `ThreadIsListing`, for messages that were there all along |
| a folder shows the pings of the caller | 100 rows are taken and the blocked ones filtered after: what is beyond the hundredth cannot be reached | nothing: the model has no page of 100 |

`WelcomeIsShown` asks that the owner stays open by one act (the lock off, or the
ping) for the whole read. An owner who opens the lock and withdraws the ping while
the read is between the two queries is shown blurred once although the photos were
open at every moment; that is harmless and not excluded.

### Assumptions

* An active client reports at least every `Period`, and the server deals with a report in
  `Latency`. Nothing in the code bounds either; both are parameters, and what is checked
  and proved says by how much the window must exceed the debounce on account of them.
* PENDING uploads are old enough for the sweep only after their URL is dead, as the
  configured times have it (`GrowsOld`).
* Statements are atomic and see what was committed (READ COMMITTED); a transaction
  is as said under Conventions.

### Bounds

* **Two requests** (calls, tabs) suffice for every race of a pair of handlers,
  and each finished request leaves its slot to the next, so a run is as long as
  the ids allow. Two users are one pair; properties of pairs do not relate two
  of them, the rate limit is per user, and blocks are per pair. In `discovery` one
  reader is enough because a reader changes nothing another reader reads, except
  `views`, which starts with any set.
* **Ids** (`PingIds`, `Msgs`, `Tokens`, `Families`, `Challenges`, `Requests`, `Assets`)
  bound what may ever be created. A handler that needs an id always has one:
  `RoomForAnother`, `RoomForToken`, `RoomForFamily`, `RoomForChallenge`, `StartSubmit` and
  `CountPhotos` stop arrivals, never handlers, so no behaviour of a handler is cut off in
  the middle. The exception is `Fresh` in `Threads`, where a message that would
  exceed the bound waits for ever. `grants` and `attempts` in `Otp` have no bound in any
  guard: that they are bounded is what `OverlapsAreBounded` and `GuessesAreBounded` say.
* **Limits of 1** (`MaxPerDay`, `MaxAttempts`, `MaxPerHour`, `MaxPhotos`) put every
  second operation at the limit. `rate` saturates one above the limit: the code
  only compares.
* **Lists.** Three points 0, 1000, 2500 on a line give all orders of two distances, ties, the
  edge of the radius 1000 itself and both its sides, and labels of one distance and of three.
  The radii (`GRID_RADIUS_METERS`) and the bounds of the labels (`BucketBounds`) are the two
  arrays of `distance-buckets.ts`, each with its own values. Three people on pages of one are a
  first, a middle and a last page; one of them moves and another hides and blocks,
  which are the two ways a boundary or a member may change. Three messages and three
  stamps give a tie beside a message with a stamp of its own, and two overlapping
  transactions beside a third. With debounce 1, period 2 and latency 2 a row is at most
  5 old, and the window of 6 is the least that exceeds it; the counters stop where no
  comparison can change any more (`Oldest`, `Longest`).
* **Media.** A behaviour of `MCMedia` is of one of three parts, chosen at the start. A sweep goes
  through a list and may end early on a row that is deleted, so two rows and no worker; two
  requests race, and with a worker that may finish at any moment of a confirmation, on one row;
  a slow worker is overtaken by another on one row. What does not take part never begins,
  nothing fair is held up by that, and before a job is taken back the two workers are
  interchangeable (w2 waits for that). Four at once on one row is left to the
  proofs. How large an upload is, is not modelled: `Head` may refuse any upload, and takes
  what a worker made.
* Symmetry is used in safety runs only, over slots, ids and, where no expression
  orders them, users.

### Fairness

Three specifications state fairness, for the runs that check liveness.

* `Pings!FairSpec`: a handler that runs goes on (Node resolves its awaits; a call that
  fails is the crash that `CanCrash` adds), and Redis expires keys that have a TTL.
  `Continue` as a whole is fair and not each action: one slot runs one handler, and
  in each place one action is enabled.
* `Verification!FairSpec` and `Media!FairSpec`: the clock and the scheduled sweeps go on.
  Both sweeps are BullMQ job schedulers kept in Redis (`media-worker.module.ts`
  42-53, `verification-worker.module.ts` 39-50), which survive any single process.

No client, vendor, operator or media worker is ever assumed to do anything.

## 4. Proofs

Every safety invariant and every action property that a passing run checks is a theorem
here, for all values of the constants that the assumptions admit, and so are the three
refinements of an abstract specification. What is left to TLC is liveness.

### Pings

`PingsProofs` proves for any sets of users, ids and requests and any budget, with or
without crashes:

| Theorem | States |
|---|---|
| `TypeCorrect` | `Spec => []TypeOK` |
| `ShapeCorrect` | `Spec => []Shape`, the strengthening below |
| `OneRowPerPair` | `Spec => []OnePerPair` |
| `EntitledOnly` | `Spec => OnlyTheEntitledDecide` |
| `EventsAfterCommit` | `Spec => []EventsFollowTheRow`: no event precedes its commit |
| `SettledIsFinal` | `Spec => SettledForGood` |
| `BlocksAreHonoured` | `Spec => []BlockHonoured` |
| `BudgetIsKept` | `Spec => []WithinBudget` |
| `PingsRefinePairSlot` | `Spec => ImplementsPairSlot`: the ping table is a slot per pair |
| `NoDecisionIsForgotten` | `Spec => []DecisionsAreOwed`, if no instance dies: the safe half of `DecisionAnnounced` |
| `NoCounterIsForEver` | `Spec => []CountersAreOwed`, if no instance dies: the safe half of `LimitLifts` |

They rest on `PingsAssumption` alone: the two "none" values are not users or
pings, the budget is positive, the switches are switches. The last two assume besides
that `CanCrash` is FALSE, as the run `pings_live` does.

* `TypeOK` is inductive by itself. The type of a request is a union by operation
  (`ReqType`), which is what tells the provers that a request about to write has
  a user and a ping.
* `OnlyTheEntitledDecide` needs to know that a request past `Load` belongs to the
  right side of the row it holds, although the row was read awaits ago. That is
  `Shape`: a live or deleted row has two different users; a request past its load
  names the row's sender if it withdraws and its recipient otherwise. It is
  inductive because no handler ever changes `from` or `to` of a row that is not
  `UNUSED`, and ids are not used twice.
* `OnePerPair` is inductive given types and `Shape`: only `SendCreate` makes a row
  live, and its guard `~PairTaken` is the unique index.
* `EventsFollowTheRow` is inductive given types and `Shape`, which says of a request at
  `emit` that its row has left UNUSED or PENDING; no step takes a row back there.
* `SettledForGood` follows from `Shape` alone: a step that changes a row that was there
  is the write of a request that holds it, and a request comes to hold a row for
  writing only by reading it PENDING.
* `BlockHonoured` needs that a request in `shut` is of a pair blocked *now* (`BlockInv`):
  `LearnsPair` establishes it and `Unblock` maintains it.
* `WithinBudget` is not inductive: the request that creates the Redis key is counted
  one step before it is let through. `BudgetInv` says that `passed` never exceeds the
  budget or the counter, that a request between INCR and EXPIRE (`Owes`) has one left of
  both and found no TTL, that there is at most one such request per user, and
  that a key with a TTL has been counted. A key that expires resets both.

* `ImplementsPairSlot`: given `OnePerPair` before and after a step, the `CHOOSE` in `SlotOf`
  has one candidate, so a live row *is* the slot of its pair (`TakenSlot`), and a step that
  changes one row changes one slot (`OneSlot`). `SendCreate` is then an `Ask` because of its
  guard, and a write is a `Decide` or a `GiveBack` because `Writable` finds the row live,
  although nothing says that it is still PENDING.
* `DecisionsAreOwed` and `CountersAreOwed` say what fairness acts on: a decision that was
  not told, or a counter without a TTL, is at the next step of a request under way
  (`Announces`, `Owes`), and only that step moves the request (`OnlyItMoves`). They are
  inductive given the types, even where two decisions race on one row: whoever
  wrote the state that is there announces it. That the step is taken is left to TLC.

### Threads

`ThreadsProofs` EXTENDS `PingsProofs` and proves, for any messages and messaging requests
besides:

| Theorem | States |
|---|---|
| `ThreadsImplementPings` | `ThreadsSpec => Spec`: messaging is stuttering for the pings |
| `PingsStandAmidMessages` | hence `OnePerPair`, `WithinBudget`, `OnlyTheEntitledDecide`, `SettledForGood` and `ImplementsPairSlot` of `ThreadsSpec` |
| `BlocksAreHonouredAmidMessages` | hence `ThreadsSpec => []BlockHonoured` |
| `ThreadsTypeCorrect` | `ThreadsSpec => []ThreadsTypeOK` |
| `ConsentComesFirst` | `ThreadsSpec => []ConsentBeforeMessage` |
| `BlocksReachThreads` | `ThreadsSpec => []BlocksCloseThreads` |

`ThreadsAssumption` says that the ids of messages are finitely many (a stamp is one more than
their number).

* The composition restricts steps of `Pings` (a delete waits for locks) and adds steps that
  leave its variables alone, so what is proved of `Pings` carries over.
* The types need what a request in flight knows (`TabKnows`): past the gate it has a user and
  a ping, past the insert a message.
* `ConsentBeforeMessage` needs `ConsentInv`: an accepted row is in `opened`; a request past its
  load has a row that was there and that its user is a side of, past the gate one that was
  accepted (`ThreadKept`), and in its transaction one that is still live, which is the lock.
  A message lives as long as its ping because the delete that takes the ping cascades.
* `BlocksCloseThreads` needs that `tabShut` holds only requests whose pair is blocked now
  (`ShutInv`): then a gate that lets a request through has just found it outside.

### Lists

`ListsProofs` proves of the three modules behind `lists`, for any values of their constants,
from their assumptions:

| Theorem | States |
|---|---|
| `LocationTypeCorrect`, `NearbyTypeCorrect`, `PagingTypeCorrect` | the types |
| `ListsTypeCorrect` | `Spec => []TypeOK` of `MCLists`, from these three |
| `RowFollowsReports` | `LocationSpec => []StoredIsRecent` |
| `ReportersAreOnline` | `LocationSpec => []ActiveIsOnline` |
| `RadiusDividesNoBucket` | `NearbySpec => []RadiusTellsTheLabel` |
| `PagesKeepPace` | `NearbySpec => []PageInv`, the strengthening below |
| `GridImplementsListing` | `NearbySpec => NearbyIsListing` |
| `ActivityIsSound` | `PagingSpec => []ActivityLags` |
| `ThreadImplementsListing` | `PagingSpec => ThreadIsListing` |

* `StoredIsRecent` speaks of moments without reports only; `RecentInv` adds that whatever
  is in flight is of a place in `recent`, so that any order of their writes ends well.
* `ActiveIsOnline` bounds an age, which no step keeps by itself. `FreshInv` finds, at each
  moment, a report that ended and was posted last (`Served`), at most period plus latency
  ago, at whose end the row was not older than the debounce; the reports since then
  follow one another in steps of a period (`Due`), which is what bounds how long ago it
  was. A loss of the row, or a start, counts as served at that moment.
* The Grid's pages: of those in `fixed`, the pages so far have shown exactly whoever is
  not beyond the boundary (`PageInv`). That makes a page show nothing of them again, and
  the last page leave nothing of them out. The blocks were read before the query, so
  the invariant also carries `sealed` and `fixed` through the list of excluded ids.
* The thread's pages: the same with stamps (`ReadingInv`); stamps of `kept` messages being
  untied, skipping among the ties of the cursor cannot touch them.
* `ActivityLags`: `OverlapInv` says that whoever took a later stamp than an open
  transaction overlaps it, by the clock.
* A refinement is a lemma that every step, given the invariant, is a step of the
  abstract specification or a stutter (`StepRefines`, `SlotStep`), and one temporal step.

### Phone login

`OtpProofs` proves, for any finite sets of challenges and calls (`OtpAssumption`: they are
counted), any three limits, with or without crashes:

| Theorem | States |
|---|---|
| `OtpTypeCorrect` | `Spec => []TypeOK` |
| `GuessingIsCapped` | `Spec => []GuessesAreBounded` |
| `OverlapsAreTheBound` | `Spec => []OverlapsAreBounded` |
| `SpentGivesNothing` | `Spec => SpentIsSpent` |

All the bounds are counts of places. None is inductive, since the step that passes a test
and the step that acts on it are apart; each becomes so by counting the calls between:

* `GuessInv`: the misses of a code and the calls past its cap test that may still count one
  (`Trying`) are together at most `MaxAttempts - 1 + Cardinality(Calls)`. A call enters
  `Trying` only while the code has a miss left, and leaves it when its miss is counted.
* `LiveInv`: the live codes and the calls that closed the earlier ones and have yet to create
  theirs (`Creating`) are together at most as many as the calls. `InvalidateEarlier`
  starts the count anew, `CreateChallenge` moves one from the second to the first.
* `GrantInv`: the grants of a code and the calls that hold it since it was valid (`Holding`)
  are together at most as many as the calls, and while it is not over it has no grant and
  nobody about to give one (`Untouched`). So a call joins `Holding` only while there is no
  grant; `Consume` comes before a grant and `OverStays` says that it is for good.
* `StepKinds` sorts the steps by what they do to the codes that calls hold: nothing new, find
  a live one, consume, or give. `GrantInv` and `SpentIsSpent` both rest on it.

### Media

`MediaProofs` proves, for any assets, calls and workers, any number of tries and stalls,
with or without failures of the store and crashes:

| Theorem | States |
|---|---|
| `MediaTypeCorrect` | `Spec => []TypeOK` |
| `SealedStaysSanitised` | `Spec => []SealedIsSanitised` |
| `SettledIsFinal` | `Spec => SettledForGood` |

* `TypeInv` adds what calls, workers, jobs and the sweep hold at each of their steps; that a job
  which is to run has a try left is what keeps `tries` within its type.
* `KnownInv`: an asset that is to be confirmed or has a job is `Known`: its URL was given, which
  happens once, so that a URL which is dead stays dead.
* `SealedInv`: an asset that is READY or at a worker has a job; one that is READY or whose
  worker is past its put is `Safe`: it is in `openAtPut`, or its URL is dead and nothing of a client's
  is stored. Only `Put` stores such a thing, and it needs a live URL; every other step
  erases an object or writes a clean one. Two workers on one asset, after a stall, do no
  harm: the second reads what the first wrote.
* A step keeps both if it is `Orderly` and `Careful` and moves no worker past its put unless the asset
  is safe by then (`WorkerStays`): one lemma (`InvKept`), and under it one case for each action.
* `SettledForGood` follows from `MediaInv`, step by step: whoever writes a status holds the
  asset.

### Sessions, Verification, Discovery

`SessionsProofs`, `VerificationProofs` and `DiscoveryProofs` prove, for any sets of users,
tokens, families, requests, events and calls:

| Theorem | States |
|---|---|
| `SessionsTypeCorrect` | `Spec => []TypeOK` |
| `RevocationHolds` | `Spec => RevokedIsOver` |
| `HonestClientsStay` | `Spec => []HonestIsNeverRevoked` |
| `ForksAreOverlaps` | `Spec => []ForkNeedsOverlap`, if finitely many calls are in flight at once |
| `VerificationTypeCorrect` | `Spec => []TypeOK` |
| `DecisionsSettle` | `Spec => SettledForGood` |
| `OneAttemptAtATime` | `Spec => NoSecondAttempt` |
| `DiscoveryTypeCorrect` | `Spec => []DiscoveryTypeOK` |
| `PhotosAreOwners` | `Spec => []UnlockIsOwners` |
| `BlocksHideEverything` | `Spec => []BlockedSeesNothing` |
| `WelcomesHold` | `Spec => []WelcomeIsShown` |
| `TracesAreMutual` | `Spec => []TraceIsMutual` |

* `SessionsInv` adds to the types what a call holds at each of its steps: a token that
  was issued, and its family. `RevokedIsOver` then follows step by step: a call comes to
  issue a token only in a family it created or read alive.
* `HonestIsNeverRevoked` needs to know what an honest client is doing (`InStep`): it has one
  call at a time, that call refreshes the token given last, and this token is spent only
  while the answer with its successor is on the way. A family leaves `InStep` by joining
  `strayed`, when a token is presented out of turn or an answer is lost. `HeldIsOwn` says
  that the token a client was given last is of its own family, so that whatever other
  sessions do cannot spend it.
* `ForkNeedsOverlap` is a count: the successors of a spent token and the calls that are
  still to swap it are together at most as many as the calls (`Forks`). A swap moves a call from
  the second to the first, and `Verdict` admits nobody to the second once the
  token is spent.
* `VerificationInv` says that the call that is about to create a row is the only one that
  has that vendor session and that the row is not there yet, and that an outcome is applied
  to a row that is there. The two action properties follow: `Settled` ends only with a call
  that read PENDING, and a submission passes its test only when none is in progress.

* `DiscoveryInv` has two halves. `Current` relates the history of a read to the world: what
  held all along holds now. `Facts` relates what the read has collected to its history, and
  does not mention the world; it survives a history that shrinks (`LessHistory`). So whatever
  users do between two queries is one lemma (`OutsideKeeps`), and a query is right because of
  `Current` at the moment it is made. That nobody blocks himself is needed, for `decide` tests
  for the owner first.

### Only model-checked

Liveness under fairness is out of the prover's reach: `DecisionAnnounced` and `LimitLifts`
(`Pings`), `PendingEnds` (`Verification`) and `NothingIsStranded` (`Media`) are checked on the
instances of section 3 alone, as are the three refuted sentences, which are not theorems.
`DecisionsAreOwed` and `CountersAreOwed` are as far as a proof goes towards the first two; for
the other two the same is plain from the query of the sweep, which finds whatever is old
enough in the status in question. The inductive invariants of `Threads`, `Otp` and `Media` and
the two above were checked by TLC, on the instances of section 3, before they were
proved.

## 5. Not modelled, and next

* The realtime gateway beyond `emitToUser`. The handshake tests a token once,
  synchronously; a socket is in one room for as long as it lives; rooms and the Redis
  adapter belong to socket.io. An event is delivered at most once and never
  acknowledged, so there is nothing to check beyond that it is emitted, after its commit
  (`DecisionAnnounced`, `EventsFollowTheRow`). A socket outlives the session and the access
  token it was opened with: nothing in the code closes it.
* Lists that only read what their caller owns: blocks, `getStatus`, `getMe`, `listOwn`; and
  the order, last message and unread count that `listChats` adds to its rows.
* Ages, genders and intents among the filters of `nearby`: further conjuncts of the same
  WHERE.
* Contents: texts, names, images, hashes, signatures, short ids, phone numbers,
  dates of birth. Codes are told apart and never guessed by luck.
* Configuration other than the location limits, health checks, logging, CORS, Swagger,
  Docker: no state of their own.
* Accounts are never deleted by the code.

The plan:

1. An abstract life of a thing that is reserved, worked on and decided, which `Verification`
   and `Media` both implement, in the manner of `PairSlot`.
2. A folder of more rows than its limit, with blocked pairs among them.
