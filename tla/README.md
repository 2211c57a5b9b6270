# DeltaSync in TLA+

A model of DeltaSync: the versioned write path, the chunk store with its
readers and its garbage collector, the outbox with chunk verification and its
worker pool, the CLI's push and two-way sync, accounts, keys and the limits in
front of the handlers, the pages of the web site that keep answers of the past;
and of the way a file's bytes take through chunking, delta, upload and download.
TLC checks each module on small instances. TLAPS proves, for every value of the
constants, the safety properties of all parts: one
history per file in the write path, whose pruner always comes; downloads that
are the files pushed, by every route; no chunk of a version collected, downloads
that break only for one of two causes in the storing; events that are marked only
when settled; a pool whose counters are right; pushes that commit only what is
stored as long as nothing slows them down, a sync that destroys no local work and
does not push to and fro; keys, windows and the S3 queue; pages that skip nothing,
and a delta library that rebuilds every file.

## 1. The system

```
 CLI push/sync                 server process (one Node event loop)             dispatcher process
 -------------                 ------------------------------------             ------------------
 chunk, hash   -- negotiate -> key, rate limit, S3 limiter
 journal,                      negotiate.ts  --> negotiation-store (memory)
 session (SQLite)              HEAD chunks ----> bucket (S3)
   |  -- PUT presigned ----------------------->  bucket
   |  -- commit ------------>  commit.ts: one transaction:                     outbox-dispatcher.ts
   |                            files, file_versions, sync_jobs, outbox_events --> polls outbox_events
   |                            then: clear token, start version-pruner            worker: HEAD chunks,
   |  -- upload (one shot) ->  upload.ts (same transaction)                        set verification_status
   '  -- download, info ---->  read endpoints, byte quota                      gc.ts: delete orphans

 browser: login, keys, lists, playground  -- server functions --> users, api_keys, files, sync_jobs
```

The tables are in one SQLite file that both processes open; the negotiation
store, the rate limiter and the S3 limiters are in the server's memory and are
lost when it restarts; the bucket is content-addressed (`getS3Key(sha256)`); the
CLI keeps a cache, a session per path and a journal of uploaded chunks in its
own SQLite file.

### Inventory

| Part (source) | State | Operations | What is hard | What makes it correct |
|---|---|---|---|---|
| negotiate, commit, upload (`src/routes/api/public/sync/`) | files, file_versions, outbox_events; tokens | read snapshot, store token, compare-and-swap commit, 409 | every `await` is an interleaving point; minutes pass between snapshot and commit; retries; restarts | no lost update, a token yields one version, a conflict has a winner |
| version-pruner | file_versions | read pointer, list, delete | three statements, several pruners at once, fire and forget | the current version survives; retention is reached |
| negotiation-store | map with expiry | set, get, clear, sweep | non-consuming read, loss at restart | an overtaken token stays overtaken |
| outbox-dispatcher, worker | outbox_events, verification_status | poll, handle, mark; HEAD, flag, alert | crash between handler and mark; two writes without a transaction; failing events; late uploads | nothing is lost, verdicts are right and final, events drain |
| gc | bucket; reference set in memory | page manifests, read inventory, delete | commits and prunes between pages; an inventory up to a day old; commits between reference set and delete | complete references, no chunk of a version is lost |
| download, temporary objects of upload | streams, temp- keys | select row, fetch chunks; put, copy, delete | the version is pruned and collected while it is read | a download breaks only for a cause in the storing; a copy finds its source |
| push, resume (CLI and server) | worker pool, journal, session, token | resume or negotiate, PUT with back-off, raise and lower the limit, commit | shared counters over awaits, workers nobody awaits, crashes between any two of them, tokens the server lost | no stall, commit only when complete, one content per session, the push gets through |
| validateApiKey, rate-limiter, s3-limiter | api_keys; windows; a queue | select and touch, count, refuse, sweep, enqueue, pump | revocation under way; window boundaries; calls that fail | a revoked key opens nothing, never two whole budgets in one window's length, refusals deserved, every call gets its turn |
| auth and keys page | users, cookie, api_keys, query cache | sign up, in, out; list, create, revoke | two browsers, answers that come late | a page shows what it changed |
| sync (CLI) | file, cache row, server version | three-way decision, push, pull, force | three states read at three moments | no local work lost by a pull, no overwrite but in a race, no ping-pong, convergence |
| worker-pool | queues, counters | submit, run, steal, release | slot accounting; a worker that dies silently or cannot be made | counters are threads, no idle slot beside waiting work, every task settles |
| chunk-manifest, ops encodings, fastcdc, rsync, native | none | encode, decode, cut, diff, patch | 32-bit arithmetic, boundaries, two languages | the downloaded file is the pushed one, signatures locate chunks, both chunkers agree, cuts realign |
| playground and its delta library | texts, runs under way | edit, load, run, show | runs overtake each other; rolling checksum | the delta rebuilds the text, no change without a run |
| dashboard (lists, statistics) | query cache, page number | page by OFFSET, refetch; the selects of the statistics | rows arrive between pages and between selects | a patient visitor misses no row, no job of the totals is missing |

`PROJECT.json` lists every component with its status and every hazard at its
line.

## 2. The modules

| Module | Models | Main variables |
|---|---|---|
| `VersionHistory` | what the write path promises: a versioned compare-and-swap register per file | `curr`, `history`, `rows` |
| `SyncServer` | negotiate, commit, upload, the token store, the pruner | the tables, `negotiation`/`live` (tokens), `req` (what each request holds), `faults` |
| `MCSyncServer` | symmetry of the requests and tokens of SyncServer | |
| `SyncServer_proofs` | theorems about SyncServer and its pruners | |
| `Outbox` | outbox_events, dispatcher processes, verification, GC requests | `log`, `done`, `status`, `chunks`, `disp` |
| `Outbox_proofs` | theorems about Outbox, for any number of dispatchers and for one | |
| `ChunkStore` | bucket, manifests, pushes and uploads, pruner, garbage collection | `objects`, `manifest`, `rows`, `client`, `gc`, `unsent` |
| `Downloads` | ChunkStore with readers and with the temporary objects of upload | `reader`, `temps`, `source`, `doomed` |
| `MCDownloads` | symmetry of the chunks of Downloads | |
| `Downloads_proofs` | theorems about ChunkStore; Downloads implements it, and theorems about Downloads | |
| `PushUpload` | `deltasync push` of one path, repeated: session, resume, pool, journal, commit | `phase`, `push`, `worker`, `todo`, `limit`, `session`, `journal`, `live` |
| `PushUpload_proofs` | theorems about PushUpload | |
| `Accounts` | login page, sessions, keys page of several browsers | `users`, `cookie`, `form`, `keys`, `page` |
| `RateLimiter` | request and byte windows | `requests`, `bytes`, `now` |
| `S3Limiter` | the queue in front of the S3 calls of a route | `queue`, `active`, `running` |
| `Admission` | a request through key, rate limit and S3 limiter: composes the three above | `req` |
| `Admission_proofs` | theorems about Accounts, the limiters and Admission | |
| `TwoWaySync` | `deltasync push`, `pull`, `sync` and `gc` for one path on several machines, info and download, session resume | `versions`, `status`, `local`, `cache`, `session`, `proc` |
| `TwoWaySync_proofs` | theorems about TwoWaySync | |
| `Transfer` | chunkers, signatures, delta, encodings, rebuilt manifest, download: bytes in, bytes out | `files`, `manifests`, `phase`, `ends`, `ops`, `literals`, `rows` |
| `WorkerPool` | the work-stealing pool of verification threads | `fastQueue`, `heavyQueue`, `activeFast`, `activeHeavy`, `slot`, `thread`, `promise`, `lost` |
| `Transfer_proofs` | theorems about Transfer and WorkerPool | |
| `DeltaLib` | the browser's delta library: Adler-32, signatures, delta, patch | `call`, `i`, `litStart`, `state`, `ops` |
| `Playground` | the page on top of DeltaLib | `page`, `runs`, `reads`, `verified`, `shown` |
| `Dashboard` | the paged lists, the statistics and react-query's cache | `count`, `pageNo`, `query`, `walk`, `stats` |
| `Website` | a visit to the playground (or a call of the library), to the lists or to the statistics | `visit` |
| `Website_proofs` | theorems about the delta library, Playground and Dashboard | |
| `MCWebsite` | the texts of the instance | |

**SyncServer.** An action is the code between two `await`s of one request:
`NegotiateRead`/`UploadRead` take the snapshot, `NegotiateStore` puts the token
in the map when all HEADs are done, `CommitGet` reads it without consuming it,
`CommitTx`/`CommitStale` (and `UploadTx`/`UploadStale`) are the transaction,
`CommitClear` consumes the token and starts the pruner, which takes
`PruneReadCurrent`, `PruneList` and `PruneDelete`, one per statement. `Expire`,
`Reject`, `PruneFail` and `Restart` are the faults. A row is never forgotten by
`version`, only by `rows`: `base` and `neg` are history, used by properties.

**ChunkStore.** A version is its set of chunks. `Negotiate` skips the chunks of
the previous version as the code does, `Head` is one `blockExists`, `Put` one
upload, `Commit` the transaction. `commit.ts:86-156` looks at no chunk, and the CLI
calls it with chunks it has dropped (push.ts:216) and with PUTs of workers nobody
awaits (push.ts:228): a push may commit with any part of its chunks `missing`.
`unsent` is the history of that: the chunks a version was committed without, until
somebody sends them (`Put`, or `LatePut` for a PUT no request of the model waits
for, such as one that arrives after the commit). An upload has stored its
literals when it commits. `GcPage` reads one page behind the cursor
into the reference set (`WithHashes`), `GcReport` compares any sub-list of the
bucket (the inventory may be old) with it (`HasHash`), `GcDelete` deletes one
key, *under the key the code computes*. An object key is a pair of a number of
prefixes and a hash, so that applying `getS3Key` twice is visible. Version ids
are random UUIDs: `Commit` takes any unused id, so a new row may be before or
behind the collector's cursor.

**Downloads** EXTENDS ChunkStore: each of its actions is an action of ChunkStore
joined with what happens to a reader or to a temporary object, or leaves
ChunkStore alone. A reader may ask for any version there ever was, since a file page that listed it may
still be open (`Detail`): by the click it may have been pruned (`VersionGone`). `SelectVersion` takes row and
manifest, `FetchBlock` one chunk. Any version may be read,
whatever its verification has found: the dashboard's route does not look at it
(sync.functions.ts:114-138), and `download.ts` lets a pending one through with
`force=true`; the verdicts themselves are in `Outbox`. An upload stores its literal under a fresh uuid (`TempPut`), looks for
the hash (`HeadLiteral`), copies (`CopyOrPut`) and deletes (`TempDelete`);
`Abandon` leaves the temporary object in the bucket.

**Outbox.** `Poll` takes the oldest unprocessed events up to the batch size,
handlers run one after the other (`LoadVersion`, `HeadChunks`, `FlagVerified`
or `FlagCorrupted` then `Alert`; `RunGc`; `LogFailure`), `Mark` is the single
update at the end. `HandlerFails`, `MarkFails`, a failing HEAD and `Crash` may
strike between any two of them. A wake-up by the notifier is a poll timeout
that comes early. (The notifier is an event emitter inside a process; a
dispatcher started as README.md:127 describes is another process and is only
woken by its timeout, whatever README.md:50 says of 20 ms.)

**PushUpload.** `Start` decides on the cache row and the session, `Resume` and
`Negotiate` are the server's answers, `WorkerStep` is what one worker does
between two awaits; the loop that starts further workers, and the take of the
next chunk, are part of the action that ends a chunk (`AfterChunk`). `initial`
marks the workers whose promises `performPush` awaits (`Join`). The journal and
the session are on disk: they survive a `Crash` and a failed push and meet a
server that may have lost its tokens (`LoseTokens`); `Edit` changes the file at
any time, also under a running push.

**Accounts, RateLimiter, S3Limiter, Admission.** Sign-up and sign-in are one
action per await. The keys page has react-query behind it, whose query outlives
the page and the session: what asks for the list while an answer is under way
waits for that one (`Joined`). An invalidation drops it and asks again only if
the page is open and has had a list before; on a first load the pending answer is
kept and the invalidation forgotten (`Refetches`), although keys.tsx:43-90 lets a
key be made meanwhile. A request for the list may fail, and the page then keeps
what it had (`ListFails`). `made` and `withdrawn` are history: the changes that
the page asked again for. `SelectKey` and `Admit` (or
`Refuse`) are the two halves of `validateApiKey`, between which a key may be
revoked. The functions of the rate limiter have no await: a call is part of the
action of its caller. `CallS3` joins the queue of the limiter, `S3Answers` frees
the slot and pumps in the same turn. `at` and `late` are history. negotiate and
upload share the counter "upload" (negotiate.ts:92, upload.ts:99).

**TwoWaySync.** `Start` is `getFile` and `existsSync`, `GetInfo` the answer of
/info with the read of the file, then one of `Skip`, `Converge`, `Conflict`,
`PushRead` and `Pull` as `syncFile` decides; the push goes through `PushPrepare`
(unchanged, resume or negotiate), `PushResume`, `PushNegotiate`, `PushCommit` or
`PushRefused`, `PushDone`; the pull through `PullFetch`, `PullWrite`,
`PullCache`; the plain commands `push` and `pull` (also of an old version) enter
in the middle. The user's `Edit`s, the dispatcher's `Verify`, the token's
`Expire` and the removal of cache rows (`PruneCache`, the command `gc`) fall in
between, requests fail and processes die. A content stands for its hash. A 202
answer is what the code makes of it: its JSON body, a file content of its own
(`PendingBody`). The server is the register that `SyncServer` implements. One
sync runs per directory at a time; the model does not let two commands share a
cache, but for `gc`, whose single statement touches nothing that a running
command has not read already or will write itself: it is enabled where the
command is idle or about to read the row, which stands for all other moments.

**Transfer.** Four routes: `push` (chunks negotiated and committed, cut in
TypeScript or by the Rust addon), `cdc` and `fixed` (computeDelta of
`cli/src/rsync.ts` against the signatures that a client gets with
`getSignatures` (`Known`), sent with `upload` of `cli/src/api.ts`; both are exported, the
commands of this commit only use `push`) and `pack` (`pack-delta` of the
Rust binary). The first version may come from the legacy `blocks` table. A step
is one turn of a loop: a cut, a window of the scan, an operation applied by
upload.ts; what runs on a Rayon thread is one step. `Send` picks one of the
three encodings (`Form`) and refuses what it cannot carry. A strong hash is the bytes
themselves; the weak hash is Adler-32 with a modulus of two, so that it
collides; offsets wrap at `Modulus` as at 2^32; the chunker's fingerprint is
any predicate of the bytes since the chunk's start, chosen in `Init`, which
covers every mask and seed. `HashPages` is the paged iteration of the verifier.

**WorkerPool.** `Submit` and `Exit` end with a pass over the queues
(`ProcessQueues`); `Shares` is what its four loops take. A thread's answer
(`Succeed`, `Fail`) and its exit are two events; `EndSilently` is a thread
that exits without an answer; a constructor that throws leaves the counter
raised (`lost`), and in an exit handler it ends the process. Tasks are
submitted at any time. The dispatcher, the only caller, awaits one before it
submits the next, so in this commit the queues only fill behind threads that
have answered and not yet exited.

**Website.** The pages share nothing but tables that none of them writes, so a
run visits the playground, the lists or the statistics. In the playground a run keeps the inputs it was started with, and any run under way
may end next. In block mode the delta is a machine with one action per turn of
its loop, checked for every pair of inputs. In the lists a row is its rank by
age; `walk` is the history of a visitor's way from page one. The selects of the
statistics (`SelectTotals`, `CountActive`, `SelectRecent`) each see the tables
of their own moment, with new versions between them: `NewVersion` is the job that
commit.ts:133-137 and upload.ts insert with each version, and the file if it is
new, so every file has a job and the rows of the join of files with jobs are the jobs; `SeriesFails` is the
daily series on SQLite, the others after it are for a database that can answer.

Definitions marked *Mutant* are never used by a specification. Each is a
plausible bug (a dropped guard, a wrong order) that violates one property when
put in place of the definition that follows it.

## 3. What TLC checks

| Run | Instance | Shows |
|---|---|---|
| `sync_race` | 3 requests, 1 file, 3 versions, 2 tokens, 1 version kept, 1 fault | `NoForks`, `OneVersionPerToken`, `ConflictHasWinner`, `CurrentIsNewestRow`, `PrunerIsComing`, `OvertakenForGood`, `ImplementsVersionHistory` |
| `outbox_verify` | 1 dispatcher, 2 versions, batch of 2, 1 GC event, 1 fault | `ProcessedMeansSettled`, `CorruptedIsAlerted`, `VerifiedIsWhole`, `VerdictIsFinal`, `EventsDrain` |
| `outbox_poison` | GC not configured, 2 GC events, batch of 2 | violated: `EventuallyVerified` |
| `push_pool` | 2 workers, two contents of five and of two chunks, limit raised after 2 fast PUTs, 1 slow-down, 3 errors, 1 edit, 1 fault (crash, failing request, lost tokens) | `LimitIsUsed`, `SteadyCommitIsComplete`, `CachedIsPublished`, `PushSucceeds` |
| `push_drop` | 1 chunk, three 503 answers | violated: `NoChunkDropped` |
| `admission` | 2 browsers, 2 addresses, 1 key, 2 forms, 2 visits to the keys page; 4 requests, 2 at a time, limit 2, quota 3, window 1, times up to 3, 1 S3 slot | `AtMostTwoWindows`, `RefusalIsDeserved`, `RevokedIsOut`, `OwnChangesShow`, `CallsEnd` |
| `downloads` | 1 client, 1 reader, 2 chunks, 2 versions, 1 temporary object, pages of one row, 1 collection, both routes, chunks interchangeable | `ReferencesAreComplete`, `NoChunkIsLost`, `BreaksHaveCause`, `UploadsKeepTheirSource` |
| `two_way_sync` | 2 machines, 2 contents, 2 edits, 1 forced sync or fault | `EditsSurvivePull`, `OnlyRacesOverwrite`, `NoPingPong`, `Converges` |
| `two_way_stuck` | the same | violated: `ForcedPushWins` |
| `transfer_routes` | 2 versions of up to 5 bits by any of 4 routes and 3 encodings, the first perhaps a legacy one; chunks of 2 to 3, blocks of 2, uploads of up to 3, offsets modulo 4, hash pages of 2 | `DownloadIsFile`, `SignaturesLocate`, `ChunkSizes`, `CutsRealign` |
| `worker_pool` | 2 small and 2 large tasks, a slot of each type, 1 silent thread, 1 that cannot be made | `CountersCountThreads`, `NoIdleSlot`, `TasksSettle` |
| `website` | 4 texts and 2 sizes, 2 user acts on the page; all pairs of inputs of up to 4 bits in block mode; lists of up to 4 rows in pages of 2, or statistics with 2 recent jobs, 4 clicks | `NeverMismatch`, `RollingIsDirect`, `ShownIsCurrent`, `NoRowIsSkipped` |

**Why the bounds suffice.** `sync_race`: a winner, a loser and a third request
that arrives in between; two tokens let a retry and a competing negotiation
coexist; with one version kept the pruner runs after every second commit, and
two pruners hold lists of different ages. The theorems below remove these
bounds. `downloads`: pages of one row make every row boundary a page boundary;
two versions give a row before and a row behind the cursor, one that reuses the
other's chunks, and one that is pruned while it is read; either may be committed
with some, all or none of its chunks sent; its theorems, too, hold without
bounds. Nothing distinguishes two chunks, so they are a symmetry set; no property
of the run is a liveness property. `outbox_verify`: two versions and a GC event exceed the batch of
two; one fault is a crash or a failure at any place. `push_pool`: five chunks
for two workers bring both a rise and a fall of the limit with chunks still
waiting, three errors exhaust one chunk's attempts, and the second content
shares a chunk with the first, so that an edit meets a session, a journal and a
previous version of another content; `push_drop` has the case of three 503s.
`admission`: a span of a window's length that takes in admissions of two windows
needs a window that begins at time 1 and is used at 2, and one that begins at 3:
with limit 2, four requests fill both, and the bound of `AtMostTwoWindows`,
`2 * Limit - 1`, is reached. Windows that overlap by their last instant (the `<=`
of the mutant `OverAtEnd`) or a greater budget exceed it. Two requests at a time
and one slot make a queue; two browsers sign up against each other, share an
account, or follow each other in one browser under two accounts; two visits give a
first load and one with a list in the cache. The requests start when one visitor
is in and sees the keys it made, and from then on only revocations go on among
them (`AtRest`): accounts and requests share nothing but the rows of `api_keys`,
of which a request looks only at `owner` and `revoked`, only revocations change
these once a key exists, and browsers and addresses are alike. `two_way_sync`: two machines and two contents
make every pattern of equal and different file, cache row and newest version;
two edits give a conflict, or a race with a running sync; one trouble is a
force, a crash, a failure or a lost chunk at any place. `transfer_routes`: a
file of five has chunks cut by the fingerprint, by the maximum and by the end of
the file; two versions give every pair of routes (without signatures `cdc`
and `fixed` send the same single literal, so that `cdc` stands for both when
there is no previous version); uploads above the limit and offsets above
the modulus occur. `worker_pool`: with one slot of each type both directions
of stealing occur, with an idle slot and with waiting tasks. `website`: two
acts give three runs, in every order of ending; three rows are a full page and
a part of the next, the fourth arrives in between; a third job pushes one out of
the two recent ones.

**Fairness.** `SyncServer`, `Transfer` and `Website` have none: what they
promise is safety. In `Outbox` each dispatcher is weakly fair: Node runs every
settled continuation and the sleep has a timeout; faults, commits and uploads
are not fair. In `PushUpload` every started `fetch` and timer settles
(`WorkerStep`), every answer reaches `performPush` (`PushStep`), and the user
repeats the command (`Start`); crashes, lost tokens and edits are not fair. In
`TwoWaySync` a running sync goes on, every machine is synced again and again
(the assumption behind any talk of convergence; the CLI is started by its
user) and the dispatcher verifies what is pending; edits, expiry, forces and
faults are not fair. In `WorkerPool` a thread's handler comes to an end and
its exit event is delivered; silent ends and throws are not fair. In
`Admission` every S3 call is answered, if only with an error: that is an assumption
on S3 and the network, since no time limit is configured (negotiate.ts:34). In `ChunkStore` and
`Downloads` the running collection is weakly fair (the dispatcher awaits it); no
property of a run needs it. The bounds on faults stand for "faults do not go on
for ever", without which nothing drains.

**Deadlock** is checked except in `transfer_routes`, `worker_pool`, `admission`
and `website`, which stop when the bounded versions are stored, the tasks are
done, the requests answered, the visitor has clicked enough; `PushUpload` ends
in `Rest`, the others can always do something.

## 4. What TLAPS proves

`SyncServer_proofs`, from `NoneAssumption` and `MaxVersionsAssumption` only (any
number of requests, files, versions, tokens and faults):

- `TypeCorrect`, `CurrentIsNewest`, `NoLostUpdate`, `TokenUsedOnce`,
  `ConflictsAreReal`, `TokensDoNotRecover`, and `Refinement`
  (`Spec => ImplementsVersionHistory`).

None of these is inductive. `IInv` adds what the code relies on without saying
so: `HistoryInv` (the versions of a file form one chain numbered 1, 2, 3, ...,
each built on the one before; the pointer is at its end; everything else has
been built upon), `TokenInv` (a token's snapshot is a version of its file, and
a version made from a token was built on the token's snapshot) and `RequestInv`
(what a waiting request remembers). The two steps that carry the weight:
`NeverCurrentAgain`, an overtaken snapshot can never be current again, because
the pointer only ever moves to fresh ids; and `DoomedAreOld`, a list of rows to
delete never contains a version that can become current: it lists only rows
that exist and are not the newest, so a commit or a second pruner between the
three statements does no harm. `NextVerIsNextNo` shows that `max(version_no) +
1` over the remaining rows is the number after the current one, so pruning
never makes a number come twice.

- `PrunersCome` (`PrunerIsComing`). Several pruners of one file overlap, each
  with a list of another age, and the one that deletes last may hold the oldest
  list. `RetentionInv` says who counts: a request that has committed and will
  start its pruner, a pruner that has not read the pointer yet, one that has
  read a pointer that is still current, and one whose list leaves at most
  `MAX_VERSIONS_PER_FILE` rows. `AwaitedStays` shows that one of these is left
  whatever any other request does, since a commit that outdates them brings a
  pruner of its own; `NewestAreFew` that the newest `MAX_VERSIONS_PER_FILE` rows
  with the current one are no more than that. Faults end it: the pruner is
  started once and never again (the hazard at commit.ts:176).

`Downloads_proofs`, about `ChunkStore`, from `SizesAssumption`:

- `TypeCorrect`;
- `CollectorKnowsTheOld`: the invariant `CollectorInv` says that every row
  that is older than the collection, still there and at or below the cursor has
  its chunks in the reference set. `PageHasNoGap` (a page leaves out no row
  below its last one, whatever its size) and `ShortPageIsLast` (a page that is
  not full has everything above the cursor) carry it over a page; commits only
  add rows that are not old, prunes only remove rows;
- `NothingIsLost` (`NoChunkIsLost`): every chunk of a version is in the bucket
  under some key, unless a version was committed without it and nobody has sent
  it since. `AccountedInv` says the same of the chunks that a client has found,
  put or taken over from the previous version. `DeletionSpares` shows that what a
  collection deletes is always another key than the one that was listed, so each
  hash keeps one: no collection moves a chunk to the exceptions;
- `PagesAdvance`: every page but the last moves the cursor up.

and about `Downloads`, from the same assumption:

- `ImplementsStore`: every step of `Downloads` is a step of `ChunkStore` or
  leaves its variables alone, so the theorems above hold while versions are read
  and uploads keep temporary objects;
- `BreaksAreExplained` (`BreaksHaveCause`): a chunk that a reader lacks is in the
  bucket under the bare hash, or a version was committed without it and nobody has
  sent it since. Behind it is `ReaderInv`: every key is bare or sharded once
  (`OneOrNoPrefix`), and every chunk a reader still waits for is accounted for
  (`ReadersServed`). `StoredStays` carries it over collections: they may delete the
  sharded key, but only of a hash whose bare key they have listed, and that stays;
- `SourcesAreKept`: a temporary object that waits to be copied is among no
  collection's orphans.

`Outbox_proofs`, from `InventoryAssumption`, for any number of dispatcher
processes over the same tables:

- `TypeCorrect`, `ProcessedIsSettled` (`ProcessedMeansSettled`) and
  `VerifiedMeansWhole` (`VerifiedIsWhole`). `IInv` joins the two with `LogInv`
  (one event per version, chunks are only looked at after the commit) and, for
  each dispatcher, `Relies`: what its handler has found out and the statements
  still to come rely on, such as that a version about to be called verified is
  whole, and that every event that is about to be marked is settled. Nothing
  another dispatcher does takes any of this away: chunks do not vanish and
  verdicts do not become pending again. Only a prune removes a version, and a
  pruned version is settled, too.
- `CorruptedHasAlert` (`CorruptedIsAlerted`) and `VerdictsAreFinal`
  (`VerdictIsFinal`), for `OneDispatcher`, as the properties are stated: a second
  dispatcher may overwrite a verdict whose event the first has marked.
  `HandledOnce` says that a single dispatcher has nothing in hand that it has
  handled before.

`Transfer_proofs`, about `Transfer`, from `SizesAssumption` and
`WidthAssumption`: a field of `Modulus` values holds the length of any upload,
chunk or block, as the 32 bits of the code hold 500 MB. The file may be longer,
and its offsets may wrap.

- `TransfersDescribe`: the invariant `IInv` holds. `HistoryInv` says that each
  stored manifest describes its version from end to end (`Tiles`: rows that
  follow each other, each with the bytes it hashes) and, for a push, in the cuts
  of the chunker (`Cutting`). For the transfer under way there is one conjunct
  for each phase: the ends so far are cuts of the chunker (`Chain`, in
  `BusyInv`); the operations stand for the file up to the open literal
  (`ScanInv`), then for all of it (`SendInv`); while upload.ts applies them, the
  rows written stand for a beginning of the file and the operations left for the
  rest (`ApplyInv`). `Sends` is "these operations stand for these bytes": a copy
  repeats a row of the signatures that has these bytes, literals take the
  literal stream in turn. A window only becomes a copy when its strong hash is a
  row's, so collisions of the weak hash do no harm; an encoding that would have
  to cut a length refuses the upload instead.
- `DownloadsAreFiles` (`DownloadIsFile`): rows that tile a file spell it
  (`TilesSpell`).
- `SizesKept` (`ChunkSizes`): `CutBounds` bounds every cut, whatever the
  fingerprint; the recursion of the Rust addon and the loop of fastcdc.ts go
  through the same cuts.
- `SignaturesCorrect` (`SignaturesLocate`): while the file fits the field, no
  offset has wrapped, so offset and length locate each row; `Collects` says that
  the list that is cut into pages has each hash of the rows exactly once.
- `CutsMeetAgain` (`CutsRealign`): a cut depends only on the bytes behind the
  previous one (`CutMoves`), so two versions that share a cut and the bytes
  behind it (`SameTail`) share all later cuts (`Realign`, in both directions).

Sums, concatenations and the list of unique hashes are folds; `FoldRuns` shows
that a fold over `1 .. n` is the last value of a run of n steps, and `SumIs` and
its like turn that into a statement about each element.

About `WorkerPool`, from `SlotsAssumption`: `PoolTypeCorrect`,
`CountersAreThreads` (`CountersCountThreads`) and `NoSlotIdles` (`NoIdleSlot`).
The two are in `PoolInv` with `QueuesInv`: no task is queued twice, or in both
queues, or queued with a slot. The lemmas are about what the four loops of
`processQueues` take (`Shares`): cuts of the two queues that are disjoint, no
longer than the free slots, and that leave nothing waiting beside a free slot.
The names of `WorkerPool` begin with `Pool` where `Transfer` has the same, since
the one module of proofs extends both.

`PushUpload_proofs`, from `SizesAssumption`, `ContentsAssumption` and
`BoundsAssumption`:

- `TypeCorrect` (the limit stays between 1 and the concurrency), `LimitUsed`
  (`LimitIsUsed`), `SteadyCommits` (`SteadyCommitIsComplete`) and
  `SkippedIsPublished` (`CachedIsPublished`);
- `TokensAreFew`: the server is asked for at most one token beyond one for each
  edit and each fault, so the model's numbering of tokens never stops a push.

`SessionInv` relates the session on disk, the token the server may have lost
and the content being pushed; `SteadyInv` says where each chunk of the push is
while no slow-down has struck (stored, waiting, or in a worker that performPush
awaits), and that the limit is still the concurrency: a worker nobody awaits is
only started after a slow-down, which is why `SteadyCommits` stops there;
`Journaled` says that the journal, which survives crashes, names stored chunks
only; `TokensSuffice` counts with `Owed` the tokens that may be asked for before
the next edit or fault.

`TwoWaySync_proofs`, from `NoneAssumption` and `BoundsAssumption`, for any
number of machines:

- `EditsSurvive` (`EditsSurvivePull`), `OnlyRaces` (`OnlyRacesOverwrite`):
  `MachineInv` holds of each machine: a cache row, an ancestor and what is being
  written come from the server (`FromServer`), a sync whose user has not edited
  has read the file that is there (`ReadIsFile`), a push carries what the file
  held when it was read, and without faults a sync that no version has overtaken
  knows the newest one (`KnowsNewest`).
- `PushesArePaid` (`NoPingPong`): `Paid` says that the versions, the pushes that
  will make one more, and the machines whose file differs from their cache row
  are together at most the edits, forces and faults so far. A pull makes a
  machine clean without a version, a push changes a dirty machine into a flying
  version and that into one on the server: no loop of syncs makes versions out
  of nothing.

`Admission_proofs`, from `AccountsAssumption`, `RateAssumption`,
`LimiterAssumption` and `AdmissionAssumption`:

- `AtMostTwo` (`AtMostTwoWindows`) and `RefusalsDeserved` (`RefusalIsDeserved`):
  `WindowsInv` gives each user and counter the start `T` of the last window. The
  admissions since `T` are what the entry counts, one of them at `T` itself, so at
  most `Limit - 1` after it; and at most `Limit - 1` fall in the window's length
  before `T`, since the request that opened the window before is further away. A
  span that reaches `T` misses one opening or the other, hence `2 * Limit - 1`. A
  sweep only removes entries of windows that are over.
- `RevokedStaysOut` (`RevokedIsOut`): `KeysInv` carries the revocation from the
  moment the request is sent (`late`) over the await of the hash.
- `OwnChanges` (`OwnChangesShow`): `PagesInv` says that what a page at rest shows,
  and what an answer on its way has, includes the changes the page asked again
  for, and that a page with such changes waits for an answer to its own cookie
  only (`by`), whoever asked for the one before; `IdsSuffice` that the bounded ids
  never stop an answer.
- `CallsLimited`: at most `MaxConcurrent` calls are at S3 and the counter is
  their number; `QueueInv` also says that no call waits beside a free slot.

`Website_proofs`, from `PagesAssumption`, `TextsAssumption`, `LibAssumption` and
`BytesAssumption` (a byte is less than `MOD_ADLER`):

- `ShownBelongs` (`ShownIsCurrent`): `RunsInOrder` and `LastIsOfPage` say that
  the run that started last has what is on the page, and is either under way or
  shown, unless an older one was shown after it.
- `NoneSkipped` (`NoRowIsSkipped`): every answer is a page of some moment
  (`CacheIsOld`), and a patient visitor has seen all rows above a bound that the
  page on the screen ends at (`WalkInv`). Rows that arrive only move the bound
  towards newer pages, hence "next" never jumps over one. `StatsInv` carries
  what each select has found over the ones that follow.
- `RollingExact` (`RollingIsDirect`): the rolled state and the hash of the window
  are congruent modulo `MOD_ADLER` (`Rolls`), and both are reduced, hence equal.
  The summand that `rollAdler32` adds to keep `b` above zero is where the byte's
  bound is needed. `AdlerUnrolls` gives the state after each byte of the direct
  hash, whatever the length.
- `NeverMismatches` (`NeverMismatch`): the ops of a delta tile the new file
  (`Tiling`), each right for the bytes it covers (`Right`); such ops rebuild the
  file (`TilingRebuilds`) and their lengths add up to it (`CountersAddUp`). In
  chunk mode the chunks follow each other to the end of the file
  (`RangesChain`). In block mode `CallInv` says that the ops cover the file up to
  the open literal, without a gap, in every turn of the loop.

What is recursive in the delta library and in `Transfer` (chunk ends, folds) is unfolded by
`RecursionExists` and `FoldExists`: by the least element of a set of numbers, a
function that meets the defining equation exists, so the CHOOSE that TLA+ defines
it by meets it as well; the library's induction theorems take an operator and
cannot be used.

**Only model-checked:** all liveness (`EventsDrain`, `PushSucceeds`,
`CallsEnd`, `Converges`, `TasksSettle`), since liveness under fairness and
ENABLED are beyond the provers. Of the invariants and action properties that
the passing runs check, each is a theorem.

## 5. Where code and documents disagree

Shown by runs (see `findings` in `PROJECT.json`):

- `outbox_poison`: GC events that always fail starve verification.
- `push_drop`: a chunk is dropped after three 503 answers and the push commits.
- `two_way_stuck`: after a lost race, `sync --force-push` resumes the session
  of the refused push, with its stale snapshot, and is refused again until the
  token expires.

Noticed while modelling, without a run. The write path and the store:

- `upload.ts` looks chunks up and copies them under the bare hash
  (upload.ts:230, 236) while `block-store.ts`, `negotiate.ts` and `worker.ts`
  read `getS3Key(hash)`, so an uploaded version cannot be downloaded and
  verification marks it corrupted (README.md:63 promises sharded keys). In
  `ChunkStore` the two keys are `StoreKey` and `S3Key`.
- `BreaksHaveCause` names what breaks a download: a bare-key object of `upload.ts`
  (which no reader looks at, and which has the collector delete the sharded object
  of the same hash, see the next point), or a commit without the chunk: a push that
  dropped it (push.ts:216) or did not await its upload (push.ts:228), since
  `commit.ts` asks the bucket nothing, although `commit.ts:4` places it after the
  uploads. Such a chunk is also skipped by the next push that has it in the
  previous version (`PrevChunks`).
- `gc.ts:194` puts the listed key through `getS3Key` once more. Orphans under
  sharded keys are therefore never deleted (the run is reported as completed),
  and `NoChunkIsLost` holds *because of it*: the mutant `DeleteListed`, which
  deletes the key as listed, violates it, as nothing else keeps a collection
  from deleting a chunk that a client has just found with HEAD. An orphan under
  a bare key (from upload.ts) makes the collector delete the sharded object of
  that hash: the bytes stay under the bare key, but a pushed version that names
  the hash becomes unreadable. `NoChunkIsLost` speaks of the bytes.
- `gc.ts:84` pages the legacy `blocks` table by OFFSET without an order: a prune
  between two pages can make it skip rows. (Left out of the model.)
- `commit.ts:87` passes an async callback to `db.transaction`. The synchronous
  driver of `db.ts` (better-sqlite3, outside this repository) does not accept a
  callback that returns a promise. The models take the transaction as the
  handlers rely on it: all or nothing, and serialized.
- `commit.ts:158` asks for a retry after 409, but the client's session still
  names the same token: by `OvertakenForGood` the retry can only fail until the
  token expires or the content changes.
- `commit.ts:81` adds up all chunks as transferred, so `bytesSaved` of a push
  is always 0. The dashboard's "Files synced" counts the rows of the join of files
  with jobs, hence the jobs.
- `docs/API.md:273` says that all versions are retained by default;
  `version-pruner.ts` keeps `MAX_VERSIONS_PER_FILE`.

Verification and limits:

- `worker.ts:72`: any failing HEAD, a timeout included, counts as a missing
  chunk and the verdict is final; `shared/schema.ts:38` defines corrupted as
  "missing chunks detected".
- `outbox-dispatcher.ts:37` speaks of a transaction that claims events; the
  select below it claims nothing, and a second dispatcher runs the same
  handlers. The Outbox properties on alerts and verdicts are for one dispatcher.
- `outbox-dispatcher.ts:59` awaits each task, so a small manifest does wait
  behind a large one that is before it in the batch, whatever the pool could do
  (README.md:51).
- `worker-pool.ts:80`: a constructor that throws costs its slot for good; in an
  exit handler it ends the process; when all slots are lost everyone waits for
  ever. `TasksSettle` is stated for fewer throws than slots.
- `rate-limiter.ts:23` calls the window sliding; it is fixed, hence the
  `2 * Limit - 1` of `AtMostTwoWindows`.
- `docs/API.md:213-218` and `docs/SECURITY.md:341-345` give negotiations and uploads
  budgets of their own and leave downloads unlimited. In the code `negotiate.ts:92`
  and `upload.ts:99` count on one counter, with one limit, and downloads have a
  limited counter and a quota of bytes.
- `rate-limiter.ts:42`: the download that opens a byte window is not compared
  with the quota.

The CLI and the encodings:

- `push.ts:228`: a worker started when the limit rises is not among the
  promises that `performPush` awaits, so a commit may overtake its upload,
  although `commit.ts:4` places the commit after all uploads.
- `db.ts`: the journal rows of a negotiation that is given up are never removed;
  they name a token nobody uses any more.
- `sync.ts:52`: a failed metadata request is taken for "not on the server". A
  local change is then pushed over a version this machine has never seen;
  `OnlyRacesOverwrite` is stated for runs without faults because of it.
- `api.ts:85`: 202 is `r.ok`, so the JSON that says that verification is still
  running is written into the user's file and its hash cached as the ancestor.
  In `TwoWaySync` the next sync pulls again; an edit of that file in between is
  a conflict.
- `ops-binary.ts:83` asks for a literal length of at least one, but the delta of
  an empty file without signatures is one literal of length 0: only the binary
  encoding can carry it.
- `native/src/lib.rs:42` rounds the average chunk size up to a power of two
  where `fastcdc.ts:13` rounds it down: the two chunkers cut alike only for
  averages that are powers of two, as all defaults are. `ChunkSizes` compares
  them under one fingerprint condition.

The web site:

- `keys.tsx:26`, `keys.tsx:31`: a change that is answered while the page waits for its
  first list, or while it is closed and an answer is under way, may stay off the
  page: the answer read before it is taken for the fresh one. `OwnChangesShow`
  excepts both.
- `keys.tsx:20` never looks at the query's error: when the list cannot be fetched
  the page goes on showing the old one, or none, without a word. Nor is the cache
  cleared at sign-out: the next account of the browser first sees the list of the
  one before, and may have to wait for an answer to the old cookie.
- `api-keys.functions.ts:43-51`: `revokeApiKey` revokes the key with the id it is
  given, whoever owns it; the page only offers the keys in its list.
- `playground.tsx:76`: an older run that ends after a newer one shows its result
  for texts that are no longer on the page, with its badge (`overtaken`).
- `files/index.tsx`, `jobs.tsx`: the pages are cut by OFFSET; a visitor who turns a page
  before it has been fetched can miss rows (`patient`), and one who waits may
  see a row twice.
- `sync.functions.ts:35` groups by `date_trunc`, which SQLite does not have, so the
  dashboard's statistics always fail (`SeriesFails`); `cleanup.ts`, which nothing calls, uses a
  Postgres dialect as well.

## 6. Not modelled, and why

Inside modelled parts: input that no encoder of this repository writes (the
decoders' error paths); the legacy `blocks` pages of the collector;
`storeBlock`, `hasBlock`, `hash_literal_chunks`, `handleCleanupFile` and
`negotiation-store-db.ts`, which nothing reaches; `files.ts`, a single select that
is only shown; how the dashboard draws its chart and the block map; `init`, `status` and the configuration file
of the CLI, prompts and printing. Password hashes, key hashes and the signature
of the session token are taken as sound. The component library under
`components/ui`, the other pages, the server entry with its environment checks,
headers and error pages, deployment and benchmarks hold no state that the rules
depend on.

## 7. Plan

Done, in this order: `VersionHistory`, `SyncServer` and its proofs; `Outbox`;
`PushUpload`; `RateLimiter`; `ChunkStore` and its proofs; `TwoWaySync`;
`Transfer`; `WorkerPool`; `Accounts`, `S3Limiter` and `Admission`; `Downloads`
and its proofs; `DeltaLib`, `Playground`, `Dashboard` and `Website`; sessions,
journal and crashes in `PushUpload`; Rust, FlatBuffers and legacy versions in
`Transfer`; the proofs about `Outbox`, `WorkerPool`, `TwoWaySync`, `PushUpload`,
`Admission`, the pruners of `SyncServer`, the pages of `Website`, `DeltaLib` and
`Transfer`. To do, most
important first:

1. `TwoWaySync` over `SyncServer` in place of the register: a refinement that
   shows that the register of `TwoWaySync` is `VersionHistory`.
2. A variant of the transaction cut at its awaits, to show what the write path
   loses without atomicity.
3. Composition of `SyncServer` and `Outbox`, one event per issued version, and
   two dispatchers that hold the same events.
