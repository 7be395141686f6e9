# teleparse: a verification project in TLA+

teleparse walks Telegram chats, records the media it matches in a SQLite
manifest and downloads the files. This directory holds TLA+ models of the parts
of it that several goroutines, several processes or a crash can get wrong, the
TLC configurations that check them on small instances, and proofs that TLAPS
checks for instances of every size. `PROJECT.json` indexes all of it: which
definition stands for which lines of source, which run checks which property,
and which theorem establishes it for every value of the constants.

## 1. The system

| component | state | operations | interacts through |
|---|---|---|---|
| filters (`filters/`) | options, compiled predicates | validate, compile, derive the server filter, match | called by the walk for every message |
| walk engine (`scan/walk.go`, `map.go`, `sender.go`, `retry.go`) | feeds, page offset, retry count, scan budget, sender cache | page, retry page, project, match, emit, reverse | callbacks into the collector, RPC |
| scope and invocation (`scan/scope.go`, `minage.go`, `cli/routing.go`, `takeout_fallback.go`, the session wrapper of `dl_cmd.go`) | specs, targets, routes, deferred chats, export mode | resolve, split by route, probe the age, open one session per account, premium pass | one session after the other |
| run driver (`cli/dl_cmd.go`, `sync_cmd.go`, `get_cmd.go`, `resume_cmd.go`) | run row, watermarks, collector | create run, decide the window, walk, enqueue, run, advance watermark, finish, resume | store, walk engine, download manager |
| download manager (`download/downloader.go`) | claimed rows, `Result`, two contexts | claim, hand over, attempt, charge, settle, park, interrupt | store, pacer, fetch, unbuffered channel |
| pacer (`pace/pace.go`) | semaphore, flood deadline, wake channel, timer generation | Acquire, Release, Wait, ReportFlood, timer callback | mutex, channels, runtime timers |
| media store (`store/`) | tables `media`, `runs`, `chats`, `occurrences` | claim, mark, record, requeue, reset, watermark, retention | SQLite transactions |
| files (`download/blob.go`, `downloader.go`) | part files, blobs, final paths, links | choose a path, open, promote, link or copy, drain, gc | file system, store |
| ranged fetch (`download/ranged.go`, `fetch.go`) | offset, file reference, data center, part file | request a range, write, retry, refetch, migrate | RPC pools, part file |
| message cache (`cli/itemctx.go`) | bounded cache of walked messages | resolve, refetch, seed | workers, mutex |
| web proxy (`webproxy/`) | session, streams, windows, tombstones, carriers | bootstrap, open, read, write, close, fail, poll | frames over a carrier, mutexes, channels |
| verification (`verify/`) | verdicts | sweep, relink, requeue, gc | file system, store |
| accounts and pools (`tg/`) | account lock, active account, connection pools | login, lock, dial, pool per data center | files, MTProto library |
| configuration, presentation, export | none shared | pure functions or sequential I/O | — |

An invocation resolves its chats, splits off those routed to other accounts and
opens one session after the other. Each session creates a run, walks every chat
from its watermark, hands the messages that match to the manager, and moves the
watermarks when the manager returns. The manager's workers take rows from the
store, resolve their file locations through the message cache, fetch ranges
into part files under the pacer, and promote a whole part file to a blob or a
final path. Every connection may run through the web proxy.

What is hard in it:

* **claims under concurrency** — a feeder claims rows while the workers that
  own earlier rows still write to them; a failure written too early is a second
  owner;
* **cancellation** — two nested contexts (user, run) reach goroutines between
  any two statements, and the store writes run under one of them;
* **accounting** — a summary kept in memory and a manifest kept in SQLite are
  updated by different statements;
* **restarts and several processes** — rows left `downloading`, watermarks
  advanced past them, runs left `parked`, a resume next to a live run;
* **the file system as shared state** — workers, gc, verify and the user link,
  rename and remove the same inodes without a common lock;
* **pauses and timers** — a timer callback may already be running when its
  pause is replaced;
* **retries of what was already done** — a lost answer to a request the relay
  has taken, a fetch that resumes behind bytes already on disk;
* **narrowing** — the walk asks the server for less than the chat, and what it
  leaves out must be what the predicates would refuse;
* **multiplexing** — streams, tombstones and windows of one carrier whose loss
  must reach everybody exactly once.

What makes each part correct: a row has one owner and one verdict per run
(manager); a pause lasts as long as the server asked (pacer); no matched file is
left behind for ever (run driver, store); what is selected depends on the
options alone (filters, walk); every chat is walked once, on one account
(invocation); no byte is lost, duplicated or credited twice (web proxy, ranged
fetch, files); a finished row's file is there and its own (files, verification).

## 2. The modules

### `Downloader` — one run of the download manager

Source: `internal/download/downloader.go`, the statements it uses in
`internal/store/media.go` and `runs.go`. `Items` are rows of the media table in
`(message_id, media_index)` order, `ChatOf` their chats.

| variables | code |
|---|---|
| `status`, `attempts` | columns of `media` |
| `runStatus`, `resumeAt` | columns of `runs` |
| `chats`, `feedAt`, `feedChat`, `batch`, `feedErr` | `Manager.chats` and the locals of `feed` |
| `sightings` | `Manager.pendingLinks` |
| `pc`, `item`, `attempt`, `err`, `wait` | the locals of each `worker` goroutine, and of the goroutine in `Run` (`Runner`), which drains the links |
| `runCancelled`, `userCancelled` | `runCtx.Err() # nil`, `bookCtx.Err() # nil` |
| `count`, `parked` | `runState.res`: the outcome counters, per row or sighting; `Parked`/`ResumeAt` |

One action is what one goroutine does between two points where another can see
it: a store statement, the handover on the unbuffered channel, a look at a
context, a fetch. `Init` is what `Enqueue` leaves: any non-empty set of rows is
queued with a fresh budget, their chats are registered, and the other rows of
the table are in any state an earlier run can have left (`LeftoverRows`). In
hardlink mode `Enqueue` has also put sightings aside: of messages that own no row
(`Sightings`), and of messages whose own row is done.

The feeder claims a batch (`FeedClaim`), hands it over row by row (`Receive`),
moves on at an empty claim (`FeedNextChat`) and closes the channel
(`FeedClose`, `FeedError`). A worker drops a row it receives after the
cancellation (`Discard`), settles it before the ladder (`PrecheckFails`,
`PrepareFails`, `SkipPresent`) or enters the ladder (`StartLadder`): pace,
fetch, promote; on failure `handleFailure`'s cases in their order
(`SettleInterrupted`, `LookAgain`, `SettleCancelled`, `SettleFatal`, `Park`,
`RefetchFatal`, `KeepTrying`), then the charge, the backoff and the next attempt
(`ChargeAttempt`, `Retry`, `BackoffCancelled`, `Exhaust`); or it links the row from
the blob that is there already (`LinkFromBlob`). `UserCancel` is the user's
interrupt.

When the workers are gone `Run` itself drains the sightings (`Drain`): one at a time
(`DrainTake`) until the run is cancelled, each is there already (`DrainThere`), is
linked (`DrainLinks`), cannot be served (`DrainUnserved`), or goes through the same
ladder as a claimed row (`DrainOpens`), park included. Nobody has claimed the row:
the ladder charges it and marks it done, failed or interrupted all the same, and
writes nothing when the message owns none.

Abstractions: a verdict and its store write are one action; a store write fails
exactly when `bookCtx` is cancelled, and a claim may fail at any time
(`FeedError`); `Retries`, `Bytes`, `LinkCopies` and the failure texts are left
out, no decision reads them; outcome counters saturate at two (`CountMax`), which
keeps "never", "once" and "more often" apart; `resume_at` is the length of the
wait on a clock that stands still during the run; the error an attempt ends with
is one of the classes `handleFailure` distinguishes. What a worker and the drain do
to files is in `FileStore`; the bytes of a fetch are in `Transfer`. Not followed: a
sighting listed twice, a message whose media has been replaced by a file that is
done elsewhere (its row, not done, is then drained like a done one), and an error of
the feeder's claim in the instant of a park.

### `ClaimLedger` — what the claim protocol promises

Rows, and who owns them. A claim takes open rows only, a charge or a verdict
needs the claim, an interrupted row comes back free of charge, and a claim given
up leaves the row as it is. Once claiming is closed and every claim is given back,
a done row may be revisited, one at a time, and is then charged and settled like a
claimed one. `Downloader` implements it with `owned <- InHand` (rows in the
unfinished batch, in a worker's hands or in the drain's) and `closed` when the feeder
has closed its channel: property `KeepsLedger`, checked by TLC and proved.

### `Pacer` — semaphore and flood pause

Source: `internal/pace/pace.go` and its callers in the retry ladder. Time is a
discrete clock up to `MaxTime`, which bounds every deadline (`ReportFlood`'s
guard). `floodUntil`, `floodGen` are the fields; wake channels are numbered and
every channel below `wake` is closed; `timers` are the started and not stopped
timers, which become `fired` when the runtime starts their callback — out of
reach of `Stop`, waiting for the mutex — and vanish when the callback runs.
`owed` is a history variable: the latest end of any reported wait. The workers
go through `Acquire`, the flood check, the jitter, the fetch, `Release`,
`ReportFlood`, and the ladder's own `Wait` without a slot.
`ParkUntil` shares `setDeadlineLocked` with `ReportFlood` and has no caller
outside the tests, although its comment names the run manager.

### `StreamWindow` — one web-proxy stream and its credit

Source: `internal/webproxy/window.go` and `Stream` in `session.go`.

| variables | code |
|---|---|
| `available`, `aborted`, `changed` | `sendWindow`; `changed` says that the channel a blocked `Reserve` took has been closed |
| `ungranted` | `recvWindow.ungranted` |
| `buf`, `recvErr`, `closed`, `expired` | `Stream`; `expired`: the deadline is set and has passed |
| `known` | the stream is in `Session.streams` |
| `wpc`, `left`, `got` / `rpc`, `took`, `delta` | the goroutine in `Write` / in `Read`, and its locals |
| `pump`, `closer`, `failer` | the carrier pump, `Close`, `Session.fail`: how far each has come |
| `up`, `down`, `relay` | frames in flight as totals per kind; the relay |
| `late` | history: this `Write` began after the end was published |

Steps are the critical sections of `Stream.mu`, of `sendWindow.mu` and of
`Session.mu`. The three enders — a local `Close`, the relay's CLOSE, the loss of
the session — go through publish, abort and drop one step at a time, and the
pump looks the stream up (`handleFrame`) before it handles the frame. There is
one writer and one reader because the MTProto connection on top serializes both.
The relay is not part of this code: it sends within its credit, passes on what it
received and grants that back, and sends nothing after its CLOSE. The carrier's
order matters for CLOSE only, which comes last. Nothing bounds the model but its
constants: credit is conserved, so every counter stays within the window.

### `WebSession` — resolver, sessions, streams and lanes

Source: `resolver.go`, `session.go`, the carrier constructors in `carrier.go`.

| variables | code |
|---|---|
| `session`, `pc`, `id`, `fresh`, `refusal` | `Resolver.session` and the goroutine that holds `Resolver.mu` in `acquireStream` |
| `mode`, `dialCtx`, `writer`, `pump`, `carrier` | a session's mode, the context it was dialled under, its goroutines, its carrier |
| `cause`, `lost`, `failing`, `toAbort` | `fail`: what it was called with, `Session.lost`, how far it has come, the streams it collected |
| `streams`, `nextID` | the stream table |
| `ended`, `closing`, `frame` | per stream: its terminal error, `Stream.Close`, the CLOSE frame |
| `lane`, `lanePump`, `stopped` | per stream: its lane's writer and carrier, its lane's pump, `laneStop` called |
| `handed` | streams a connection has received |

`acquireStream` opens (`Open`, `StartShared`, `LaneDialled`, `SendOpen`) and
re-establishes after the errors it recognises (`OnLoss`, `establish`); the relay
selects the mode at each bootstrap. `Fail` is `sync.Once`: the first cause counts,
the session is stopped before the table is read (`FailCollects`), and each
collected stream is told (`FailAborts`). A stream is told in one step here,
`StreamWindow` has the detail. Left out: tombstones, because ids are never reused
and a dropped stream is ignored anyway; PING and PONG; batching; the DELETE
request. Of the frames only CLOSE is followed. `MaxSessions` is a bound of the
model, `MaxStreamID` the code's own limit.

### `RunLifecycle` — commands over one state database

Source: `internal/cli/dl_cmd.go`, `sync_cmd.go`, `get_cmd.go`, `resume_cmd.go`
and the statements of `internal/store/` they issue. Every process runs one
command at a time on an account of its own.

| variables | code |
|---|---|
| `present`, `posted` | what Telegram holds: the ids of each chat's messages, the highest id given |
| `status`, `spent` | `media.status`; whether `attempts` has reached the limit |
| `watermark` | `chats.last_seen_message_id` |
| `runs`, `spec` | rows of `runs`: status and scope |
| `pc`, `mode`, `run`, `pass` | where a process's command is, which command, its run, main, resumed or premium pass |
| `todo`, `at`, `from`, `maxSeen`, `incr` | the loop over the chats: window and highest matched id |
| `items`, `deferred`, `owes` | the collector, the chats kept for the premium pass, the watermarks still to be moved |
| `links` | `Manager.pendingLinks` |
| `chats`, `held`, `failedIn` | the manager: its registered chats, the rows it has claimed, the chats with a failed row |
| `interrupted` | history: rows an interruption left claimed |

Each statement is an action. `Start` or `Resume` creates or replays a run
(`ResumeRefused` is a resume without one, `CleanupFinishedRuns` the retention);
`WindowFull`, `WindowFresh`, `WindowCleared` and `WindowIncremental` decide a
chat's window, `Walk` reads it under any of the `Filters` — each walk chooses one,
so commands over one store may differ in theirs —, `PreviewRun` and `Discover` are
what a scan records; `LoadItems` joins pending rows to the collected items and takes
out the oversized ones, `Enqueue` stores one item or, under hard links, puts aside
one whose file is known (`PutsAside`). `Claim`, `MarkDone`, `MarkFailed`,
`MarkInterrupted` and `Park` are the manager as its effect on rows, `LinkSkipped`,
`LinkDone`, `LinkFailed` and `LinkInterrupted` the drain of what was put aside, which
writes whatever row the message has — `Downloader` has the detail. `FinishStatus`, `Advance`, `Return`, `PremiumPass`
and `ResumeNext` end a run. `StepFails` is a statement that errors, `Crash` the
death of a process between any two of them. `Post` and `ClearHistory` are the
chat's other members. Two clients see one history; albums, topics and dates are
not in this module.

### `FileStore` — part files, blobs and final paths

Source: `internal/download/blob.go`, the promotion and path code of
`downloader.go`, and the repairs of `internal/verify/`.

| variables | code |
|---|---|
| `inode` | per directory entry the inode it names, 0 when absent: final paths, blobs, and the part file next to each |
| `owner`, `state` | per inode: whose bytes; partial, whole or damaged |
| `status`, `path` | `media.status`, `media.path` |
| `owed` | sightings of a done row's own message that a run has put aside |
| `pc`, `item`, `cfg`, `dest`, `fd` | a worker: its row or sighting, its run's configuration, the path it chose, its open part file |
| `doomed` | the entry `BlobGC` has found with a single link |
| `meddled`, `requeued` | history: rows whose files the user touched; rows verify requeued |

A sighting is another chat's, which writes no row, or the row's own message met
again (`Own`): `Remember` puts it aside while the row is done, and serving it goes on
to write the row, done or not by then. `LookRow` and `LookSighting` are
`processItem`, `processHardlinkItem` and `drainPendingLinks` up to the decision to
skip, to link or to fetch; `OpenPart`, `Fetch`, `Promote`, `LinkOrCopy` and `Mark`
follow, `LinkFails`, `LadderFails`, `Interrupt` and `Stop` leave between any two: a
sighting whose link failed writes no row (`Leaves`), one whose ladder failed or was
interrupted does. `GcStat` and `GcRemove` are separate because `BlobGC`
decides by a link count it read before. `DeleteFinal` and `DamageFinal` are the
user. `RelinkBlob`, by link or by copy, and `RequeueMedia` are the repairs. A hard link is two entries
of one inode and an open part file outlives its entry. The collision
policy's walk over indexed names is one step: a name has one indexed one
(`IndexOf`).

### `FilterOptions` and `Selection` — which messages a run selects

Source: `internal/filters/`, `internal/scan/map.go`, `sender.go`, `walk.go`,
`retry.go`. `FilterOptions` has the options (`tri`, `any`, `none`, `least`,
`most`, `only`) and `Valid`, what `Validate` and `Compile` accept. `Selection`
has the projection of a raw message (`MapMessage` and its parts), one operator
per group of predicates (`ChatPredicates` to `MiscPredicates`), the search filter
derived from the wanted kinds (`MessagesFilterFor`), and the walk: `ListTopics`
page by page, `NextFeed` per topic, `Fetch` and `Retry` per page, `Scan` per
message with the sender cache, `StopAtLimit`, `WalkFails`, `Flush` of a reversed
emission. `Serves` says what the server returns for a request. Patterns and globs
are sets of the values they match; a text is one value. Message ids give the
order, so a history, a page and the list of topics are sets: a page holds the
newest messages below the offset, and the walk takes the newest of what is left
of it. `read` is a history, the messages the walk has looked at.

### `Invocation` — chats, accounts, export mode

Source: `internal/scan/scope.go`, `minage.go`, `internal/cli/routing.go`,
`takeout_fallback.go` and the session wrapper in `dl_cmd.go`. `DecideTakeout`
chooses the export mode, `TakeoutStarts` and `TakeoutRefused` are the server's
answer; `ResolveSpec` and `ResolveSaved` turn specs into targets under the
chat prefilter and without repetition, `SplitRouted` takes routed chats out,
`FilterByMinAge` probes the first message, `Walk` hands a chat to the run driver.
Of the list of targets the module keeps how often each chat is on it, not the
order: the code walks the list front to back, and no property depends on which
chat comes first.
The accounts of `--account` (`AccountList`) take turns: `NextAccount` starts the turn
of the next one with all the specs anew, whatever an earlier one has walked. Without
the flag there is one turn, of the configured account; only that one has routes and
deferrals (`Extras`). `EndSession` then opens the next session: one per routed account
(`RoutingPasses`), then the premium pass (`PremiumPass`), which walks its chats in
full like any other session. `walked` is the history of a turn and the sessions it
led to. An `--account all` without any local account, which does nothing, is not
modelled.
`InvocationAssumption` says that an id names one chat, whatever the kind of its
peer: section 6 has what happens otherwise.

### `HttpsCarrier` — the polled carrier

Source: `internal/webproxy/bootstrap.go`, `carrier.go`. `FetchBridgePage` and
`PostSession` are the bootstrap and the choice of the mode; `Send` numbers a
batch and `UpLost`, `UpRefused`, `UpAcknowledged` are what becomes of the
request, repeated under the same number by `exchange`; `PollBatch`, `PollEmpty`,
`PollLost`, `PollRefused` follow `pollLoop` with its cursor, which an empty answer may
move as well, `Deliver` puts a batch into the inbox and `RecordTerminal` the error;
`Recv`, `RecvDelivery` and `RecvClosed` are the session's pump, `Close` both
goroutines' end. The relay is external: it acknowledges a number, takes a repeated
one once, serves the next batch behind a cursor, and moves the cursor over positions
that hold none (`blank`). `Recv` returns a recorded end before it looks into the
inbox, so batches that are queued then are never read; `DownlinkOnce` speaks of what
has been read, is queued or is being delivered, and only `Close` empties the queue.

### `Transfer` — the bytes of a file

Source: `internal/cli/itemctx.go`, `internal/download/ranged.go`, `fetch.go`, the
ladder of `downloader.go`. A file is a row of cells, cell *k* holding the value
*k*; `Align` stands for the granularity of offsets and `Chunk` for one request.

| variables | code |
|---|---|
| `entries`, `order` | `messageCache`: its map and its queue |
| `version` | the file reference the server takes |
| `part` | the part file |
| `stage`, `attempt` | a worker: its place in the ladder |
| `location`, `near`, `path` | `Resolved`: the reference it got, whether the data center is known, what the path was rendered from |
| `ref`, `there`, `pos`, `retries` | `rangedState` |
| `context` | `seedCache`: what it read before the refetch |

`Resolve` takes the location from the cache or a refetch; `StartAttempt` reopens
the part file at its size; a request is answered by `ChunkArrives`,
`NothingArrives` — with all the server has of the range or with any part of it
(`Sizes`), except that the end of a file of unknown size is taken from a short
answer, as the code has to —, or by `Expired` (then `Refetched` and `SeedCache`,
or `RefetchFails`), `Migrated`, `Transient`, `Fatal`; `WriteBreaks` is a write
that stops in the middle. `LadderEnds` spends an attempt. `Expire` is the server
forgetting a reference and `Restart` a new process with an empty cache over the
same part files.

### Instances and proofs

`MC_Downloader`, `MC_RunLifecycle` and `MC_FileStore` give their modules'
constants values for TLC. `MC_Components` extends `Transfer`, `Selection`,
`Invocation` and `HttpsCarrier` and composes them in one instance: they share no
state, the variable `at` says whose behaviour it is, and the state spaces add up
instead of multiplying. Their assumptions are definitions, which `MC_Components`
states for its instances and the theorems take as hypotheses. `Pacer`,
`StreamWindow` and `WebSession` run with a configuration alone. `DownloaderProofs`,
`PacerProofs`, `StreamWindowProofs`, `WebSessionProofs`, `RunLifecycleProofs`,
`FileStoreProofs`, `TransferProofs` (with the theorems about `HttpsCarrier`) and
`SelectionProofs` (with those about `Invocation`) hold the theorems (section 5).

## 3. The runs

| run | asks | bounds |
|---|---|---|
| `downloader_safety` | are claims exclusive, is every ordinary row accounted for once, does the manifest agree with the summary, does anything vanish without a verdict, is everything claimed by the end, does a park record its run, who takes a finished row back, does the run implement `ClaimLedger` | 3 rows in 2 chats, one above the takeout cap, a sighting without a row and those of the done rows, 2 workers, 2 attempts, batches of 2, one short and one parking flood wait, leftovers in three states; 3.1 million states |
| `downloader_live` | does every run return under fairness | 2 rows, one with vanished media, a sighting, 2 workers, no takeout cap: with one a run need not end (section 6) |
| `pacer` | slots, pauses, wake-ups; is every blocked waiter released | 3 workers on 2 slots, waits of 0, 1 and 2 s, clock to 3 |
| `stream_credit` | is credit conserved both ways, can the relay always send, does every end reach both sides | window of 2 each way, chunks of 2, writes of 3 bytes, refill at 2 |
| `session` | does a loss reach every stream, does the table drop only streams that know their end, is a live session never replaced | 2 ids of one session in each of the four modes |
| `session_live` | does a lost session let go of its carrier, is the resolver's mutex given back | 1 id of one session in each mode, fairness |
| `lifecycle` | does a watermark ever pass a file the manifest does not know, does every claimed row nobody holds have a run that resume finds, who reopens a finished row | 2 processes — one downloads and previews, one resumes —, hard links, walks for all files or for the first one only, 1 chat of 2 messages with 2 files, one of them for the premium pass, 2 run rows (their ids symmetric), 1 claimed row per manager; 2.6 million states |
| `files` | is every blob whole and its own, does every done row's path hold the row's bytes | 1 row, 1 sighting in another chat and 1 of the row's own message, 3 names, 4 inodes, 1 worker under a hardlink and a plain configuration, links that fail, gc, verify, a user who deletes and damages; 4.6 million states |
| `components` | does the narrowed walk select what the predicates accept, is the scan limit one budget per chat, is every chat walked once in an account's turn, do both directions of a carrier arrive once and in order, is a part file a prefix of its file, is the cache bounded | see below; about 882 000 states in under a minute |
| `deferred_is_lost`, `requeue_never_refetches`, `takeout_never_falls_back` | statements of the repository that the code does not live up to | see section 6 |

Why the bounds are enough: two workers and a feeder produce every pairwise
race of the manager, and every action touches one row and one worker; a third
row makes a second batch and a second chat necessary, so that claims overlap
with settlements of the same and of another chat; two attempts are a first, a
last and a retry in between. In the pacer two slots and three workers make one
worker wait for a slot, and a clock of three holds two overlapping pauses, a
shorter one reported inside a longer one, and a late timer of the first. The
worker symmetry of `downloader_safety` is sound because no formula names a
worker, that of the run ids of `lifecycle` because the code makes them at random
and no formula orders them; the liveness runs use none.

In `stream_credit` a window of two is the smallest in which a WINDOW frame is
deferred, and a write of three needs two chunks and, with an empty window, waits
in between. The refill threshold is set to the whole window, the tightest value
that does not starve the relay; the code uses half of it, which the theorems
cover along with every other. In `session` two ids make `fail` collect several
streams, one of them in the middle of being opened, and exhaust the ids. One
session is enough for what happens after a loss up to the next bootstrap:
`OneLiveSession` speaks of the moment the resolver decides to replace a session
too, and sessions share nothing but the resolver. The theorems are about any
number of sessions.

In `lifecycle` two messages are the least with which a window is neither empty
nor everything and a file can arrive between a walk and its watermark; two
processes give every pairwise interleaving of statements, and the second run row
is what a resume needs next to a live run. `get` runs in `deferred_is_lost` only, up to
its counterexample; a second command for the first process would be too much for a
run, and the theorems about the module cover it. In `files` two entries of one inode
and one more name make every case of link, copy, collision and index occur; the
view forgets what an unused inode last held, which no action reads, and the
history of requeued rows, which no property of that run reads.

In `components` a forum of nine messages in three topics, one deleted, holds a
message for every kind of predicate; the settings are every option alone with
the values that tell its cases apart, each plainly and reversed, per topic and
not, and every limit from 1 to 4 over pages of 2. Seven chats — one routed by id,
one by name, one of no known kind, the account's own dialog, the saved messages —
under three accounts, four route tables, four lists of specs, six chat options, and
no account, or three with one of them twice, on the command line reach every way a
session is decided; three chats engage the automatic export. A sequence number
modulo 3 wraps, an inbox of 1 blocks its producer, three positions hold batches with
blanks before, between and after, two failures exhaust a request. A file of 5 cells under requests of 4 aligned to 2 ends between two
alignments, and one of unknown length ends at a boundary; a cache of 1 evicts,
one expiry and one restart hit every stage.

`CHECK_DEADLOCK FALSE` stands where a finished or idle system is a state it may
stay in: an ended run, a finished invocation, an empty downloads tree.

Every property of a passing run has a mutant in its module, marked `Mutant` and
placed before the definition it distorts, that makes TLC report the property.

## 4. Fairness

`Downloader!FairSpec`: weak fairness of the feeder and of each worker. Go runs
every goroutine that can proceed; a fetch ends because every request carries a
deadline, a backoff or pace wait ends with its timer or the context. No
fairness is assumed of the user's interrupt or of any particular outcome of a
fetch. `Pacer!FairSpec`: the clock advances, due timers fire and started
callbacks get the mutex, and a goroutine whose `select` has a ready case
proceeds. Acquiring a slot and reporting a flood are not assumed to be fair.
`WebSession!FairSpec`: whoever holds the resolver's mutex, `fail`, a writer that
sees its session stopped and a pump whose carrier is closed proceed, because
bootstraps, dials and requests carry deadlines. Opening, closing and the
failures themselves are not assumed to happen. `StreamWindow!FairSpec`: the
goroutines in `Write`, `Read` and `Close`, the pump and `fail` run when they can;
the relay owes nothing. No run uses it: the one liveness statement of the
repository about a stream, `DeadlineEndsRead`, is not true of the code
(section 6).

`RunLifecycle`, `FileStore`, `Selection`, `Invocation`, `HttpsCarrier` and
`Transfer` are checked for safety only. A command need never be started, a
process may die, the server may refuse for ever, and several retries have no
budget (section 6), so the code justifies no fairness under which they must
finish.

## 5. What is proved

All theorems hold for every value of the constants that satisfies the modules'
named assumptions.

`DownloaderProofs` (assumptions `ItemsAssumption`, `ConfigAssumption`,
`LeftoverAssumption`: rows and chats are positive integers, the clamps of
`NewManager`, leftovers within the budget). `SingleOwner` is not inductive: that
a claimed row is `downloading` needs that a worker holds a row exactly while its
program counter is between the channel and the settlement, that a row before its
ladder still has budget, and that the feeder claims only with an empty batch.
`IInv == TypeOK /\ Hands` says so, and that the drain holds a row only when the workers
are gone and nothing is claimed; each action is shown to preserve it by one of
a few shape lemmas (a move, a failure, a verdict, a drop, a goto). From it follow
`TypeCorrect`, `ClaimsAreExclusive`, `DrainAloneReopens`, and `RunKeepsLedger`: every
step of the run, the drain's too, is a step of `ClaimLedger` or leaves its variables
alone.

The accounting has an invariant of its own. Every step
of the run is of one of three kinds (`StepKind`): it keeps all entries, it claims
a batch, or it settles the row in one worker's hands. `BookInv` says that a row in
hand is not counted yet, that a counted ordinary row cannot be claimed while the
run is alive, and that the entries agree with the manifest; it gives
`EachRowCountsOnce`, `SummaryAgrees` and `NothingIsDropped`. `RunsDrain` needs
`DrainInv` — a chat the feeder has passed has nothing left to claim, and stays so
because rows are reopened only in the chat being fed — and the assumption that
there is a worker. `ParksAreRecorded` needs `ParkInv`, the order of `parkRun`'s
writes over several workers that park at once.

`PacerProofs` (assumption `PacerAssumption`). That a pause is never cut short
depends on the timers: `TimersInv` says that generations are unique and not newer
than the current one, that the current one carries the deadline in force, and
that a fired timer was due; `PauseInv` adds that no deadline exceeds what was
reported. With the balance of slots (a cardinality argument over the workers
inside an attempt) they form `IInv`, from which `SlotsAreBalanced`,
`PausesOutlast`, `WakeupsAreNotLost` and `PausesHold` follow.

`StreamWindowProofs` (assumption `WindowAssumption`: a threshold between one
byte and the window, a window that fits the counter). The two credit equations
are not inductive: that `Reserve`, `Read` and `Consume` overwrite `got`, `took`
and `delta` without loss needs that each is zero outside the one place of its
goroutine that fills it (`Held`), and that no counter saturates needs the
equation as an upper bound after frames have been dropped (`Conserved`). That
nobody is forgotten needs the order in which the enders publish, abort and drop
(`Ended`). From `IInv == Typed /\ Held /\ Conserved /\ Ended` follow
`UploadIsBalanced`, `DownloadIsBalanced`, `RelayCanSend`, `LateWritesAreRefused`
and `EndersTellBothSides`.

`WebSessionProofs` (assumption `SessionAssumption`). That a loss forgets nobody
rests on four facts: the stream being opened has an id of its own, is not handed
out yet, and is in the table or knows its end (`Opening`); `fail`'s progress, its
cause and `lost` go together, and nothing is left to tell once it has returned
(`Failed`); from the collection on, every stream in the table is still to be told
or knows its end (`Collected`) — which holds because `Open` refuses under the
same mutex; and a stream a connection has is in the table or knows its end
(`Told`). With the types and `OneLiveSession` they form `IInv`, from which
`LossForgetsNobody`, `DroppedStreamsWereTold` and `ReplacedSessionsAreLost` follow.

`RunLifecycleProofs` (assumptions `BoundsAssumption`, `FilesAssumption`). The
watermark theorem is about walks without a scan limit (`Unlimited`); with one, the
code's watermark does pass unscanned messages (section 6). `CoverInv` follows a
file from the walk to the watermark: nothing a process remembers is ahead of what
was posted (`Behind`), so a message posted later has a higher id than any
watermark in the making; every stored watermark covers (`Covers`); and what a
process has walked past is recorded or among its items, which are empty when it may
move a watermark (`Collected`). It gives `WatermarkNeverPasses`. For
`StrandedRowsHaveARun`, `StrandInv` adds that two processes never share a run
(`Apart`), that a process at work has a `running` run and a parking one a `parked`
run (`Works`), and that a claimed row nobody holds has a run without a process.
`FinishedRowsStay` goes through every single step: a finished row is taken back by a
preview, by a process that still works on it, or by the drain of a process that put
its message aside.

`TransferProofs` (`TransferAssumption`: an alignment that divides the chunk,
positive sizes). `PartInv`: a part file holds the cells *1..n* for some *n* within
the file, and a fetch stands at the end of them, whatever the alignment made the
request repeat. It gives `PartsArePrefixes`; `CacheInv` (the queue has no
repetition, its members are the map's keys, its length is bounded) gives
`CacheStaysBounded`, by a counting argument over injective sequences.

Its second half is about the carrier (`CarrierAssumption`: a modulus above 1).
`UpInv`: the relay has the batches up to the last or the last but one, and between
requests the next number is the next batch's or has wrapped; it gives
`UplinkIsTakenOnce`. `DownInv` looks at the batches on their way as one sequence
(`Handed`): what `Recv` has returned, then the inbox, then the batch being
delivered. It is rising, and while the carrier is open its members are the positions up to the
cursor that hold a batch; it stays rising after `Close` has emptied the inbox, and an
error is only ever last in the inbox, put there by a poller that has ended. It gives
`DownlinkIsHandedOnce`. That everything queued is read is neither true nor claimed.

`FileStoreProofs` (`ItemsAssumption`, `ModesAssumption`). `StoreInv` is about
bytes, hands and paths. `PartsAlone`: the inode of a part file has no other entry, so a promotion is
the only way from a partial file to a visible one. `OwnBytes`: an entry that
belongs to one file holds all of it or nothing, and its part file some of it.
`OwnHand` and `OpenIsOwn`: the inode a worker has open is its own file's, and is
the one it will rename, and whole when it does. `OwnPaths`: a row's path is one of
its own and leads somewhere from the moment it is written. A link that fell back to a
copy makes a whole file too (`BlobCopied`). It is inductive under
two hypotheses, of which `BlobsStayWhole` needs only the first:

* `SightingsComeLast`: a sighting is served while no other worker is busy with its
  file. `drainPendingLinks` comes to the sightings one at a time after the workers
  have returned; a second process on the same tree is outside. Without it the
  theorem is false: with two workers TLC shows one that has fetched, gc that
  removes its part file, the other that opens a new part file, and the first
  that renames this one (section 6). For rows nothing is assumed: `RowsInHand`,
  a part of the invariant, says that a row at work is claimed and in one worker's
  hands (`HandsApart`). `Requeue` reopens only rows nobody holds; the reset of a
  resume next to a live run does not look (section 6) and is outside as well.
* `Orderly`, only for what is said of final paths: names tell files apart, and a
  copy that stands in for a link reaches its end. Section 6 has what happens
  otherwise.

`SelectionProofs`, first half, `Invocation` (`InvocationAssumption`). That no chat
is walked twice in a turn and none is forgotten rests on where a chat still to be
walked can be (`StillToCome`): on the session's list of targets, or among the specs of
a routing pass that is under way or owed. `WalkedOnce` says that these places
exclude each other and exclude having been walked; `RoutedInOrder` that the owed
passes have different accounts and exactly their routed specs; `SavedAlone` what
`--saved` replaces; `TurnsToCome` that between two turns nothing is owed, and that a
list of accounts goes with neither routes nor deferrals. `PremiumInv` follows the
premium pass: what it has to walk has been walked by another session before
(`PremiumHistory`), its list and what is left of its specs are the deferrals not
walked yet (`PremiumSession`), each once (`PremiumApart`). They give `TurnsWalkOnce`.

Second half, `Selection` (`SelectionAssumption`). `MatchesAreServed` is about the
pure functions: what the predicates select, the server returns for the narrowed
request, whatever the options (by way of `KindOfMedium` and `FilterServes`, the
kinds of media each search filter keeps), ids on the bounds excepted. `WalkInv`
then follows one walk. `ReadOnce`: what has been read and what is to come — the
rest of the page, what is older than the page, the topics left — are disjoint and
together all that the server has, until the limit is reached. `PageOnTop`: the rest
of a page is newer than every page to come. `TopicsInOrder`: what the listing has
collected. `SelectedOnce`: buffer and emissions together are what was read and
selected, each once. They give `WalksHideNothing` and `TopicsShareTheLimit`.

Every safety invariant and every action property of a passing run is stated by one
of these theorems. Only model-checked are the liveness properties
(`RunTerminates`, `WaitersReleased`, `CarrierReleased`, `AcquireReturns`), which
need ENABLED and are out of the prover's reach. Sequences that a recursive
definition filters or folds would need induction over data; where a property
needed one, the model keeps a set or a bag instead (the pages of a walk, the
targets of a session).

## 6. Where code and statements disagree

Each with a run that shows it:

* **Deferred files are lost** (`deferred_is_lost`). `deferOversizedToPremium`
  (routing.go:281) takes oversized items out of the main pass without recording
  them, the watermark passes them, and the premium pass walks from the watermark:
  it never sees what README.md:374 defers to it.
* **A requeued row is not fetched again** (`requeue_never_refetches`). Under the
  hardlink layout a row is present as soon as its blob exists, whatever its size
  (blob.go:210), so the row verify requeued for damage (README.md:281) is served
  from the damaged inode.
* **No automatic fallback** (`takeout_never_falls_back`). The fallback is called
  with the negation of the export mode as "auto-engaged" (dl_cmd.go:302), so the
  refusal of an automatically engaged export session ends the invocation, against
  dl_cmd.go:247-250.

Stated as definitions of the modules, false of the model and of the code, without
a run of their own:

* `Downloader!OversizedFailsOnce`: an oversized row under a takeout cap is settled
  failed with one attempt while its chat is still being drained, so it is claimed
  again, without a bound (downloader.go:427).
* `Downloader!InterruptRestoresBudget`: after a user interrupt the write that
  restores the retry budget runs under the cancelled context (downloader.go:972
  against media.go:247).
* `StreamWindow!DeadlineEndsRead`: a blocked `Read` is not woken when its deadline
  passes (session.go:382).
* `WebSession!LossIsRebootstrapped`: a batch that does not decode loses the session
  with an error the resolver does not take for a loss; every later connection is
  refused.
* `WebSession!LanesCanOpen`: an https-lanes session has a carrier and therefore no
  lane dialer; none of its streams can open (session.go:81).
* `WebSession!LaneIsStreamScoped`: the end of one stream's lane fails the whole
  session (session.go:527 against the comment at :525).
* `RunLifecycle!InterruptedIsOffered`: rows kept as interrupted "so a later run
  resumes them" (downloader.go:89-91) stay `downloading`, which an incremental run
  does not collect; only resume resets them.
* `RunLifecycle!DoneIsFinal`: a preview sets finished rows back to `discovered`,
  against incremental.go:45.
* `FileStore!PartsSurvive`: gc removes a blob's part file, which has one link like
  any orphan, while it is being written (blob.go:93-143), against README.md:228;
  the bytes fetched so far are fetched again or the promotion fails.

Met while modelling; the models follow the code unless noted. Manager and pacer:

* `handleFailure` fails and charges a sibling whose own flood error arrives after
  the park (downloader.go:626), although `Result.Interrupted` is documented to
  count flood-wait park siblings (downloader.go:89-91); and a run cancelled
  between its two looks at the context (`LookAgain`, downloader.go:619-629) burns
  a dropped connection as a failure.
* A worker already in its jitter sleep (`JitterEnds`) starts a transfer inside a
  flood pause (pace.go:118).
* The dedupe mode "hash" behaves as "unique-id": what it additionally promises
  (downloader.go:231-233) has no code.

Runs and store:

* `ResetDownloading` requeues every claimed row of the table, those of a live
  process included (resume_cmd.go:60, media.go:366), and leaves their attempts;
  resume never changes the old run's status.
* A watermark moves with what one walk has matched, whatever its filters: a later
  incremental run with wider ones does not go back for what was left out.
  `WatermarkCovers` speaks of the files every filter passes (`Wanted`).
* A limited walk goes newest first (walk.go:142, 195-206) and its watermark then
  passes the older messages it did not scan.
* The delay between page retries is computed with `^`, exclusive or: 3, 2, 1
  seconds instead of growing (scan/retry.go:62). No property depends on it.
* Deleting an account unlinks its lock while another process may hold the
  descriptor, so two processes can hold "the" lock (tg/accounts.go). Not modelled.
* manifest.json is locked per chat while its path follows the rendered directory
  (manifest.go:103): two chats rendered into one directory lose entries. Not
  modelled.
* A routed pass that fails skips the remaining passes and the premium pass.

Files:

* Two rows that render to one path both see it free and share a part file and a
  final path (downloader.go:791), and a part file another item left is resumed from
  its size (downloader.go:838). `FileStore`'s instances give rows paths of their
  own.
* A sighting of a done row's own message is drained without a claim
  (downloader.go:253, blob.go:325): when every copy is gone its second download charges
  the row and may leave it failed or `downloading`. `OnlyDrainReopens`,
  `OnlyRevisitsReopen` and `KeepsLedger` say when, and that nothing is claimed then;
  nor can this run claim it again, because its budget is spent (`Drained`).
* With collision "overwrite", and when a link meets an existing file, a row is
  served by whatever bytes are there (blob.go:342-350); a copy interrupted in the
  middle leaves a short final file that a later run takes for finished.
* Two processes on one downloads tree can fetch one file at a time. A gc in between
  can make the first rename the part file the second is writing, and a partial
  blob becomes visible (blob.go:93-143, downloader.go:838); within one process
  the claim and the order of the work exclude it
  (`FileStoreProofs!SightingsComeLast`).
* After the rename of a part file a failed link fails the attempt, and the next
  one renames a part file that is gone (downloader.go:763).
* verify counts one orphan off for every blob gc removed, whichever blob it was
  (sweep.go:150-153), so a sweep can exit 0 with orphans left, and a sweep of one
  chat with `--fix` collects the blobs of every chat.

Selection and scope:

* `min-id` and `max-id` are sent as the server's strict bounds although they are
  documented as inclusive (options.go:184-185, walk.go:332-343); `get` compensates
  (get_cmd.go:382). `NothingHidden` excepts exactly these two ids (`OnBound`).
* `url_regex` sees only text links; `fwd_from` never matches a user name; entity
  texts are cut by UTF-16 offsets from bytes; a tri-bool of `false` matches
  messages without a sender; a GIF has no width and no duration.
* `--last` is ignored next to `--from-date`, an `--until-date` day ends at its
  midnight, `--reverse` over topics is oldest first within a topic only,
  `--in-album first`, `--albums`, `--follow-replies` and `--follow-forwards` do
  nothing, glob specs (README.md:92) do not resolve, `--sender-contacts` with `all`
  keeps private chats only, and the "bot" chat type means different things to the
  prefilter and to the predicate.
* A full page of deleted topics makes `forumTopics` index an empty list, or ask for
  the same page again for ever (walk.go:280-286). The instance has none.
* The saved messages have chat id 0, the account's own dialog has its user id: `all
  saved` walks them twice, against "overlapping specs never walk twice" (README.md:95;
  `WalkedOncePerTurn` counts chats by id), and a deferral of theirs cannot be
  resolved by the premium pass.
* `--account a,b` gives every account all the specs (dl_cmd.go:228): a chat both know
  is walked once for each, whatever has been walked before.
* Chats, groups and users share the resolver's id set and the sender cache's
  misses: two peers of different kinds with one id drop one of them
  (`InvocationAssumption` excludes it).

Transfer and web proxy:

* Expired references, migrations and short flood waits are answered without a
  budget (ranged.go). A refetch or a migration inside the engine does not reach the
  ladder, whose next attempt starts from the old location. `seedCache` reads the
  cache before the refetch and writes after it: an entry evicted in between comes
  back without its walk context, and a row's final path so depends on the cache.
* An answer longer than what is left of the file is cut at `data[:total-pos]`
  (ranged.go:231), which would panic were the part file longer than the manifest's
  size. `PartIsPrefix` and its invariant exclude that while a row's size stays what it
  was; a part file left by another item (above) is outside.
* The cursor a bootstrap returns is never used (bootstrap.go:88, 150). `Recv`
  returns the recorded terminal error before the queued batches (carrier.go:386),
  which are then lost to the session.
* `Stream.Close` queues its CLOSE and cancels the lane's writer in the next
  statement; the writer may take the cancellation first (`LaneStops`) and the
  frame is dropped (session.go:466-468).
* An https carrier lives in the context of the dial that made it
  (`PumpSeesDialEnd`; resolver.go:152, 158).
* A lane dialled while `fail` collects the streams is stopped by nobody when its
  OPEN is refused (`SendOpenLost`; session.go:127-131).

## 7. Not modelled, and why

* **Chat manifest files and sidecars**: a sequential read-modify-write of one JSON
  file; its one hazard is in section 6.
* **Accounts, login, connection pools**: steps of the MTProto library; the account
  lock is in section 6.
* **The frame codec and batches of frames**: a conversion without a decision; what
  frames mean is in `StreamWindow` and `WebSession`. Tombstones, PING and PONG
  change no decision, because ids are never reused.
* **Path templates**: a final path is one of a set of names.
* **verify's orphan sweep, report and sidecar validators; schema migrations,
  statistics queries**: sequential reading. An occurrence appears as a sighting of
  `FileStore`.
* **Live progress, configuration and profiles, notifications, export and import,
  offline commands, the explanation of a filter plan**: presentation and sequential
  I/O; configuration's clamps are assumptions on the constants.
* **The components' composition into one state space** beyond the refinement of
  `ClaimLedger`: `RunLifecycle` uses the manager's effect on rows and
  `WebSession` a stream's end as one step; that `Downloader` and `StreamWindow`
  refine these steps is argued by construction and not checked.
