----------------------------- MODULE Downloader -----------------------------
(***************************************************************************)
(* One run of the download manager (src/internal/download/downloader.go):  *)
(* a feeder goroutine claims rows of the media table chat by chat and      *)
(* hands them over an unbuffered channel to a fixed pool of workers; each  *)
(* worker drives one row through the retry ladder and settles it in the    *)
(* store.  When all workers have gone, the goroutine of Run itself serves  *)
(* the duplicate sightings Enqueue put aside in hardlink mode, one after   *)
(* the other, with a link or with a ladder of its own (blob.go); a         *)
(* sighting is that of a done row, or has no row at all.                   *)
(*                                                                         *)
(* Two contexts govern a run: the user's (bookCtx, also used for every     *)
(* store write) and the run's own child (runCtx), which a flood-wait park  *)
(* cancels as well.                                                        *)
(*                                                                         *)
(* A step is what one goroutine does between two points where another one  *)
(* can observe it: a store statement, a channel handover, a look at a      *)
(* context, a fetch.  File contents are left to other modules; an attempt  *)
(* ends well or with one of the error classes handleFailure tells apart.   *)
(***************************************************************************)
EXTENDS Naturals, FiniteSets

CONSTANTS
    Items,         \* rows of the media table, numbered in (message_id, media_index) order
    ChatOf,        \* the chat of each row; chats are drained in ascending order
    Sightings,     \* further sightings of known files, which own no row
    Workers,       \* the worker goroutines (Config.Concurrency of them)
    Runner,        \* the goroutine that called Run
    RetryMax,      \* Config.RetryMax: attempts a row gets
    ClaimBatch,    \* Config.ClaimBatch: rows one claim takes at most
    Oversized,     \* rows whose manifest size exceeds the takeout cap of this session
    MediaGone,     \* files whose reference refetch reports the message or media gone
    FloodWaits,    \* flood waits (seconds) the server may answer
    ParkThreshold, \* the pacer's flood_sleep_threshold
    LeftoverRows   \* <<status, attempts>> an earlier run can have left behind

ASSUME ItemsAssumption ==
    /\ Items \subseteq Nat \ {0}
    /\ IsFiniteSet(Items)
    /\ Sightings \subseteq Nat \ {0}
    /\ Items \cap Sightings = {}
    /\ ChatOf \in [Items -> Nat \ {0}]
    /\ Oversized \subseteq Items
    /\ MediaGone \subseteq Items \cup Sightings

\* NewManager clamps RetryMax, ClaimBatch and Concurrency to at least one.
ASSUME ConfigAssumption ==
    /\ RetryMax \in Nat \ {0}
    /\ ClaimBatch \in Nat \ {0}
    /\ Workers # {}
    /\ Runner \notin Workers
    /\ FloodWaits \subseteq Nat \ {0}
    /\ ParkThreshold \in Nat

Status == {"discovered", "queued", "downloading", "done", "failed"}

\* Headings of Result.  "unlinked" is the part of Result.Failed that
\* countOccurrenceFailed adds for a sighting without looking at any row.
Outcome == {"downloaded", "skipped", "failed", "interrupted", "linked", "unlinked"}

ASSUME LeftoverAssumption == LeftoverRows \subseteq Status \X (0..RetryMax)

\* What handleFailure distinguishes: a wrapped context cancellation, a dead
\* transport, an error no retry can fix, a flood wait, an expired file
\* reference, and everything else (timeouts, short files, failed promotions).
ErrorClass == {"cancel", "dead", "fatal", "flood", "reference", "other"}

NoItem == 0
NoChat == 0

Wanted == Items \cup Sightings
Crew == Workers \cup {Runner}

VARIABLES
    status,       \* [Items -> Status]: media.status
    attempts,     \* [Items -> Nat]: media.attempts
    runStatus,    \* runs.status of this run
    resumeAt,     \* runs.resume_at of this run; 0 is NULL
    chats,        \* Manager.chats: chats Enqueue registered
    feedAt,       \* where the feeder is: "claim", "send" or "closed"
    feedChat,     \* chat being drained, NoChat past the last
    batch,        \* rows claimed and not handed over yet
    feedErr,      \* the feeder reported a store error
    sightings,    \* Manager.pendingLinks, less what the drain has taken
    pc,           \* [Crew -> program point]
    item,         \* [Crew -> Wanted \cup {NoItem}]: what is in hand
    attempt,      \* [Crew -> Nat]: the ladder's counter
    err,          \* [Crew -> ErrorClass \cup {"none"}]: the last error
    wait,         \* [Crew -> Nat]: seconds of a flood error, else 0
    runCancelled, \* runCtx is done
    userCancelled,\* bookCtx is done: every store write fails
    count,        \* Result counters, per file and saturating at CountMax
    parked        \* Result.ResumeAt when Result.Parked, else 0

rowVars == <<status, attempts>>
feedVars == <<chats, feedAt, feedChat, batch, feedErr, sightings>>
workVars == <<pc, item, attempt, err, wait>>
cancelVars == <<runCancelled, userCancelled>>
runVars == <<runStatus, resumeAt, parked>>
vars == <<rowVars, runVars, feedVars, workVars, cancelVars, count>>

-----------------------------------------------------------------------------
(* Helpers *)

\* Two is enough to tell "never", "once" and "more than once" apart.
CountMax == 2
Bump(n) == IF n < CountMax THEN n + 1 ELSE n

Counted(i, o) == count' = [count EXCEPT ![i][o] = Bump(@)]

\* Mutant: the claim takes every row that is not being downloaded.
ClaimableUnfiltered(c) ==
    {i \in Items : /\ ChatOf[i] = c
                   /\ status[i] # "downloading"
                   /\ attempts[i] < RetryMax}

Claimable(c) ==
    {i \in Items : /\ ChatOf[i] = c
                   /\ status[i] \in {"queued", "failed"}
                   /\ attempts[i] < RetryMax}

\* ORDER BY message_id, media_index LIMIT n
FirstOf(S, n) == {i \in S : Cardinality({j \in S : j < i}) < n}
IsFirst(i, S) == i \in S /\ \A j \in S : i <= j

\* sortedChats
ChatsAfter(c) == {d \in chats : d > c}

\* A statement run under bookCtx: it takes effect unless the user cancelled,
\* and updates nothing for a sighting that owns no row.
WriteRow(i, s, n) ==
    IF userCancelled \/ i \notin Items
    THEN UNCHANGED rowVars
    ELSE /\ status' = [status EXCEPT ![i] = s]
         /\ attempts' = [attempts EXCEPT ![i] = n]

MarkDone(i) == WriteRow(i, "done", attempts[i])

MarkFailed(i, n) == WriteRow(i, "failed", n)

MarkInterrupted(i) == WriteRow(i, "downloading", 0)

\* Mutant: the ladder writes its failures with MarkFailed, claim released.
RecordAttemptReleases(i, n) == WriteRow(i, "failed", n)
RecordAttempt(i, n) == WriteRow(i, status[i], n)

Held == {item[w] : w \in Workers} \ {NoItem}
Owned == Held \cup batch

\* The claimed rows, and the row the drain is busy with, which nobody claimed.
InHand == Owned \cup ({item[Runner]} \cap Items)

-----------------------------------------------------------------------------
(* Settling the row in hand: one store write, one counter, worker idle. *)

BackToChannel(w) ==
    /\ pc' = [pc EXCEPT ![w] = "idle"]
    /\ item' = [item EXCEPT ![w] = NoItem]
    /\ attempt' = [attempt EXCEPT ![w] = 0]
    /\ err' = [err EXCEPT ![w] = "none"]
    /\ wait' = [wait EXCEPT ![w] = 0]

LetGo(w) == BackToChannel(w) /\ UNCHANGED <<runVars, feedVars, cancelVars>>

failItem(w, n) ==
    /\ MarkFailed(item[w], n)
    /\ Counted(item[w], "failed")
    /\ LetGo(w)

\* Mutant: an interruption is not counted.
interruptItemUncounted(w) ==
    /\ MarkInterrupted(item[w])
    /\ LetGo(w)
    /\ UNCHANGED count

interruptItem(w) ==
    /\ MarkInterrupted(item[w])
    /\ Counted(item[w], "interrupted")
    /\ LetGo(w)

skipItem(w) ==
    /\ MarkDone(item[w])
    /\ Counted(item[w], "skipped")
    /\ LetGo(w)

linkBlobInto(w) ==
    /\ MarkDone(item[w])
    /\ Counted(item[w], "linked")
    /\ LetGo(w)

\* Moves a worker to another program point and touches nothing else.
Goto(w, point) ==
    /\ pc' = [pc EXCEPT ![w] = point]
    /\ UNCHANGED <<rowVars, runVars, feedVars, item, attempt, err, wait,
                   cancelVars, count>>

-----------------------------------------------------------------------------
(* Initial states: Enqueue has queued some rows and registered their chats; *)
(* the chats' other rows are whatever earlier runs left.  In hardlink mode  *)
(* it has put aside sightings of files that are known already: of rows that *)
(* are done, and of messages that own no row.                               *)

Init ==
    /\ \E queued \in SUBSET Items \ {{}} :
          /\ chats = {ChatOf[i] : i \in queued}
          /\ \E left \in [Items \ queued -> LeftoverRows] :
                /\ status = [i \in Items |-> IF i \in queued THEN "queued" ELSE left[i][1]]
                /\ attempts = [i \in Items |-> IF i \in queued THEN 0 ELSE left[i][2]]
    /\ runStatus = "running"
    /\ resumeAt = 0
    /\ feedAt = "claim"
    /\ feedChat \in {c \in chats : IsFirst(c, chats)}
    /\ batch = {}
    /\ feedErr = FALSE
    /\ sightings \in SUBSET ({i \in Items : status[i] = "done"} \cup Sightings)
    /\ pc = [w \in Crew |-> "idle"]
    /\ item = [w \in Crew |-> NoItem]
    /\ attempt = [w \in Crew |-> 0]
    /\ err = [w \in Crew |-> "none"]
    /\ wait = [w \in Crew |-> 0]
    /\ runCancelled = FALSE
    /\ userCancelled = FALSE
    /\ count = [i \in Wanted |-> [o \in Outcome |-> 0]]
    /\ parked = 0

-----------------------------------------------------------------------------
(* The feeder *)

\* ClaimPending in one transaction: the batch becomes downloading.
FeedClaim ==
    /\ feedAt = "claim"
    /\ feedChat # NoChat
    /\ ~runCancelled
    /\ Claimable(feedChat) # {}
    /\ batch' = FirstOf(Claimable(feedChat), ClaimBatch)
    /\ status' = [i \in Items |-> IF i \in batch' THEN "downloading" ELSE status[i]]
    /\ feedAt' = "send"
    /\ UNCHANGED <<attempts, runVars, chats, feedChat, feedErr, sightings,
                   workVars, cancelVars, count>>

\* Mutant: the feeder moves on after one batch.
FeedNextChatEarly ==
    /\ feedAt = "claim"
    /\ feedChat # NoChat
    /\ ~runCancelled
    /\ \/ \E c \in chats : IsFirst(c, ChatsAfter(feedChat)) /\ feedChat' = c
       \/ ChatsAfter(feedChat) = {} /\ feedChat' = NoChat
    /\ UNCHANGED <<rowVars, runVars, chats, feedAt, batch, feedErr, sightings,
                   workVars, cancelVars, count>>

\* An empty claim ends the chat; there is no going back to it.
FeedNextChat ==
    /\ feedAt = "claim"
    /\ feedChat # NoChat
    /\ ~runCancelled
    /\ Claimable(feedChat) = {}
    /\ \/ \E c \in chats : IsFirst(c, ChatsAfter(feedChat)) /\ feedChat' = c
       \/ ChatsAfter(feedChat) = {} /\ feedChat' = NoChat
    /\ UNCHANGED <<rowVars, runVars, chats, feedAt, batch, feedErr, sightings,
                   workVars, cancelVars, count>>

CloseFeed ==
    /\ feedAt' = "closed"
    /\ batch' = {}
    /\ UNCHANGED <<rowVars, runVars, chats, feedChat, sightings, workVars,
                   cancelVars, count>>

\* Every chat is drained, or the run is cancelled: the rows of an unfinished
\* batch are dropped as they are, claimed.
FeedClose ==
    /\ \/ feedAt = "claim" /\ feedChat = NoChat
       \/ feedAt \in {"claim", "send"} /\ runCancelled
    /\ CloseFeed
    /\ UNCHANGED feedErr

\* ClaimPending failed while the run is alive.
FeedError ==
    /\ feedAt = "claim"
    /\ feedChat # NoChat
    /\ ~runCancelled
    /\ CloseFeed
    /\ feedErr' = TRUE

-----------------------------------------------------------------------------
(* A worker *)

\* The handover of the unbuffered channel.
Receive(w) ==
    /\ pc[w] = "idle"
    /\ feedAt = "send"
    /\ \E i \in batch :
          /\ IsFirst(i, batch)
          /\ item' = [item EXCEPT ![w] = i]
          /\ batch' = batch \ {i}
          /\ feedAt' = IF batch = {i} THEN "claim" ELSE "send"
    /\ pc' = [pc EXCEPT ![w] = "received"]
    /\ UNCHANGED <<rowVars, runVars, chats, feedChat, feedErr, sightings,
                   attempt, err, wait, cancelVars, count>>

\* A row received after the cancellation is dropped as it is, claimed.
Discard(w) ==
    /\ pc[w] = "received"
    /\ runCancelled
    /\ LetGo(w)
    /\ UNCHANGED <<rowVars, count>>

TakeUp(w) ==
    /\ pc[w] = "received"
    /\ ~runCancelled
    /\ Goto(w, "prepare")

\* takeoutPrecheckAttempts
PrecheckAttempts == 1

PrecheckFails(w) ==
    /\ pc[w] = "prepare"
    /\ item[w] \in Oversized
    /\ failItem(w, PrecheckAttempts)

\* Resolve, finalPathFor, openPartFile or linkBlobInto failed.
PrepareFails(w) ==
    /\ pc[w] = "prepare"
    /\ item[w] \notin Oversized
    /\ failItem(w, RetryMax)

\* --skip-existing, or collision = "skip" and the path is taken.
SkipPresent(w) ==
    /\ pc[w] = "prepare"
    /\ item[w] \notin Oversized
    /\ skipItem(w)

\* Hardlink mode, and the blob of the file exists.
LinkFromBlob(w) ==
    /\ pc[w] = "prepare"
    /\ item[w] \notin Oversized
    /\ linkBlobInto(w)

StartLadder(w) ==
    /\ pc[w] = "prepare"
    /\ item[w] \notin Oversized
    /\ pc' = [pc EXCEPT ![w] = "pace"]
    /\ attempt' = [attempt EXCEPT ![w] = attempts[item[w]] + 1]
    /\ UNCHANGED <<rowVars, runVars, feedVars, item, err, wait, cancelVars, count>>

\* pacer.Acquire and pacer.Wait let the attempt through.
StartFetch(w) ==
    /\ pc[w] = "pace"
    /\ ~runCancelled
    /\ Goto(w, "fetch")

Fails(w, e, seconds) ==
    /\ pc' = [pc EXCEPT ![w] = "failure"]
    /\ err' = [err EXCEPT ![w] = e]
    /\ wait' = [wait EXCEPT ![w] = seconds]
    /\ UNCHANGED <<rowVars, runVars, feedVars, item, attempt, cancelVars, count>>

PaceCancelled(w) ==
    /\ pc[w] = "pace"
    /\ runCancelled
    /\ Fails(w, "cancel", 0)

FetchSucceeds(w) ==
    /\ pc[w] = "fetch"
    /\ Goto(w, "promote")

FetchFails(w) ==
    /\ pc[w] = "fetch"
    /\ \/ \E e \in ErrorClass \ {"flood"} : Fails(w, e, 0)
       \/ \E seconds \in FloodWaits : Fails(w, "flood", seconds)

Promote(w) ==
    /\ pc[w] = "promote"
    /\ MarkDone(item[w])
    /\ Counted(item[w], "downloaded")
    /\ LetGo(w)

\* Size mismatch, rename or link failure: one more failed attempt.
PromoteFails(w) ==
    /\ pc[w] = "promote"
    /\ Fails(w, "other", 0)

\* handleFailure's first case: the run is over and the transfer noticed.
SettleInterrupted(w) ==
    /\ pc[w] = "failure"
    /\ runCancelled
    /\ err[w] = "cancel"
    /\ interruptItem(w)

\* The first two cases look at runCtx one after the other.  Only for a
\* cancellation does it matter when it is cancelled between the two.
LookAgain(w) ==
    /\ pc[w] = "failure"
    /\ ~runCancelled
    /\ err[w] = "cancel"
    /\ Goto(w, "look")

\* The second case: the run is over, whatever the error.
SettleCancelled(w) ==
    /\ \/ pc[w] = "failure" /\ err[w] # "cancel"
       \/ pc[w] = "look"
    /\ runCancelled
    /\ failItem(w, attempt[w])

\* Mutant: a fatal error is charged one attempt only.
SettleFatalCharged(w) ==
    /\ pc[w] = "failure"
    /\ ~runCancelled
    /\ err[w] = "fatal"
    /\ failItem(w, attempt[w])

SettleFatal(w) ==
    /\ pc[w] = "failure"
    /\ ~runCancelled
    /\ err[w] = "fatal"
    /\ failItem(w, RetryMax)

ShouldPark(seconds) == seconds > ParkThreshold

Park(w) ==
    /\ pc[w] = "failure"
    /\ ~runCancelled
    /\ err[w] = "flood"
    /\ ShouldPark(wait[w])
    /\ Goto(w, "park")

\* Mutant: the run says it parked before the store does.
ParkRecordAnnounces(w) ==
    /\ pc[w] = "park"
    /\ RecordAttempt(item[w], attempt[w])
    /\ parked' = wait[w]
    /\ resumeAt' = IF userCancelled THEN resumeAt ELSE wait[w]
    /\ pc' = [pc EXCEPT ![w] = "parkFinish"]
    /\ UNCHANGED <<runStatus, feedVars, item, attempt, err, wait, cancelVars, count>>

\* recordAttempt and SetResumeAt.
ParkRecord(w) ==
    /\ pc[w] = "park"
    /\ RecordAttempt(item[w], attempt[w])
    /\ resumeAt' = IF userCancelled THEN resumeAt ELSE wait[w]
    /\ pc' = [pc EXCEPT ![w] = "parkFinish"]
    /\ UNCHANGED <<runStatus, parked, feedVars, item, attempt, err, wait,
                   cancelVars, count>>

ParkFinish(w) ==
    /\ pc[w] = "parkFinish"
    /\ runStatus' = IF userCancelled THEN runStatus ELSE "parked"
    /\ pc' = [pc EXCEPT ![w] = "parkCancel"]
    /\ UNCHANGED <<rowVars, resumeAt, parked, feedVars, item, attempt, err, wait,
                   cancelVars, count>>

\* Result.Parked and ResumeAt, then cancel(): the row in hand stays claimed.
ParkCancel(w) ==
    /\ pc[w] = "parkCancel"
    /\ parked' = wait[w]
    /\ runCancelled' = TRUE
    /\ BackToChannel(w)
    /\ UNCHANGED <<rowVars, runStatus, resumeAt, feedVars, userCancelled, count>>

\* Mutant: the failed attempt of a refetch is not charged.
RefetchFatalUncharged(w) ==
    /\ pc[w] = "failure"
    /\ ~runCancelled
    /\ err[w] = "reference"
    /\ item[w] \in MediaGone
    /\ failItem(w, attempt[w] - 1)

\* FILE_REFERENCE_EXPIRED and the refetch says the media is gone for good.
RefetchFatal(w) ==
    /\ pc[w] = "failure"
    /\ ~runCancelled
    /\ err[w] = "reference"
    /\ item[w] \in MediaGone
    /\ failItem(w, attempt[w])

Retryable(w) ==
    \/ err[w] \in {"dead", "other"}
    \/ err[w] = "flood" /\ ~ShouldPark(wait[w])
    \/ err[w] = "reference" /\ item[w] \notin MediaGone

KeepTrying(w) ==
    /\ \/ pc[w] = "failure" /\ Retryable(w)
       \/ pc[w] = "look"
    /\ ~runCancelled
    /\ Goto(w, "charge")

\* recordAttempt: the row keeps its claim while the ladder runs.
ChargeAttempt(w) ==
    /\ pc[w] = "charge"
    /\ RecordAttempt(item[w], attempt[w])
    /\ pc' = [pc EXCEPT ![w] = "backoff"]
    /\ UNCHANGED <<runVars, feedVars, item, attempt, err, wait, cancelVars, count>>

\* sleepBackoff or the pacer's Wait ended with the context.
BackoffCancelled(w) ==
    /\ pc[w] = "backoff"
    /\ runCancelled
    /\ interruptItem(w)

\* Mutant: one attempt too many.
RetryOnceMore(w) ==
    /\ pc[w] = "backoff"
    /\ ~runCancelled
    /\ attempt[w] <= RetryMax
    /\ pc' = [pc EXCEPT ![w] = "pace"]
    /\ attempt' = [attempt EXCEPT ![w] = @ + 1]
    /\ UNCHANGED <<rowVars, runVars, feedVars, item, err, wait, cancelVars, count>>

Retry(w) ==
    /\ pc[w] = "backoff"
    /\ ~runCancelled
    /\ attempt[w] < RetryMax
    /\ pc' = [pc EXCEPT ![w] = "pace"]
    /\ attempt' = [attempt EXCEPT ![w] = @ + 1]
    /\ UNCHANGED <<rowVars, runVars, feedVars, item, err, wait, cancelVars, count>>

\* The ladder is exhausted: a connection that kept dying is an interrupt.
Exhaust(w) ==
    /\ pc[w] = "backoff"
    /\ ~runCancelled
    /\ attempt[w] >= RetryMax
    /\ IF err[w] \in {"cancel", "dead"}
       THEN interruptItem(w)
       ELSE failItem(w, attempt[w])

\* The channel is closed and empty.
Exit(w) ==
    /\ pc[w] = "idle"
    /\ feedAt = "closed"
    /\ Goto(w, "exited")

-----------------------------------------------------------------------------
(* The drain of the put-aside sightings, after the last worker *)

\* Mutant: the drain starts when the feeder is done, beside the workers.
DrainTakeEarly(i) ==
    /\ pc[Runner] = "idle"
    /\ feedAt = "closed"
    /\ ~runCancelled
    /\ sightings' = sightings \ {i}
    /\ item' = [item EXCEPT ![Runner] = i]
    /\ pc' = [pc EXCEPT ![Runner] = "prepare"]
    /\ UNCHANGED <<rowVars, runVars, chats, feedAt, feedChat, batch, feedErr,
                   attempt, err, wait, cancelVars, count>>

DrainTake(i) ==
    /\ pc[Runner] = "idle"
    /\ \A w \in Workers : pc[w] = "exited"
    /\ ~runCancelled
    /\ sightings' = sightings \ {i}
    /\ item' = [item EXCEPT ![Runner] = i]
    /\ pc' = [pc EXCEPT ![Runner] = "prepare"]
    /\ UNCHANGED <<rowVars, runVars, chats, feedAt, feedChat, batch, feedErr,
                   attempt, err, wait, cancelVars, count>>

\* The chat holds its copy already: not even a counter.
DrainThere ==
    /\ pc[Runner] = "prepare"
    /\ LetGo(Runner)
    /\ UNCHANGED <<rowVars, count>>

\* Mutant: a sighting that cannot be served fails its row.
DrainUnservedFails ==
    /\ pc[Runner] = "prepare"
    /\ MarkFailed(item[Runner], RetryMax)
    /\ Counted(item[Runner], "unlinked")
    /\ LetGo(Runner)

\* Resolve or linkBlobInto failed: countOccurrenceFailed.
DrainUnserved ==
    /\ pc[Runner] = "prepare"
    /\ Counted(item[Runner], "unlinked")
    /\ LetGo(Runner)
    /\ UNCHANGED rowVars

DrainLinks ==
    /\ pc[Runner] = "prepare"
    /\ linkBlobInto(Runner)

\* No copy is left anywhere: downloadWithRetries, on whatever row there is.
DrainOpenFails ==
    /\ pc[Runner] = "prepare"
    /\ failItem(Runner, RetryMax)

\* Enqueue zeroed the attempts of the sighting.
DrainOpens ==
    /\ pc[Runner] = "prepare"
    /\ pc' = [pc EXCEPT ![Runner] = "pace"]
    /\ attempt' = [attempt EXCEPT ![Runner] = 1]
    /\ UNCHANGED <<rowVars, runVars, feedVars, item, err, wait, cancelVars, count>>

DrainEnds ==
    /\ pc[Runner] = "idle"
    /\ \A w \in Workers : pc[w] = "exited"
    /\ sightings = {} \/ runCancelled
    /\ Goto(Runner, "exited")

-----------------------------------------------------------------------------
(* The run *)

UserCancel ==
    /\ ~userCancelled
    /\ userCancelled' = TRUE
    /\ runCancelled' = TRUE
    /\ UNCHANGED <<rowVars, runVars, feedVars, workVars, count>>

Finished == pc[Runner] = "exited"

\* Run has returned; what the caller does next is another module's subject.
Returned == Finished /\ UNCHANGED vars

Feed == FeedClaim \/ FeedNextChat \/ FeedClose \/ FeedError

\* downloadWithRetries once the part file is open.
Ladder(w) ==
    \/ StartFetch(w) \/ PaceCancelled(w) \/ FetchSucceeds(w) \/ FetchFails(w)
    \/ Promote(w) \/ PromoteFails(w)
    \/ SettleInterrupted(w) \/ LookAgain(w) \/ SettleCancelled(w) \/ SettleFatal(w)
    \/ Park(w) \/ ParkRecord(w) \/ ParkFinish(w) \/ ParkCancel(w)
    \/ RefetchFatal(w) \/ KeepTrying(w) \/ ChargeAttempt(w)
    \/ BackoffCancelled(w) \/ Retry(w) \/ Exhaust(w)

Work(w) ==
    \/ Receive(w) \/ Discard(w) \/ TakeUp(w)
    \/ PrecheckFails(w) \/ PrepareFails(w) \/ SkipPresent(w) \/ LinkFromBlob(w)
    \/ StartLadder(w)
    \/ Ladder(w)
    \/ Exit(w)

Drain ==
    \/ \E i \in sightings : DrainTake(i)
    \/ DrainThere \/ DrainUnserved \/ DrainLinks \/ DrainOpenFails \/ DrainOpens
    \/ Ladder(Runner)
    \/ DrainEnds

Next == Feed \/ Drain \/ UserCancel \/ Returned \/ \E w \in Workers : Work(w)

Spec == Init /\ [][Next]_vars

\* The Go scheduler runs every goroutine that is ready; fetches, backoff
\* sleeps and flood pauses all end (every request carries a deadline).
FairSpec ==
    /\ Spec
    /\ WF_vars(Feed)
    /\ WF_vars(Drain)
    /\ \A w \in Workers : WF_vars(Work(w))

-----------------------------------------------------------------------------
(* What the run promises *)

Point == {"idle", "received", "prepare", "pace", "fetch", "promote", "failure", "look",
          "park", "parkFinish", "parkCancel", "charge", "backoff", "exited"}

\* Every variable has the type of the column, field or context it models; a
\* worker's ladder never runs past RetryMax attempts (downloader.go:504).
TypeOK ==
    /\ status \in [Items -> Status]
    /\ attempts \in [Items -> 0..RetryMax]
    /\ runStatus \in {"running", "parked"}
    /\ resumeAt \in FloodWaits \cup {0}
    /\ parked \in FloodWaits \cup {0}
    /\ chats \subseteq Nat \ {0}
    /\ feedAt \in {"claim", "send", "closed"}
    /\ feedChat \in Nat
    /\ batch \subseteq Items
    /\ feedErr \in BOOLEAN
    /\ sightings \subseteq Wanted
    /\ pc \in [Crew -> Point]
    /\ item \in [Crew -> Wanted \cup {NoItem}]
    /\ attempt \in [Crew -> 0..RetryMax]
    /\ err \in [Crew -> ErrorClass \cup {"none"}]
    /\ wait \in [Crew -> FloodWaits \cup {0}]
    /\ runCancelled \in BOOLEAN
    /\ userCancelled \in BOOLEAN
    /\ count \in [Wanted -> [Outcome -> 0..CountMax]]

\* A row is in at most one pair of hands, the drain's included, and the store
\* says so: whatever a worker or the feeder holds is marked downloading, so no
\* claim can hand it out again while its ladder runs (media.go:201-203,
\* RecordAttempt).
SingleOwner ==
    /\ \A w \in Crew : item[w] \notin batch
    /\ \A v, w \in Crew : item[v] = item[w] /\ v # w => item[v] = NoItem
    /\ \A i \in Owned : status[i] = "downloading"

\* Rows a run may legally settle more than once: the two failures recorded
\* with fewer than RetryMax attempts leave the row claimable.
Ordinary == Items \ (Oversized \cup MediaGone)

\* Each row enters one Result counter, once, and none while still in hand:
\* what the drain books for a done row does not add to what a worker booked.
CountedOnce ==
    \A i \in Ordinary : \A o, p \in Outcome :
        count[i][o] > 0 => /\ count[i][o] = 1
                           /\ count[i][p] > 0 => p = o
                           /\ i \notin InHand

\* Until the user interrupts, the counters of the summary and the rows of the
\* manifest tell the same story about every row that has been let go.  The one
\* heading that says otherwise is known: a sighting the drain could not serve
\* is summed up as failed while its row stays done (blob.go:304, 318).
SummaryMatchesManifest ==
    ~userCancelled =>
        \A i \in Ordinary \ InHand :
            /\ \A o \in {"downloaded", "skipped", "linked", "unlinked"} :
                  count[i][o] > 0 => status[i] = "done"
            /\ count[i]["failed"] > 0 => status[i] = "failed"
            /\ count[i]["interrupted"] > 0 => status[i] = "downloading" /\ attempts[i] = 0

\* A run nobody cancelled leaves nothing claimable behind in its chats: the
\* feeder, which never returns to a chat, cannot overtake a worker's failure,
\* and a row the drain fails after the last claim has its budget spent.
Drained ==
    Finished /\ ~runCancelled /\ ~feedErr =>
        \A c \in chats : Claimable(c) \cap Ordinary = {}

\* A run reported as parked is parked in the store with a resume time, even
\* when two workers park it at once (parkRun's writes precede its cancel).
ParkedIsRecorded ==
    parked # 0 /\ ~userCancelled => runStatus = "parked" /\ resumeAt # 0

\* A finished row is taken back by the drain of its own sighting only, on its
\* way to a second download (blob.go:325, media.go:225 and 247): never while a
\* claim is outstanding, and never back to the queue.
OnlyDrainReopens ==
    [][\A i \in Items : status[i] = "done" /\ status'[i] # "done" =>
          /\ Owned = {}
          /\ i = item[Runner]
          /\ status'[i] \in {"failed", "downloading"}]_vars

\* A row is let go uncounted only when the run is being cancelled: the feeder
\* drops its batch, a worker drops what it received, the parked row stays.
NothingDropped ==
    [][\A i \in Ordinary : i \in Owned /\ i \notin Owned' =>
          runCancelled' \/ \E o \in Outcome : count'[i][o] > count[i][o]]_vars

\* Every run ends: cancelled or not, parked or not, whatever the fetches say.
RunTerminates == <>Finished

-----------------------------------------------------------------------------
(* Statements of the repository that the code does not live up to *)

\* takeout_test.go:97 and README.md:352: an oversized item fails fast, once.
OversizedFailsOnce == \A i \in Oversized : count[i]["failed"] <= 1

\* media.go:247-252: an interrupted row, the user's interrupt included, has
\* its retry budget restored.
InterruptRestoresBudget ==
    \A i \in Items \ Owned : count[i]["interrupted"] > 0 => attempts[i] = 0

-----------------------------------------------------------------------------
(* The claim discipline on its own *)

Ledger == INSTANCE ClaimLedger WITH
    owned <- InHand,
    closed <- feedAt = "closed"

\* The run implements the abstract ledger of claims: rows are claimed from
\* the open ones only and change hands, status or charge only under a claim,
\* until claiming is over; then one done row at a time is revisited.
KeepsLedger == Ledger!Spec
=============================================================================
