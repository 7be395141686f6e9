---------------------------- MODULE RunLifecycle ----------------------------
(***************************************************************************)
(* The commands of teleparse over one state database: dl, sync, scan, get  *)
(* and resume, from the run row to the watermark.                          *)
(*                                                                         *)
(* Every process runs one command at a time on an account of its own: it   *)
(* creates a run, decides each chat's window from the stored watermark,    *)
(* walks the chat, records what matched, downloads, finishes the run and   *)
(* only then moves the watermarks.  Each of these is a statement of its    *)
(* own, so a process may die between any two, and two processes interleave *)
(* at every one.  The download manager appears as what it does to rows,    *)
(* its drain of sightings put aside included (Downloader has the detail).  *)
(***************************************************************************)
EXTENDS Integers, FiniteSets

CONSTANTS
    Chats,        \* chats in scope
    MaxID,        \* the highest message id, a bound of the model
    Files,        \* the files messages carry
    FileOf,       \* per message: its file, NoMedia or Unmatched
    Filters,      \* the files the filters of a command may let pass
    Procs,        \* processes, each on an account of its own
    RunIDs,       \* ids of rows of the runs table, as many as there may be
    NoRun,        \* no run row
    Holds,        \* how many rows one manager has claimed at a time
    Limit,        \* the scan limit of a walk, 0 for none
    Rewalk,       \* does the configuration skip freshly walked chats
    Big,          \* the files only a premium session can transfer
    CommandsOf,   \* per process: the commands its user starts
    HasPremium,   \* is there a local premium account to defer them to
    Hardlink      \* is the duplicate policy the one that links known files

NoMedia == "nomedia"
Unmatched == "unmatched"
NoChat == "nochat"

IDs == 1..MaxID
Msgs == Chats \X IDs
Modes == {"dl", "full", "scan", "scanfull", "get"}
Commands == Modes \cup {"resume"}
FilesOf(ms) == {FileOf[m] : m \in ms}

ASSUME BoundsAssumption ==
    /\ MaxID \in Nat /\ Holds \in Nat /\ Limit \in Nat
    /\ Rewalk \in BOOLEAN /\ HasPremium \in BOOLEAN /\ Hardlink \in BOOLEAN
    /\ NoChat \notin Chats /\ NoRun \notin RunIDs
    /\ CommandsOf \in [Procs -> SUBSET Commands]
ASSUME FilesAssumption ==
    /\ FileOf \in [Msgs -> Files \cup {NoMedia, Unmatched}]
    /\ NoMedia \notin Files /\ Unmatched \notin Files
    /\ Big \subseteq Files
    /\ Filters \subseteq SUBSET Files

VARIABLES
    present,      \* per chat: the ids of the messages it holds now
    posted,       \* per chat: the highest id given so far
    status,       \* per message: the status of its media row, "none" without one
    spent,        \* per message: has its row used up its attempts
    watermark,    \* per chat: last_seen_message_id
    runs,         \* per run row: its status, "none" without one
    spec,         \* per run row: the chats it was created for
    pc, mode, run,\* per process: where its command is, its mode, its run
    todo,         \* per process: chats still to be walked
    at, from,     \* per process: the chat whose window is decided, its MinID
    maxSeen,      \* per process and chat: the highest matched id walked
    incr,         \* per process: chats walked from their watermark
    items,        \* per process: messages collected and still to be stored
    chats,        \* per process: chats registered with the manager
    held,         \* per process: rows its manager has claimed
    links,        \* per process: sightings of known files put aside for linking
    failedIn,     \* per process: chats with a failed row
    owes,         \* per process: chats whose watermark is still to be moved
    deferred,     \* per process: chats with files for the premium pass
    pass,         \* per process: an ordinary run, a resumed one or the premium pass
    interrupted   \* history: rows an interruption left claimed

historyVars == <<present, posted>>
rowVars == <<status, spent>>
runVars == <<runs, spec>>
walkVars == <<todo, at, from, maxSeen, incr, items>>
workVars == <<chats, held, links, failedIn>>
passVars == <<deferred, pass>>
procVars == <<pc, mode, run, walkVars, workVars, passVars, owes>>
vars == <<historyVars, rowVars, watermark, runVars, procVars, interrupted>>

Statuses == {"discovered", "queued", "downloading", "done", "failed"}
Resumable == {"parked", "failed", "running"}
Incremental(md) == md \in {"dl", "scan"}
Preview(md) == md \in {"scan", "scanfull"}

Idle(p) == pc[p] = "idle"
Goto(p, l) == pc' = [pc EXCEPT ![p] = l]

Init ==
    /\ present = [c \in Chats |-> {}] /\ posted = [c \in Chats |-> 0]
    /\ status = [m \in Msgs |-> "none"] /\ spent = [m \in Msgs |-> FALSE]
    /\ watermark = [c \in Chats |-> 0]
    /\ runs = [r \in RunIDs |-> "none"] /\ spec = [r \in RunIDs |-> {}]
    /\ pc = [p \in Procs |-> "idle"] /\ mode = [p \in Procs |-> "dl"]
    /\ run = [p \in Procs |-> NoRun] /\ todo = [p \in Procs |-> {}]
    /\ at = [p \in Procs |-> NoChat] /\ from = [p \in Procs |-> 0]
    /\ maxSeen = [p \in Procs |-> [c \in Chats |-> 0]]
    /\ incr = [p \in Procs |-> {}] /\ items = [p \in Procs |-> {}]
    /\ chats = [p \in Procs |-> {}] /\ held = [p \in Procs |-> {}]
    /\ links = [p \in Procs |-> {}]
    /\ failedIn = [p \in Procs |-> {}] /\ owes = [p \in Procs |-> {}]
    /\ deferred = [p \in Procs |-> {}] /\ pass = [p \in Procs |-> "main"]
    /\ interrupted = {}

-----------------------------------------------------------------------------
(* Telegram: messages are posted with growing ids and may be deleted *)

Post(c) ==
    /\ posted[c] < MaxID
    /\ posted' = [posted EXCEPT ![c] = @ + 1]
    /\ present' = [present EXCEPT ![c] = @ \cup {posted[c] + 1}]
    /\ UNCHANGED <<rowVars, watermark, runVars, procVars, interrupted>>

ClearHistory(c) ==
    /\ present[c] # {}
    /\ present' = [present EXCEPT ![c] = {}]
    /\ UNCHANGED <<posted, rowVars, watermark, runVars, procVars, interrupted>>

-----------------------------------------------------------------------------
(* The store *)

\* Every row still to be downloaded that a process can be given: PendingMedia.
PendingMedia(c) == {m \in {c} \X IDs : status[m] \in {"discovered", "queued", "failed"}}

\* What ClaimPending may take.
Claimable(c) ==
    {m \in {c} \X IDs : status[m] \in {"queued", "failed"} /\ ~spent[m]}

\* UpsertMedia: its own row is overwritten, another message's row of the same
\* file keeps the file and nothing is written.
Tracked(m) == \E o \in Msgs \ {m} : status[o] # "none" /\ FileOf[o] = FileOf[m]
Stores(m) == status[m] # "none" \/ ~Tracked(m)
UpsertMedia(m, st) ==
    IF Stores(m)
    THEN /\ status' = [status EXCEPT ![m] = st]
         /\ spent' = [spent EXCEPT ![m] = FALSE]
         /\ interrupted' = interrupted \ {m}
    ELSE UNCHANGED <<rowVars, interrupted>>

\* MediaByFile finds the file downloaded.
KnownDone(m) == \E o \in Msgs : status[o] = "done" /\ FileOf[o] = FileOf[m]

\* AdvanceWatermark never goes back.
AdvanceWatermark(c, id) ==
    watermark' = [watermark EXCEPT ![c] = IF id > @ THEN id ELSE @]

ResetWatermark(c) == watermark' = [watermark EXCEPT ![c] = 0]

FinishRun(p, st) == runs' = [runs EXCEPT ![run[p]] = st]

\* ResetDownloading speaks of the whole table.
ResetDownloading ==
    /\ status' = [m \in Msgs |-> IF status[m] = "downloading" THEN "queued" ELSE status[m]]
    /\ interrupted' = {}
    /\ UNCHANGED spent

-----------------------------------------------------------------------------
(* The command is over and its locals are gone *)

ForgetsWalk(p) ==
    /\ at' = [at EXCEPT ![p] = NoChat]
    /\ from' = [from EXCEPT ![p] = 0]
    /\ maxSeen' = [maxSeen EXCEPT ![p] = [c \in Chats |-> 0]]
    /\ incr' = [incr EXCEPT ![p] = {}]
    /\ items' = [items EXCEPT ![p] = {}]

Quit(p) ==
    /\ Goto(p, "idle")
    /\ mode' = [mode EXCEPT ![p] = "dl"]
    /\ run' = [run EXCEPT ![p] = NoRun]
    /\ todo' = [todo EXCEPT ![p] = {}]
    /\ ForgetsWalk(p)
    /\ chats' = [chats EXCEPT ![p] = {}]
    /\ held' = [held EXCEPT ![p] = {}]
    /\ links' = [links EXCEPT ![p] = {}]
    /\ failedIn' = [failedIn EXCEPT ![p] = {}]
    /\ owes' = [owes EXCEPT ![p] = {}]
    /\ deferred' = [deferred EXCEPT ![p] = {}]
    /\ pass' = [pass EXCEPT ![p] = "main"]

-----------------------------------------------------------------------------
(* Starting a run *)

\* CreateRun, and everything a new run starts with.  Ids are random.
Begin(p, ps, md, cs) ==
    \E r \in RunIDs :
        /\ runs[r] = "none"
        /\ runs' = [runs EXCEPT ![r] = "running"]
        /\ spec' = [spec EXCEPT ![r] = cs]
        /\ run' = [run EXCEPT ![p] = r]
        /\ mode' = [mode EXCEPT ![p] = md]
        /\ todo' = [todo EXCEPT ![p] = cs]
        /\ ForgetsWalk(p)
        /\ chats' = [chats EXCEPT ![p] = {}]
        /\ failedIn' = [failedIn EXCEPT ![p] = {}]
        /\ held' = [held EXCEPT ![p] = {}]
        /\ links' = [links EXCEPT ![p] = {}]
        /\ deferred' = [deferred EXCEPT ![p] = {}]
        /\ pass' = [pass EXCEPT ![p] = ps]
        /\ Goto(p, "walk")
        /\ UNCHANGED owes

\* dl, sync (an incremental dl), scan, and get; the scope resolves to any chats.
Start(p) ==
    /\ Idle(p)
    /\ \E md \in CommandsOf[p] \cap Modes, cs \in SUBSET Chats \ {{}} : Begin(p, "main", md, cs)
    /\ UNCHANGED <<historyVars, rowVars, watermark, interrupted>>

\* A stored run is walked in full under a new run row; the old row, of any
\* status when it is named by its id, keeps its status.
Replay(p) == \E r \in RunIDs : runs[r] # "none" /\ Begin(p, "resume", "full", spec[r])

\* resume: first of all the rows are requeued.
Resume(p) ==
    /\ Idle(p) /\ "resume" \in CommandsOf[p]
    /\ ResetDownloading
    /\ Replay(p)
    /\ UNCHANGED <<historyVars, watermark>>

\* The same, but there is nothing to resume, the deadline is ahead or the
\* account is in use: the rows have been requeued all the same.
ResumeRefused ==
    /\ \E p \in Procs : "resume" \in CommandsOf[p]
    /\ ResetDownloading
    /\ UNCHANGED <<historyVars, watermark, runVars, procVars>>

\* Mutant: parked runs count as finished.
CleanupAllRuns ==
    /\ \A p \in Procs : Idle(p)
    /\ runs' = [r \in RunIDs |-> "none"]
    /\ spec' = [r \in RunIDs |-> {}]
    /\ UNCHANGED <<historyVars, rowVars, watermark, procVars, interrupted>>

\* runs clean.
CleanupFinishedRuns ==
    /\ \E r \in RunIDs : runs[r] \in {"done", "failed"} /\ \A p \in Procs : run[p] # r
    /\ runs' = [r \in RunIDs |->
                  IF runs[r] \in {"done", "failed"} /\ \A p \in Procs : run[p] # r
                  THEN "none" ELSE runs[r]]
    /\ spec' = [r \in RunIDs |-> IF runs'[r] = "none" THEN {} ELSE spec[r]]
    /\ UNCHANGED <<historyVars, rowVars, watermark, procVars, interrupted>>

-----------------------------------------------------------------------------
(* Walking *)

Cleared(c) == \A i \in present[c] : i < watermark[c]
Walks(p, c, minID) ==
    /\ at' = [at EXCEPT ![p] = c]
    /\ from' = [from EXCEPT ![p] = minID]
    /\ todo' = [todo EXCEPT ![p] = @ \ {c}]
    /\ Goto(p, "page")
    /\ UNCHANGED <<mode, run, maxSeen, items, workVars, passVars, owes>>

\* No watermark to walk from, or a mode that ignores it.
WindowFull(p, c) ==
    /\ pc[p] = "walk" /\ c \in todo[p]
    /\ ~Incremental(mode[p]) \/ watermark[c] = 0
    /\ Walks(p, c, 0)
    /\ UNCHANGED <<historyVars, rowVars, watermark, runVars, incr, interrupted>>

FromWatermark(p, c) ==
    pc[p] = "walk" /\ c \in todo[p] /\ Incremental(mode[p]) /\ watermark[c] > 0

\* Where the configuration asks for it, a chat walked not long ago is served
\* from the manifest alone; how long ago is any time.
WindowFresh(p, c) ==
    /\ FromWatermark(p, c) /\ Rewalk
    /\ todo' = [todo EXCEPT ![p] = @ \ {c}]
    /\ incr' = [incr EXCEPT ![p] = @ \cup {c}]
    /\ UNCHANGED <<historyVars, rowVars, watermark, runVars, pc, mode, run, at, from,
                   maxSeen, items, workVars, passVars, owes, interrupted>>

\* The newest message lies below the watermark: the history was cleared.
WindowCleared(p, c) ==
    /\ FromWatermark(p, c) /\ Cleared(c)
    /\ ResetWatermark(c)
    /\ Walks(p, c, 0)
    /\ UNCHANGED <<historyVars, rowVars, runVars, incr, interrupted>>

WindowIncremental(p, c) ==
    /\ FromWatermark(p, c) /\ ~Cleared(c)
    /\ Walks(p, c, watermark[c])
    /\ incr' = [incr EXCEPT ![p] = @ \cup {c}]
    /\ UNCHANGED <<historyVars, rowVars, watermark, runVars, interrupted>>

\* What the walk scans: newest first, at most Limit messages.
Page(c, minID) ==
    LET ids == {i \in present[c] : i > minID}
    IN  {i \in ids : Limit = 0 \/ Cardinality({j \in ids : j > i}) < Limit}

\* A message without a file is matched or not whatever the filters say.
Passes(m, filter) == FileOf[m] \in filter \cup {NoMedia}
HasFile(m) == FileOf[m] \in Files

\* observe: the highest matched id, which get never reads, and every matched
\* file.
Observe(p, c, ids) ==
    /\ \E top \in ids \cup {0} :
          /\ \A i \in ids : i <= top
          /\ IF mode[p] = "get" THEN UNCHANGED maxSeen
             ELSE maxSeen' = [maxSeen EXCEPT ![p][c] = IF top > @ THEN top ELSE @]
    /\ items' = [items EXCEPT ![p] = @ \cup {m \in {c} \X ids : HasFile(m)}]

\* Mutant: the watermark will follow the messages seen, whether they matched
\* and were collected or not yet there.
WalkNewest(p) ==
    /\ pc[p] = "page"
    /\ maxSeen' = [maxSeen EXCEPT ![p][at[p]] = MaxID]
    /\ items' = items
    /\ Goto(p, "walk")
    /\ UNCHANGED <<historyVars, rowVars, watermark, runVars, mode, run, todo, at, from,
                   incr, workVars, passVars, owes, interrupted>>

\* One chat's walk; get fetches some messages by id instead.  The filters are
\* the command's own.
Walk(p) ==
    /\ pc[p] = "page"
    /\ LET c == at[p] IN
       \E ids \in SUBSET Page(c, from[p]), filter \in Filters :
          /\ mode[p] # "get" => ids = Page(c, from[p])
          /\ Observe(p, c, {i \in ids : Passes(<<c, i>>, filter)})
    /\ at' = [at EXCEPT ![p] = NoChat]
    /\ from' = [from EXCEPT ![p] = 0]
    /\ Goto(p, "walk")
    /\ UNCHANGED <<historyVars, rowVars, watermark, runVars, mode, run, todo, incr, workVars,
                   passVars, owes, interrupted>>

-----------------------------------------------------------------------------
(* scan: the matches become discovered rows *)

\* The chats whose watermark this run may move.
Seen(p) == {c \in Chats : maxSeen[p][c] > 0}

\* The watermarks a preview owes once its last match is stored.
Previewed(p, rest) ==
    /\ items' = [items EXCEPT ![p] = rest]
    /\ owes' = [owes EXCEPT ![p] = IF rest = {} THEN Seen(p) ELSE {}]
    /\ Goto(p, IF rest = {} THEN "advance" ELSE "discover")

PreviewRun(p) ==
    /\ pc[p] = "walk" /\ todo[p] = {} /\ Preview(mode[p])
    /\ Previewed(p, items[p])
    /\ incr' = [incr EXCEPT ![p] = {}]
    /\ UNCHANGED <<historyVars, rowVars, watermark, runVars, mode, run, todo, at, from,
                   maxSeen, workVars, passVars, interrupted>>

Discover(p, m) ==
    /\ pc[p] = "discover" /\ m \in items[p]
    /\ UpsertMedia(m, "discovered")
    /\ Previewed(p, items[p] \ {m})
    /\ UNCHANGED <<historyVars, watermark, runVars, mode, run, todo, at, from, maxSeen,
                   incr, workVars, passVars>>

-----------------------------------------------------------------------------
(* dl, sync, get, resume: the matches and what is still owed are queued *)

\* What is still to be queued; the manager runs once nothing is.
Queues(p, rest) ==
    /\ items' = [items EXCEPT ![p] = rest]
    /\ Goto(p, IF rest = {} THEN "run" ELSE "enqueue")

\* deferOversizedToPremium: not for get, a resumed run or the premium pass.
Defers(p) == HasPremium /\ pass[p] = "main" /\ mode[p] # "get"
LoadItems(p) ==
    /\ pc[p] = "walk" /\ todo[p] = {} /\ ~Preview(mode[p])
    /\ LET all == items[p] \cup UNION {PendingMedia(c) : c \in incr[p]}
           big == IF Defers(p) THEN {m \in all : FileOf[m] \in Big} ELSE {}
       IN  /\ Queues(p, all \ big)
           /\ deferred' = [deferred EXCEPT ![p] = {m[1] : m \in big}]
    /\ incr' = [incr EXCEPT ![p] = {}]
    /\ UNCHANGED <<historyVars, rowVars, watermark, runVars, mode, run, todo, at, from,
                   maxSeen, workVars, pass, owes, interrupted>>

Registered(p, m) == chats' = [chats EXCEPT ![p] = @ \cup {m[1]}]

\* Mutant: a file already downloaded is queued again.
EnqueueAgain(p, m) ==
    /\ pc[p] = "enqueue" /\ m \in items[p]
    /\ UpsertMedia(m, "queued")
    /\ IF Stores(m) THEN Registered(p, m) ELSE UNCHANGED chats
    /\ Queues(p, items[p] \ {m})
    /\ UNCHANGED <<historyVars, watermark, runVars, mode, run, todo, at, from, maxSeen, incr,
                   held, links, failedIn, passVars, owes>>

\* rememberOccurrence: of the message's own row, done, or of another's.
PutsAside(p, m) ==
    links' = IF Hardlink /\ (KnownDone(m) \/ ~Stores(m))
             THEN [links EXCEPT ![p] = @ \cup {m}] ELSE links

\* The duplicate check and the upsert, of one item.
Enqueue(p, m) ==
    /\ pc[p] = "enqueue" /\ m \in items[p]
    /\ IF KnownDone(m)
       THEN UNCHANGED <<rowVars, interrupted, chats>>
       ELSE /\ UpsertMedia(m, "queued")
            /\ IF Stores(m) THEN Registered(p, m) ELSE UNCHANGED chats
    /\ PutsAside(p, m)
    /\ Queues(p, items[p] \ {m})
    /\ UNCHANGED <<historyVars, watermark, runVars, mode, run, todo, at, from, maxSeen, incr,
                   held, failedIn, passVars, owes>>

-----------------------------------------------------------------------------
(* What the download manager does to the rows *)

OnlyRows(p) ==
    UNCHANGED <<historyVars, watermark, runVars, pc, mode, run, walkVars, chats, links,
                passVars, owes>>

Claim(p, m) ==
    /\ pc[p] = "run" /\ Cardinality(held[p]) < Holds
    /\ m[1] \in chats[p] /\ m \in Claimable(m[1])
    /\ status' = [status EXCEPT ![m] = "downloading"]
    /\ held' = [held EXCEPT ![p] = @ \cup {m}]
    /\ interrupted' = interrupted \ {m}
    /\ OnlyRows(p) /\ UNCHANGED <<spent, failedIn>>

Settles(p, m, st) ==
    /\ pc[p] \in {"run", "parking"} /\ m \in held[p]
    /\ status' = [status EXCEPT ![m] = st]
    /\ held' = [held EXCEPT ![p] = @ \ {m}]

MarkDone(p, m) ==
    /\ Settles(p, m, "done")
    /\ interrupted' = interrupted \ {m}
    /\ OnlyRows(p) /\ UNCHANGED <<spent, failedIn>>

\* The failures of a parked run are of no further use.
FailedIn(p, c) ==
    failedIn' = IF pc[p] = "parking" THEN failedIn ELSE [failedIn EXCEPT ![p] = @ \cup {c}]

MarkFailed(p, m) ==
    /\ Settles(p, m, "failed")
    /\ \E b \in BOOLEAN : spent' = [spent EXCEPT ![m] = b]
    /\ FailedIn(p, m[1])
    /\ interrupted' = interrupted \ {m}
    /\ OnlyRows(p)

\* A ladder that ended in a dropped connection or a dead carrier: the row
\* stays claimed, its budget comes back, and the run goes on.
MarkInterrupted(p, m) ==
    /\ Settles(p, m, "downloading")
    /\ spent' = [spent EXCEPT ![m] = FALSE]
    /\ interrupted' = interrupted \cup {m}
    /\ OnlyRows(p) /\ UNCHANGED failedIn

\* The feeder found every chat drained and the workers are done.
WorkersDone(p) ==
    /\ pc[p] = "run" /\ held[p] = {}
    /\ \A c \in chats[p] : Claimable(c) = {}

\* A flood wait beyond the threshold, in a worker's ladder or in the drain's:
\* the run row is parked while the other workers still settle, rows nobody took
\* stay claimed, and sightings nobody served and the watermarks are forgotten.
Park(p) ==
    /\ \/ pc[p] = "run" /\ held[p] # {}
       \/ (WorkersDone(p) \/ pc[p] = "drain") /\ links[p] # {}
    /\ FinishRun(p, "parked")
    /\ Goto(p, "parking")
    /\ chats' = [chats EXCEPT ![p] = {}]
    /\ links' = [links EXCEPT ![p] = {}]
    /\ failedIn' = [failedIn EXCEPT ![p] = {}]
    /\ ForgetsWalk(p)
    /\ UNCHANGED <<historyVars, rowVars, watermark, spec, mode, run, todo, held, passVars, owes,
                   interrupted>>

-----------------------------------------------------------------------------
(* The drain: sightings put aside are served when the workers are done, also *)
(* those of a manager whose feeder failed and whose run is broken            *)

Drains(p, m) ==
    /\ m \in links[p]
    /\ \E l \in {"drain", "broken"} :
          /\ \/ pc[p] = l
             \/ l = "drain" /\ WorkersDone(p)
             \/ l = "broken" /\ pc[p] = "run" /\ held[p] = {}
          /\ Goto(p, l)
    /\ links' = [links EXCEPT ![p] = @ \ {m}]
    /\ chats' = [chats EXCEPT ![p] = {}]
    /\ UNCHANGED <<historyVars, watermark, runVars, mode, run, walkVars, held, passVars, owes>>

\* A message whose file is another's row has none to write.
HasRow(m) == status[m] # "none"
Writes(m, st) == status' = [status EXCEPT ![m] = IF HasRow(m) THEN st ELSE @]
Grants(m, b) == spent' = [spent EXCEPT ![m] = IF HasRow(m) THEN b ELSE @]

\* The chat has its copy, or there was no way to link one.
LinkSkipped(p, m) ==
    /\ Drains(p, m)
    /\ UNCHANGED <<rowVars, failedIn, interrupted>>

\* Linked from the blob, or downloaded once more.
LinkDone(p, m) ==
    /\ Drains(p, m)
    /\ Writes(m, "done")
    /\ interrupted' = interrupted \ {m}
    /\ UNCHANGED <<spent, failedIn>>

\* The copies are gone and the second download failed.
LinkFailed(p, m) ==
    /\ Drains(p, m)
    /\ Writes(m, "failed")
    /\ \E b \in BOOLEAN : Grants(m, b)
    /\ FailedIn(p, m[1])
    /\ interrupted' = interrupted \ {m}

LinkInterrupted(p, m) ==
    /\ Drains(p, m)
    /\ Writes(m, "downloading")
    /\ Grants(m, FALSE)
    /\ interrupted' = IF HasRow(m) THEN interrupted \cup {m} ELSE interrupted
    /\ UNCHANGED failedIn

-----------------------------------------------------------------------------
(* Finishing *)

RunReturns(p) == links[p] = {} /\ (WorkersDone(p) \/ pc[p] = "drain")

\* finishStatus, which precedes the watermarks of a download; a sighting that
\* could not be linked may have counted as failed, in no chat.
FinishStatus(p) ==
    /\ RunReturns(p)
    /\ \E unlinked \in {FALSE, Hardlink} :
          FinishRun(p, IF unlinked \/ failedIn[p] # {} THEN "failed" ELSE "done")
    /\ owes' = [owes EXCEPT ![p] = IF mode[p] = "get" THEN {} ELSE Seen(p) \ failedIn[p]]
    /\ Goto(p, "advance")
    /\ chats' = [chats EXCEPT ![p] = {}]
    /\ failedIn' = [failedIn EXCEPT ![p] = {}]
    /\ UNCHANGED <<historyVars, rowVars, watermark, spec, mode, run, walkVars, held, links,
                   passVars, interrupted>>

Advance(p, c) ==
    /\ pc[p] = "advance" /\ c \in owes[p]
    /\ AdvanceWatermark(c, maxSeen[p][c])
    /\ owes' = [owes EXCEPT ![p] = @ \ {c}]
    /\ UNCHANGED <<historyVars, rowVars, runVars, pc, mode, run, walkVars, workVars, passVars,
                   interrupted>>

\* A run is over with its watermarks moved, or parked without touching them.
Concluded(p) == (pc[p] = "advance" /\ owes[p] = {}) \/ pc[p] = "parking"

\* The command is over; a preview finishes its run last.
Return(p) ==
    /\ Concluded(p) /\ deferred[p] = {}
    /\ IF Preview(mode[p]) THEN FinishRun(p, "done") ELSE UNCHANGED runs
    /\ Quit(p)
    /\ UNCHANGED <<historyVars, rowVars, watermark, spec, interrupted>>

\* runDeferredSessions: the deferred chats, in the same mode, on the premium
\* account.
PremiumPass(p) ==
    /\ Concluded(p) /\ deferred[p] # {}
    /\ Begin(p, "premium", mode[p], deferred[p])
    /\ UNCHANGED <<historyVars, rowVars, watermark, interrupted>>

\* resume --all: the next stored run.
ResumeNext(p) ==
    /\ Concluded(p) /\ pass[p] = "resume"
    /\ Replay(p)
    /\ UNCHANGED <<historyVars, rowVars, watermark, interrupted>>

\* A statement, a page or a probe failed: finishRunE.
StepFails(p) ==
    /\ \/ pc[p] \in {"walk", "page", "discover", "enqueue"}
       \/ pc[p] \in {"run", "broken"} /\ held[p] = {} /\ links[p] = {}
    /\ FinishRun(p, "failed")
    /\ Quit(p)
    /\ UNCHANGED <<historyVars, rowVars, watermark, spec, interrupted>>

\* The process is killed, or interrupted by its user, whose cancelled context
\* no later statement survives, or finishStatus itself fails: nothing more of it
\* reaches the database.
Crash(p) ==
    /\ ~Idle(p)
    /\ Quit(p)
    /\ UNCHANGED <<historyVars, rowVars, watermark, runVars, interrupted>>

-----------------------------------------------------------------------------
(* The specification *)

Telegram(c) == Post(c) \/ ClearHistory(c)
Window(p) ==
    \E c \in Chats : WindowFull(p, c) \/ WindowFresh(p, c) \/ WindowCleared(p, c)
                     \/ WindowIncremental(p, c)
Record(p) == \E m \in Msgs : Discover(p, m) \/ Enqueue(p, m)
Manage(p) ==
    \E m \in Msgs : Claim(p, m) \/ MarkDone(p, m) \/ MarkFailed(p, m)
                    \/ MarkInterrupted(p, m)
Drain(p) ==
    \E m \in Msgs : LinkSkipped(p, m) \/ LinkDone(p, m) \/ LinkFailed(p, m)
                    \/ LinkInterrupted(p, m)
Conclude(p) ==
    \/ FinishStatus(p) \/ Return(p) \/ PremiumPass(p) \/ ResumeNext(p)
    \/ \E c \in Chats : Advance(p, c)
Proceed(p) ==
    \/ Window(p) \/ Walk(p) \/ PreviewRun(p) \/ Record(p)
    \/ LoadItems(p) \/ Conclude(p)

Next ==
    \/ \E c \in Chats : Telegram(c)
    \/ ResumeRefused \/ CleanupFinishedRuns
    \/ \E p \in Procs : \/ Start(p) \/ Resume(p) \/ Proceed(p) \/ Manage(p) \/ Drain(p)
                        \/ Park(p) \/ StepFails(p) \/ Crash(p)

Spec == Init /\ [][Next]_vars
-----------------------------------------------------------------------------
(* Properties *)

Recorded(m) == \E o \in Msgs : status[o] # "none" /\ FileOf[o] = FileOf[m]
CoveredUpTo(c, id, fs) ==
    \A i \in present[c] : i <= id /\ FileOf[<<c, i>>] \in fs => Recorded(<<c, i>>)

\* The files no command leaves out: every filter passes them and none is
\* deferred.
Wanted == {f \in Files : (\A filter \in Filters : f \in filter) /\ ~(HasPremium /\ f \in Big)}

\* A watermark never passes a wanted file the manifest does not know: whatever
\* dies between the walk, the rows and the watermark, and whoever else moves it.
WatermarkCovers == \A c \in Chats : CoveredUpTo(c, watermark[c], Wanted)

IsHeld(m) == \E p \in Procs : m \in held[p]

\* A row left claimed by nobody has a run that resume will find, unless the
\* manager itself gave it up as interrupted.
StrandedIsResumable ==
    \A m \in Msgs : status[m] = "downloading" /\ ~IsHeld(m) /\ m \notin interrupted =>
        \E r \in RunIDs : runs[r] \in {"running", "parked"}

\* A finished row is taken back by three parties only: a preview that walked its
\* message, a process that still works on it although it was requeued, and the
\* drain of a process that met its message when the file was known.
OnlyRevisitsReopen ==
    [][\A m \in Msgs : status[m] = "done" /\ status'[m] # "done" =>
          \E p \in Procs :
             \/ m \in items[p] \ items'[p] /\ Preview(mode[p]) /\ status'[m] = "discovered"
             \/ m \in held[p] \ held'[p] /\ status'[m] \in {"failed", "downloading"}
             \/ m \in links[p] \ links'[p] /\ status'[m] \in {"failed", "downloading"}]_vars

\* README.md:374: oversized items "defer to a final session of a local premium
\* account": when that session has queued its items, none is missing.
DeferredIsFetched ==
    \A p \in Procs : pass[p] = "premium" /\ pc[p] = "run" =>
        \A c \in spec[run[p]] : CoveredUpTo(c, watermark[c], Files)

\* downloader.go:89: interrupted rows are kept "so a later run resumes them".
InterruptedIsOffered ==
    [][\A p \in Procs : pc[p] = "walk" /\ pc'[p] = "enqueue" =>
          \A m \in interrupted : m[1] \in incr[p] => m \in items'[p]]_vars

\* incremental.go:45: "done and skipped rows are final and never re-offered".
DoneIsFinal ==
    [][\A m \in Msgs : status[m] = "done" /\ ~IsHeld(m) => status'[m] = "done"]_vars
=============================================================================
