----------------------------- MODULE FileStore -----------------------------
(***************************************************************************)
(* The downloads tree: part files, the hardlink blob store, final paths,   *)
(* and everything that touches them at the same time: the workers of any   *)
(* number of runs, dedupe gc, verify --fix, and the user's own file        *)
(* manager.                                                                *)
(*                                                                         *)
(* A path is a directory entry and an inode holds the bytes, so that a     *)
(* hard link is two entries of one inode and an open part file outlives    *)
(* its entry.  Of the bytes the model keeps whose they are and whether     *)
(* they are all there.                                                     *)
(***************************************************************************)
EXTENDS Integers, FiniteSets

CONSTANTS
    Rows,         \* media rows, each tracking a file of its own
    Sightings,    \* further sightings of a tracked file: hardlink mode only
    Own,          \* those of them that meet the row's own message again
    RowOf,        \* per sighting: the row that tracks its file
    Names,        \* rendered final paths
    NameOf,       \* per row and sighting: the path it renders to
    IndexOf,      \* per name: the same name with an index, or NoName
    Inodes,       \* 1..n, a bound of the model
    Workers,      \* workers of all runs
    Configs,      \* the configurations of the runs that share the tree
    LinkAnswers,  \* can a hard link be made: the answers the file system gives
    CopyAnswers,  \* does the copy that replaces it reach its end
    UserMeddles,  \* does the user delete and truncate final files
    Gc            \* does dedupe gc run

Items == Rows \cup Sightings
NoName == "noname"
NoItem == "noitem"
NoEntry == <<"none">>
NoConfig == [hardlink |-> FALSE, skipExisting |-> FALSE, collision |-> "none"]
FileOf == [i \in Items |-> IF i \in Rows THEN i ELSE RowOf[i]]

ASSUME ItemsAssumption ==
    /\ RowOf \in [Sightings -> Rows] /\ Own \subseteq Sightings
    /\ NameOf \in [Items -> Names]
    /\ IndexOf \in [Names -> Names \cup {NoName}]
    /\ Rows \cap Sightings = {} /\ NoItem \notin Items /\ NoName \notin Names
ASSUME ModesAssumption ==
    /\ Configs \subseteq [hardlink : BOOLEAN, skipExisting : BOOLEAN,
                            collision : {"index", "overwrite", "skip"}]
    /\ LinkAnswers \subseteq BOOLEAN /\ CopyAnswers \subseteq BOOLEAN
    /\ UserMeddles \in BOOLEAN /\ Gc \in BOOLEAN /\ Inodes \subseteq Nat \ {0}

\* Directory entries: the part file lies next to what it will become.
Final(n) == <<"final", n>>
Blob(f) == <<"blob", f>>
Part(e) == <<"part", e>>
Finals == {Final(n) : n \in Names}
Blobs == {Blob(f) : f \in Rows}
Entries == Finals \cup Blobs \cup {Part(e) : e \in Finals \cup Blobs}
BlobDir == Blobs \cup {Part(b) : b \in Blobs}

VARIABLES
    inode,        \* per entry: its inode, 0 for an absent path
    owner, state, \* per inode: whose bytes, and partial, whole or damaged
    status, path, \* per row: media.status and media.path
    owed,         \* pendingLinks: the rows' own messages a walk met again
    pc, item,     \* per worker: where it is, and with which row or sighting
    cfg,          \* per worker: the configuration of its run
    dest, fd,     \* per worker: the final path chosen, the open part file
    doomed,       \* the entry gc has found with a single link
    meddled,      \* history: rows whose files the user touched
    requeued      \* history: rows verify requeued and the user left alone since

diskVars == <<inode, owner, state>>
rowVars == <<status, path, owed>>
workVars == <<pc, item, cfg, dest, fd>>
userVars == <<meddled, requeued>>
vars == <<diskVars, rowVars, workVars, doomed, userVars>>

Present(e) == inode[e] # 0
Links(e) == Cardinality({o \in Entries : inode[o] = inode[e]})
SameFile(e, o) == Present(e) /\ inode[e] = inode[o]
Free(n) == (\A e \in Entries : inode[e] # n) /\ (\A w \in Workers : fd[w] # n)
NextFree(n) == Free(n) /\ \A k \in Inodes : k < n => ~Free(k)
Hardlink(w) == cfg[w].hardlink
PromotePath(w) == IF Hardlink(w) THEN Blob(FileOf[item[w]]) ELSE dest[w]

Init ==
    /\ inode = [e \in Entries |-> 0]
    /\ owner = [n \in Inodes |-> NoItem] /\ state = [n \in Inodes |-> "partial"]
    /\ status = [r \in Rows |-> "queued"] /\ path = [r \in Rows |-> NoEntry]
    /\ owed = {}
    /\ pc = [w \in Workers |-> "idle"] /\ item = [w \in Workers |-> NoItem]
    /\ cfg = [w \in Workers |-> NoConfig]
    /\ dest = [w \in Workers |-> NoEntry] /\ fd = [w \in Workers |-> 0]
    /\ doomed = NoEntry /\ meddled = {} /\ requeued = {}

-----------------------------------------------------------------------------
(* A worker takes a row or a sighting and looks at the disk *)

Idle(w) ==
    /\ pc' = [pc EXCEPT ![w] = "idle"]
    /\ item' = [item EXCEPT ![w] = NoItem]
    /\ cfg' = [cfg EXCEPT ![w] = NoConfig]
    /\ dest' = [dest EXCEPT ![w] = NoEntry]
    /\ fd' = [fd EXCEPT ![w] = 0]

Goto(w, l) == pc' = [pc EXCEPT ![w] = l]

\* Enqueue meets the message of a row that is done: the chat may have lost its
\* copy, so the message is served again when the run's workers have drained.
Remember(s) ==
    /\ status[RowOf[s]] = "done" /\ \E c \in Configs : c.hardlink
    /\ owed' = owed \cup {s}
    /\ UNCHANGED <<diskVars, status, path, workVars, doomed, userVars>>

\* ClaimPending, or drainPendingLinks for a sighting Enqueue remembered: nobody
\* claims the row behind it, and it need no longer be done.
Take(w, i, c) ==
    /\ pc[w] = "idle"
    /\ IF i \in Rows
       THEN /\ status[i] = "queued"
            /\ status' = [status EXCEPT ![i] = "downloading"]
       ELSE c.hardlink /\ (i \in Own => i \in owed) /\ UNCHANGED status
    /\ owed' = owed \ {i}
    /\ item' = [item EXCEPT ![w] = i]
    /\ cfg' = [cfg EXCEPT ![w] = c]
    /\ Goto(w, "look")
    /\ UNCHANGED <<diskVars, path, dest, fd, doomed, userVars>>

\* The outcome is written by message: for a row, claimed or met again.  Another
\* chat's sighting has no row, and the UPDATE finds none.
Settles(w, st, e) ==
    /\ LET r == FileOf[item[w]] IN
       IF item[w] \in Rows \cup Own
       THEN /\ status' = [status EXCEPT ![r] = st]
            /\ path' = [path EXCEPT ![r] = IF st = "done" THEN e ELSE @]
       ELSE UNCHANGED <<status, path>>
    /\ UNCHANGED owed
    /\ Idle(w)

\* The chat has its copy already, or will not get one: no row is written.
Leaves(w) == Idle(w) /\ UNCHANGED rowVars

\* failItem, or an exhausted ladder: the part file keeps its bytes.
Fail(w) == Settles(w, "failed", NoEntry) /\ UNCHANGED <<diskVars, doomed, userVars>>

\* skipItem: the row is done at the path found.
SkipItem(w, e) == Settles(w, "done", e) /\ UNCHANGED <<diskVars, doomed, userVars>>

\* A live blob is linked, everything else goes through the ladder.
Serve(w, e) ==
    /\ dest' = [dest EXCEPT ![w] = e]
    /\ Goto(w, IF Hardlink(w) /\ Present(Blob(FileOf[item[w]])) THEN "link" ELSE "open")
    /\ UNCHANGED <<diskVars, rowVars, item, cfg, fd, doomed, userVars>>

\* finalPathFor: what becomes of a rendered path.
FinalPathFor(w, n) ==
    IF ~Present(Final(n)) THEN Serve(w, Final(n))
    ELSE \/ cfg[w].collision = "overwrite" /\ Serve(w, Final(n))
         \/ cfg[w].collision = "skip" /\ SkipItem(w, Final(n))
         \/ /\ cfg[w].collision = "index"
            /\ IF IndexOf[n] # NoName /\ ~Present(Final(IndexOf[n]))
               THEN Serve(w, Final(IndexOf[n])) ELSE Fail(w)

AlreadyThere(w, e) ==
    \/ cfg[w].skipExisting /\ Present(e)
    \/ Hardlink(w) /\ SameFile(e, Blob(item[w]))

\* processItem and processHardlinkItem.
LookRow(w) ==
    /\ pc[w] = "look" /\ item[w] \in Rows
    /\ LET n == NameOf[item[w]]
       IN  IF AlreadyThere(w, Final(n)) THEN SkipItem(w, Final(n)) ELSE FinalPathFor(w, n)

\* drainPendingLinks: any file at the rendered path is this chat's copy.
LookSighting(w) ==
    /\ pc[w] = "look" /\ item[w] \in Sightings
    /\ LET e == Final(NameOf[item[w]])
       IN  IF Present(e) THEN Leaves(w) /\ UNCHANGED <<diskVars, doomed, userVars>>
           ELSE Serve(w, e)

-----------------------------------------------------------------------------
(* The ladder: part file, transfer, promotion *)

OpenPart(w) ==
    /\ pc[w] = "open"
    /\ LET e == Part(PromotePath(w)) IN
       IF Present(e)
       THEN fd' = [fd EXCEPT ![w] = inode[e]] /\ UNCHANGED diskVars
       ELSE \E n \in Inodes :
              /\ NextFree(n)
              /\ inode' = [inode EXCEPT ![e] = n]
              /\ owner' = [owner EXCEPT ![n] = FileOf[item[w]]]
              /\ state' = [state EXCEPT ![n] = "partial"]
              /\ fd' = [fd EXCEPT ![w] = n]
    /\ Goto(w, "fetch")
    /\ UNCHANGED <<rowVars, item, cfg, dest, doomed, userVars>>

\* Mutant: the part file is promoted whatever the transfer brought.
FetchShort(w) ==
    /\ pc[w] = "fetch"
    /\ Goto(w, "promote")
    /\ UNCHANGED <<diskVars, rowVars, item, cfg, dest, fd, doomed, userVars>>

\* The transfer continues behind the bytes the part file has; behind those of
\* another file it makes a file that is neither.
Fetch(w) ==
    /\ pc[w] = "fetch"
    /\ IF owner[fd[w]] = FileOf[item[w]]
       THEN state' = [state EXCEPT ![fd[w]] = IF @ = "partial" THEN "whole" ELSE @]
            /\ UNCHANGED owner
       ELSE /\ owner' = [owner EXCEPT ![fd[w]] = FileOf[item[w]]]
            /\ state' = [state EXCEPT ![fd[w]] = "damaged"]
    /\ Goto(w, "promote")
    /\ UNCHANGED <<inode, rowVars, item, cfg, dest, fd, doomed, userVars>>

\* Mutant: the blob counts as the final path.
PromoteUnlinked(w) ==
    /\ pc[w] = "promote"
    /\ LET e == PromotePath(w) IN
       IF Present(Part(e))
       THEN inode' = [inode EXCEPT ![e] = inode[Part(e)], ![Part(e)] = 0] /\ Goto(w, "mark")
       ELSE Goto(w, "fetch") /\ UNCHANGED inode
    /\ UNCHANGED <<owner, state, rowVars, item, cfg, dest, fd, doomed, userVars>>

\* The rename goes by name: without the part file's entry it fails.
Promote(w) ==
    /\ pc[w] = "promote"
    /\ LET e == PromotePath(w) IN
       IF Present(Part(e))
       THEN /\ inode' = [inode EXCEPT ![e] = inode[Part(e)], ![Part(e)] = 0]
            /\ Goto(w, IF Hardlink(w) THEN "link" ELSE "mark")
       ELSE Goto(w, "fetch") /\ UNCHANGED inode
    /\ UNCHANGED <<owner, state, rowVars, item, cfg, dest, fd, doomed, userVars>>

\* A size that is still wrong, or an attempt that failed for any other reason,
\* is tried again until the ladder is exhausted.
LadderFails(w) == pc[w] \in {"open", "fetch", "promote"} /\ Fail(w)

\* A retry after a failed link fetches nothing more; outside the ladder the row
\* fails, and a sighting is only counted (countOccurrenceFailed).
LinkFails(w) ==
    \/ fd[w] # 0 /\ Goto(w, "fetch") /\ UNCHANGED <<rowVars, item, cfg, dest, fd>>
    \/ fd[w] = 0 /\ item[w] \in Rows /\ Settles(w, "failed", NoEntry)
    \/ fd[w] = 0 /\ item[w] \in Sightings /\ Leaves(w)

\* The bytes of b under a new inode at e: all of them, or those before an error.
Copied(b, e, whole) ==
    \E n \in Inodes :
        /\ NextFree(n)
        /\ inode' = [inode EXCEPT ![e] = n]
        /\ owner' = [owner EXCEPT ![n] = owner[inode[b]]]
        /\ state' = [state EXCEPT ![n] = IF whole THEN state[inode[b]] ELSE "partial"]

\* linkOrCopy: a destination that exists counts as served.
LinkOrCopy(w) ==
    /\ pc[w] = "link"
    /\ LET b == Blob(FileOf[item[w]])
           e == dest[w]
       IN  \/ /\ Present(e) /\ Present(b)
              /\ Goto(w, "mark")
              /\ UNCHANGED <<diskVars, rowVars, item, cfg, dest, fd>>
           \/ /\ ~Present(e) /\ Present(b) /\ TRUE \in LinkAnswers
              /\ inode' = [inode EXCEPT ![e] = inode[b]]
              /\ Goto(w, "mark")
              /\ UNCHANGED <<owner, state, rowVars, item, cfg, dest, fd>>
           \/ /\ ~Present(e) /\ Present(b) /\ FALSE \in LinkAnswers
              /\ \E whole \in CopyAnswers :
                   /\ Copied(b, e, whole)
                   /\ IF whole THEN Goto(w, "mark") /\ UNCHANGED <<rowVars, item, cfg, dest, fd>>
                      ELSE LinkFails(w)
           \/ /\ ~Present(b)
              /\ LinkFails(w)
              /\ UNCHANGED diskVars
    /\ UNCHANGED <<doomed, userVars>>

\* MarkDone, after the metadata.
Mark(w) ==
    /\ pc[w] = "mark"
    /\ Settles(w, "done", dest[w])
    /\ UNCHANGED <<diskVars, doomed, userVars>>

\* The run is interrupted, parked or killed: the row stays claimed.
Stop(w) ==
    /\ pc[w] # "idle"
    /\ Leaves(w)
    /\ UNCHANGED <<diskVars, doomed, userVars>>

\* MarkInterrupted has no guard: the ladder of a message met again leaves its row
\* as one that was claimed.
Interrupt(w) ==
    /\ pc[w] \in {"open", "fetch", "promote"}
    /\ Settles(w, "downloading", NoEntry)
    /\ UNCHANGED <<diskVars, doomed, userVars>>

\* A later run: what nobody holds is offered again, and so is what failed.
Requeue(r) ==
    /\ \/ status[r] = "failed"
       \/ status[r] = "downloading" /\ \A w \in Workers : item[w] # r
    /\ status' = [status EXCEPT ![r] = "queued"]
    /\ UNCHANGED <<diskVars, path, owed, workVars, doomed, userVars>>

-----------------------------------------------------------------------------
(* The user *)

Touches(n) ==
    /\ meddled' = meddled \cup {owner[inode[Final(n)]]}
    /\ requeued' = requeued \ {owner[inode[Final(n)]]}

DeleteFinal(n) ==
    /\ UserMeddles /\ Present(Final(n))
    /\ inode' = [inode EXCEPT ![Final(n)] = 0]
    /\ Touches(n)
    /\ UNCHANGED <<owner, state, rowVars, workVars, doomed>>

\* Truncated in place: every link of the inode shows it.
DamageFinal(n) ==
    /\ UserMeddles /\ Present(Final(n))
    /\ state' = [state EXCEPT ![inode[Final(n)]] = "damaged"]
    /\ Touches(n)
    /\ UNCHANGED <<inode, owner, rowVars, workVars, doomed>>

-----------------------------------------------------------------------------
(* dedupe gc: everything below the blob directory, one file at a time *)

Garbage(e) == Present(e) /\ Links(e) = 1

GcStat(e) ==
    /\ Gc /\ doomed = NoEntry
    /\ Garbage(e)
    /\ doomed' = e
    /\ UNCHANGED <<diskVars, rowVars, workVars, userVars>>

\* The file is removed by name, whatever happened to its links meanwhile.
GcRemove ==
    /\ doomed # NoEntry
    /\ inode' = [inode EXCEPT ![doomed] = 0]
    /\ doomed' = NoEntry
    /\ UNCHANGED <<owner, state, rowVars, workVars, userVars>>

-----------------------------------------------------------------------------
(* verify --fix, one row at a time *)

Damaged(r) == owner[inode[path[r]]] # r \/ state[inode[path[r]]] # "whole"

Verified(r) == status[r] = "done" /\ path[r] # NoEntry
OnlyBlobAlive(r) == Verified(r) /\ ~Present(path[r]) /\ Present(Blob(r))
Broken(r) ==
    Verified(r) /\ IF Present(path[r]) THEN Damaged(r) ELSE ~Present(Blob(r))

\* final-missing-blob-alive: what a copy that broke off left behind stays.
RelinkBlob(r) ==
    /\ OnlyBlobAlive(r)
    /\ \/ /\ TRUE \in LinkAnswers
          /\ inode' = [inode EXCEPT ![path[r]] = inode[Blob(r)]]
          /\ UNCHANGED <<owner, state>>
       \/ FALSE \in LinkAnswers /\ \E whole \in CopyAnswers : Copied(Blob(r), path[r], whole)
    /\ UNCHANGED <<rowVars, workVars, doomed, userVars>>

\* missing, size-mismatch and hash-mismatch.
RequeueMedia(r) ==
    /\ Broken(r)
    /\ status' = [status EXCEPT ![r] = "queued"]
    /\ requeued' = requeued \cup {r}
    /\ UNCHANGED <<diskVars, path, owed, workVars, doomed, meddled>>

-----------------------------------------------------------------------------
(* The specification *)

Ladder(w) ==
    OpenPart(w) \/ Fetch(w) \/ Promote(w) \/ LadderFails(w) \/ LinkOrCopy(w) \/ Mark(w)
Work(w) ==
    \/ \E i \in Items, c \in Configs : Take(w, i, c)
    \/ LookRow(w) \/ LookSighting(w) \/ Ladder(w) \/ Stop(w) \/ Interrupt(w)
Verify(r) == RelinkBlob(r) \/ RequeueMedia(r)
Meddle(n) == DeleteFinal(n) \/ DamageFinal(n)

Next ==
    \/ \E w \in Workers : Work(w)
    \/ \E s \in Own : Remember(s)
    \/ \E r \in Rows : Requeue(r) \/ Verify(r)
    \/ \E n \in Names : Meddle(n)
    \/ (\E e \in BlobDir : GcStat(e)) \/ GcRemove

Spec == Init /\ [][Next]_vars
-----------------------------------------------------------------------------
(* Properties *)

\* README.md:237: the blob store holds a file once, whole and under its own
\* name, whoever stopped where and whatever gc removed, until the user damages
\* one of its links.
BlobsAreWhole ==
    \A r \in Rows : Present(Blob(r)) =>
        owner[inode[Blob(r)]] = r /\ (state[inode[Blob(r)]] = "whole" \/ r \in meddled)

\* A done row's path holds the row's own bytes, all of them, until the user
\* deletes or damages them.
DoneHoldsItsData ==
    \A r \in Rows : status[r] = "done" /\ r \notin meddled =>
        /\ Present(path[r])
        /\ owner[inode[path[r]]] = r /\ state[inode[path[r]]] = "whole"

\* README.md:228: a resumed part file continues where it stopped: its bytes go
\* into the file it becomes and are never thrown away.
PartsSurvive ==
    [][\A e \in Blobs \cup Finals : Present(Part(e)) /\ inode'[Part(e)] = 0 =>
          inode'[e] = inode[Part(e)]]_vars

\* README.md:281: damaged rows "are requeued for the next `dl`": what a run then
\* settles is whole again.
RequeuedIsRepaired ==
    \A r \in requeued : status[r] = "done" => state[inode[path[r]]] = "whole"
=============================================================================
