-------------------------- MODULE DownloaderProofs --------------------------
(***************************************************************************)
(* Machine-checked facts about one run of the download manager, for every  *)
(* number of rows, chats and workers: its types, the single ownership of a *)
(* claimed row, that it implements the abstract ledger of claims, and what *)
(* its counters say about the rows.                                        *)
(***************************************************************************)
EXTENDS Downloader, TLAPS

\* A goroutine holds a file exactly between taking it and settling it, and
\* what it holds is no longer waiting for anybody.
Grip(w) ==
    /\ item[w] = NoItem <=> pc[w] \in {"idle", "exited"}
    /\ item[w] \notin batch
    /\ item[w] \notin sightings

\* What a worker holds is a claimed row, with budget left as long as it has
\* not entered its ladder; it leaves only when there is nothing to come.
ClaimGrip(w) ==
    /\ item[w] \in Items \cup {NoItem}
    /\ item[w] # NoItem => status[item[w]] = "downloading"
    /\ pc[w] \in {"received", "prepare"} => attempts[item[w]] < RetryMax
    /\ pc[w] = "exited" => feedAt = "closed"

\* The drain comes after the last worker, and to done rows.
DrainGrip ==
    /\ pc[Runner] # "idle" => \A w \in Workers : pc[w] = "exited"
    /\ pc[Runner] # "received"
    /\ item[Runner] \in Items => status[item[Runner]] = "done"
    /\ \A i \in sightings \cap Items : status[i] = "done"

\* Ownership read row by row, with what makes it inductive.
Hands ==
    /\ \A w \in Crew : Grip(w)
    /\ \A w \in Workers : ClaimGrip(w)
    /\ \A v, w \in Crew : item[v] = item[w] /\ v # w => item[v] = NoItem
    /\ \A i \in batch : status[i] = "downloading" /\ attempts[i] < RetryMax
    /\ feedAt # "send" => batch = {}
    /\ DrainGrip

IInv == TypeOK /\ Hands

\* The variables of TypeOK fall into those that describe rows and hands, and
\* the rest, which no ownership argument looks at.
RowTypes ==
    /\ status \in [Items -> Status]
    /\ attempts \in [Items -> 0..RetryMax]
    /\ batch \subseteq Items
    /\ feedAt \in {"claim", "send", "closed"}
    /\ sightings \subseteq Wanted
    /\ pc \in [Crew -> Point]
    /\ item \in [Crew -> Wanted \cup {NoItem}]
    /\ attempt \in [Crew -> 0..RetryMax]

SideTypes ==
    /\ runStatus \in {"running", "parked"}
    /\ resumeAt \in FloodWaits \cup {0}
    /\ parked \in FloodWaits \cup {0}
    /\ chats \subseteq Nat \ {0}
    /\ feedChat \in Nat
    /\ feedErr \in BOOLEAN
    /\ err \in [Crew -> ErrorClass \cup {"none"}]
    /\ wait \in [Crew -> FloodWaits \cup {0}]
    /\ runCancelled \in BOOLEAN
    /\ userCancelled \in BOOLEAN
    /\ count \in [Wanted -> [Outcome -> 0..CountMax]]

LEMMA TypesSplit == TypeOK <=> RowTypes /\ SideTypes
BY DEF TypeOK, RowTypes, SideTypes

\* The constants, as the proofs use them.
LEMMA Everybody ==
    ASSUME ItemsAssumption, ConfigAssumption
    PROVE  /\ Workers \subseteq Crew
           /\ Runner \in Crew \ Workers
           /\ \A w \in Crew : w \in Workers \/ w = Runner
           /\ Items \subseteq Wanted
           /\ NoItem \notin Wanted
BY DEF ItemsAssumption, ConfigAssumption, Crew, Wanted, NoItem

-----------------------------------------------------------------------------
(* Counters and store writes *)

LEMMA CountedType ==
    ASSUME count \in [Wanted -> [Outcome -> 0..CountMax]], NEW i \in Wanted,
           NEW o \in Outcome, Counted(i, o)
    PROVE  count' \in [Wanted -> [Outcome -> 0..CountMax]]
<1>1. Bump(count[i][o]) \in 0..CountMax
  BY DEF Bump, CountMax
<1> QED BY <1>1 DEF Counted

\* A write under bookCtx changes at most the row it names, and only its two
\* progress columns; for a sighting without a row it changes nothing.
LEMMA WriteRowEffect ==
    ASSUME RowTypes, NEW i, NEW s, NEW n,
           i \in Items => s \in Status /\ n \in 0..RetryMax,
           WriteRow(i, s, n)
    PROVE  /\ status' \in [Items -> Status]
           /\ attempts' \in [Items -> 0..RetryMax]
           /\ \A j \in Items \ {i} : status'[j] = status[j] /\ attempts'[j] = attempts[j]
           /\ \/ status' = status /\ attempts' = attempts
              \/ status'[i] = s /\ attempts'[i] = n
BY DEF WriteRow, RowTypes, rowVars

\* A charge changes nothing but the attempts of its row.
LEMMA RecordEffect ==
    ASSUME RowTypes, NEW i, NEW n \in 0..RetryMax, RecordAttempt(i, n)
    PROVE  /\ status' = status
           /\ attempts' \in [Items -> 0..RetryMax]
           /\ \A j \in Items \ {i} : attempts'[j] = attempts[j]
<1>1. WriteRow(i, status[i], n)
  BY DEF RecordAttempt
<1>2. CASE i \in Items /\ ~userCancelled
  <2>1. /\ status' = [status EXCEPT ![i] = status[i]]
        /\ attempts' = [attempts EXCEPT ![i] = n]
    BY <1>1, <1>2 DEF WriteRow
  <2> QED BY <2>1, <1>2 DEF RowTypes
<1>3. CASE ~(i \in Items /\ ~userCancelled)
  BY <1>1, <1>3 DEF WriteRow, rowVars, RowTypes
<1> QED BY <1>2, <1>3

-----------------------------------------------------------------------------
(* The two shapes most steps have *)

\* Nobody else holds what w holds, and it waits nowhere.
LEMMA Apart ==
    ASSUME ItemsAssumption, ConfigAssumption, RowTypes, Hands, NEW w \in Crew, item[w] # NoItem
    PROVE  /\ item[w] \in Wanted
           /\ w \in Workers => item[w] \in Items
           /\ pc[w] \notin {"idle", "exited"}
           /\ \A v \in Crew \ {w} : item[v] # item[w]
           /\ item[w] \notin batch
           /\ item[w] \notin sightings
           /\ w \in Workers => pc[Runner] = "idle"
<1>1. item[w] \in Wanted
  BY DEF RowTypes
<1>2. w \in Workers => item[w] \in Items
  BY DEF Hands, ClaimGrip
<1>3. /\ pc[w] \notin {"idle", "exited"}
      /\ item[w] \notin batch
      /\ item[w] \notin sightings
  BY DEF Hands, Grip
<1>4. \A v \in Crew \ {w} : item[v] # item[w]
  BY DEF Hands
<1>5. w \in Workers => pc[Runner] = "idle"
  BY <1>3 DEF Hands, DrainGrip
<1> QED BY <1>1, <1>2, <1>3, <1>4, <1>5

\* A goroutine that lets its row go, having changed no row but its own.
LEMMA LetGoKeepsHands ==
    ASSUME ItemsAssumption, ConfigAssumption, RowTypes, Hands, NEW w \in Crew,
           item[w] # NoItem,
           status' \in [Items -> Status], attempts' \in [Items -> 0..RetryMax],
           \A j \in Items \ {item[w]} :
              status'[j] = status[j] /\ attempts'[j] = attempts[j],
           BackToChannel(w), UNCHANGED <<batch, feedAt, sightings>>
    PROVE  RowTypes' /\ Hands'
<1>0. /\ Workers \subseteq Crew /\ Runner \in Crew \ Workers /\ NoItem \notin Wanted
      /\ \A v \in Crew : v \in Workers \/ v = Runner
      /\ Items \subseteq Wanted
  BY Everybody
<1>a. /\ pc[w] \notin {"idle", "exited"}
      /\ item[w] \notin batch
      /\ item[w] \notin sightings
      /\ w \in Workers => pc[Runner] = "idle"
      /\ \A v \in Crew \ {w} : item[v] # item[w]
  BY Apart
<1>1. RowTypes'
  BY DEF BackToChannel, ConfigAssumption, RowTypes, Point, NoItem
<1>b. /\ item'[w] = NoItem /\ pc'[w] = "idle"
      /\ \A v \in Crew \ {w} : item'[v] = item[v] /\ pc'[v] = pc[v]
  BY DEF BackToChannel, RowTypes
<1>2. ASSUME NEW v \in Crew PROVE Grip(v)'
  <2>1. CASE v = w
    BY <1>0, <1>1, <1>b, <2>1 DEF Grip, RowTypes
  <2>2. CASE v # w
    BY <1>b, <2>2 DEF Hands, Grip
  <2> QED BY <2>1, <2>2
<1>3. ASSUME NEW v \in Workers PROVE ClaimGrip(v)'
  <2>1. CASE v = w
    BY <1>b, <2>1 DEF ClaimGrip
  <2>2. CASE v # w
    <3>1. item'[v] = item[v] /\ pc'[v] = pc[v] /\ item[v] # item[w] /\ ClaimGrip(v) /\ Grip(v)
      BY <1>0, <1>a, <1>b, <2>2 DEF Hands
    <3>2. item[v] # NoItem => /\ status'[item[v]] = status[item[v]]
                              /\ attempts'[item[v]] = attempts[item[v]]
      BY <3>1 DEF ClaimGrip
    <3>3. pc[v] \in {"received", "prepare"} => item[v] # NoItem
      BY <3>1 DEF Grip
    <3> QED BY <3>1, <3>2, <3>3 DEF ClaimGrip
  <2> QED BY <2>1, <2>2
<1>4. \A u, v \in Crew : item'[u] = item'[v] /\ u # v => item'[u] = NoItem
  BY <1>b DEF Hands
<1>5. \A i \in batch' : status'[i] = "downloading" /\ attempts'[i] < RetryMax
  BY <1>a DEF Hands, RowTypes
<1>6. DrainGrip'
  <2>1. \A i \in sightings' \cap Items : status'[i] = "done"
    BY <1>a DEF Hands, DrainGrip
  <2>2. CASE w = Runner
    BY <1>0, <1>a, <1>b, <2>1, <2>2 DEF Hands, DrainGrip
  <2>3. CASE w # Runner
    <3>1. pc'[Runner] = "idle"
      BY <1>0, <1>a, <1>b, <2>3
    <3>2. item'[Runner] \notin Items
      BY <1>0, <1>2, <3>1 DEF Grip
    <3> QED BY <2>1, <3>1, <3>2 DEF DrainGrip
  <2> QED BY <2>2, <2>3
<1> QED BY <1>1, <1>2, <1>3, <1>4, <1>5, <1>6 DEF Hands

\* A goroutine that keeps its row and moves on inside processItem, having
\* changed no row but its own, whose status stays.
LEMMA MoveKeepsHands ==
    ASSUME ItemsAssumption, ConfigAssumption, RowTypes, Hands, NEW w \in Crew,
           item[w] # NoItem, NEW p \in Point \ {"idle", "exited", "received"},
           p = "prepare" => w \in Workers /\ pc[w] = "received" /\ attempts' = attempts,
           pc' = [pc EXCEPT ![w] = p],
           status' = status, attempts' \in [Items -> 0..RetryMax],
           attempt' \in [Crew -> 0..RetryMax],
           \A j \in Items \ {item[w]} : attempts'[j] = attempts[j],
           UNCHANGED <<item, batch, feedAt, sightings>>
    PROVE  RowTypes' /\ Hands'
<1>0. /\ Workers \subseteq Crew /\ Runner \in Crew \ Workers /\ NoItem \notin Wanted
      /\ \A v \in Crew : v \in Workers \/ v = Runner
      /\ Items \subseteq Wanted
  BY Everybody
<1>a. /\ pc[w] \notin {"idle", "exited"}
      /\ item[w] \notin batch
      /\ w \in Workers => pc[Runner] = "idle"
      /\ \A v \in Crew \ {w} : item[v] # item[w]
  BY Apart
<1>1. RowTypes'
  BY DEF RowTypes
<1>b. /\ pc'[w] = p
      /\ \A v \in Crew \ {w} : pc'[v] = pc[v]
  BY DEF RowTypes
<1>2. ASSUME NEW v \in Crew PROVE Grip(v)'
  BY <1>b DEF Hands, Grip
<1>3. ASSUME NEW v \in Workers PROVE ClaimGrip(v)'
  <2>1. CASE v = w
    BY <1>b, <2>1 DEF Hands, ClaimGrip
  <2>2. CASE v # w
    <3>1. pc'[v] = pc[v] /\ item[v] # item[w] /\ ClaimGrip(v) /\ Grip(v)
      BY <1>0, <1>a, <1>b, <2>2 DEF Hands
    <3>2. item[v] # NoItem => attempts'[item[v]] = attempts[item[v]]
      BY <3>1 DEF ClaimGrip
    <3>3. pc[v] \in {"received", "prepare"} => item[v] # NoItem
      BY <3>1 DEF Grip
    <3> QED BY <3>1, <3>2, <3>3 DEF ClaimGrip
  <2> QED BY <2>1, <2>2
<1>4. \A i \in batch' : status'[i] = "downloading" /\ attempts'[i] < RetryMax
  BY <1>a DEF Hands, RowTypes
<1>5. DrainGrip'
  <2>1. CASE w = Runner
    <3>1. p # "prepare" /\ p # "received" /\ \A v \in Workers : pc'[v] = pc[v]
      BY <1>0, <1>b, <2>1
    <3> QED BY <1>a, <1>b, <2>1, <3>1 DEF Hands, DrainGrip
  <2>2. CASE w # Runner
    <3>1. pc'[Runner] = "idle"
      BY <1>0, <1>a, <1>b, <2>2
    <3> QED BY <3>1 DEF Hands, DrainGrip
  <2> QED BY <2>1, <2>2
<1> QED BY <1>1, <1>2, <1>3, <1>4, <1>5 DEF Hands

-----------------------------------------------------------------------------
(* Every step keeps the invariant *)

LEMMA InitialStates ==
    ASSUME ItemsAssumption, ConfigAssumption, LeftoverAssumption, Init
    PROVE  IInv
<1> USE DEF Init
<1>1. PICK queued \in SUBSET Items \ {{}} :
         /\ chats = {ChatOf[i] : i \in queued}
         /\ \E left \in [Items \ queued -> LeftoverRows] :
               /\ status = [i \in Items |-> IF i \in queued THEN "queued" ELSE left[i][1]]
               /\ attempts = [i \in Items |-> IF i \in queued THEN 0 ELSE left[i][2]]
  OBVIOUS
<1>2. PICK left \in [Items \ queued -> LeftoverRows] :
         /\ status = [i \in Items |-> IF i \in queued THEN "queued" ELSE left[i][1]]
         /\ attempts = [i \in Items |-> IF i \in queued THEN 0 ELSE left[i][2]]
  BY <1>1
<1>3. \A i \in Items \ queued : left[i][1] \in Status /\ left[i][2] \in 0..RetryMax
  <2>1. \A i \in Items \ queued : left[i] \in Status \X (0..RetryMax)
    BY DEF LeftoverAssumption
  <2> QED BY <2>1
<1>4. status \in [Items -> Status]
  BY <1>2, <1>3 DEF Status
<1>5. attempts \in [Items -> 0..RetryMax]
  BY <1>2, <1>3 DEF ConfigAssumption
<1>6. chats \subseteq Nat \ {0}
  BY <1>1 DEF ItemsAssumption
<1>7. sightings \subseteq Wanted /\ \A i \in sightings \cap Items : status[i] = "done"
  BY DEF Wanted, ItemsAssumption
<1>8. RowTypes
  BY <1>4, <1>5, <1>7 DEF RowTypes, Point, NoItem, ConfigAssumption
<1>9. SideTypes
  <2>1. count \in [Wanted -> [Outcome -> 0..CountMax]]
    BY DEF CountMax
  <2>2. feedErr \in BOOLEAN /\ runCancelled \in BOOLEAN /\ userCancelled \in BOOLEAN
    OBVIOUS
  <2>3. feedChat \in Nat
    BY <1>6
  <2> QED BY <1>6, <2>1, <2>2, <2>3 DEF SideTypes
<1>10. Hands
  <2>1. /\ Workers \subseteq Crew /\ Runner \in Crew /\ NoItem \notin Wanted
    BY Everybody
  <2>2. \A w \in Crew : Grip(w)
    BY <1>7, <2>1 DEF Grip
  <2>3. \A w \in Workers : ClaimGrip(w)
    BY <2>1 DEF ClaimGrip
  <2>4. item[Runner] \notin Items
    BY <2>1 DEF Wanted
  <2>5. DrainGrip
    BY <1>7, <2>1, <2>4 DEF DrainGrip
  <2> QED BY <2>1, <2>2, <2>3, <2>5 DEF Hands
<1> QED BY <1>8, <1>9, <1>10, TypesSplit DEF IInv

\* One store write, one counter, and the goroutine is free again.
LEMMA SettleStep ==
    ASSUME ItemsAssumption, ConfigAssumption, IInv, NEW w \in Crew,
           item[w] # NoItem, NEW s \in Status, NEW n,
           item[w] \in Items => n \in 0..RetryMax,
           NEW o \in Outcome,
           WriteRow(item[w], s, n), Counted(item[w], o), LetGo(w)
    PROVE  IInv'
<1>1. RowTypes /\ SideTypes /\ Hands
  BY TypesSplit DEF IInv
<1>2. item[w] \in Wanted
  BY <1>1 DEF RowTypes
<1>3. /\ status' \in [Items -> Status]
      /\ attempts' \in [Items -> 0..RetryMax]
      /\ \A j \in Items \ {item[w]} : status'[j] = status[j] /\ attempts'[j] = attempts[j]
  BY <1>1, WriteRowEffect
<1>4. RowTypes' /\ Hands'
  BY <1>1, <1>3, LetGoKeepsHands DEF LetGo, feedVars
<1>5. count' \in [Wanted -> [Outcome -> 0..CountMax]]
  BY <1>1, <1>2, CountedType DEF SideTypes
<1>6. SideTypes'
  BY <1>1, <1>5 DEF SideTypes, LetGo, BackToChannel, runVars, feedVars, cancelVars
<1> QED BY <1>4, <1>6, TypesSplit DEF IInv, TypeOK, RowTypes, SideTypes

\* The verdicts the code knows are such settlements.
LEMMA VerdictStep ==
    ASSUME ItemsAssumption, ConfigAssumption, IInv, NEW w \in Crew,
           item[w] # NoItem,
           \/ \E n \in 0..RetryMax : failItem(w, n)
           \/ interruptItem(w)
           \/ skipItem(w)
           \/ linkBlobInto(w)
           \/ MarkDone(item[w]) /\ Counted(item[w], "downloaded") /\ LetGo(w)
    PROVE  IInv'
<1> USE DEF Status, Outcome
<1>1. item[w] \in Items => attempts[item[w]] \in 0..RetryMax
  BY DEF IInv, TypeOK
<1>2. 0 \in 0..RetryMax
  BY DEF ConfigAssumption
<1>3. ASSUME NEW n \in 0..RetryMax, failItem(w, n) PROVE IInv'
  BY <1>3, SettleStep DEF failItem, MarkFailed
<1>4. ASSUME interruptItem(w) PROVE IInv'
  BY <1>2, <1>4, SettleStep DEF interruptItem, MarkInterrupted
<1>5. ASSUME NEW o \in Outcome, MarkDone(item[w]), Counted(item[w], o), LetGo(w)
      PROVE  IInv'
  BY <1>1, <1>5, SettleStep DEF MarkDone
<1> QED BY <1>3, <1>4, <1>5 DEF skipItem, linkBlobInto

\* A goroutine that moves on with its row in hand; its own row may be charged.
LEMMA MoveStep ==
    ASSUME ItemsAssumption, ConfigAssumption, IInv, NEW w \in Crew,
           item[w] # NoItem, NEW p \in Point \ {"idle", "exited", "received"},
           p = "prepare" => w \in Workers /\ pc[w] = "received" /\ UNCHANGED rowVars,
           pc' = [pc EXCEPT ![w] = p],
           UNCHANGED rowVars \/ \E n \in 0..RetryMax : RecordAttempt(item[w], n),
           attempt' \in [Crew -> 0..RetryMax],
           UNCHANGED <<item, feedVars, cancelVars, count, parked>>,
           runStatus' \in {"running", "parked"},
           resumeAt' \in FloodWaits \cup {0},
           err' \in [Crew -> ErrorClass \cup {"none"}],
           wait' \in [Crew -> FloodWaits \cup {0}]
    PROVE  IInv'
<1>1. RowTypes /\ SideTypes /\ Hands
  BY TypesSplit DEF IInv
<1>3. /\ status' = status
      /\ attempts' \in [Items -> 0..RetryMax]
      /\ \A j \in Items \ {item[w]} : attempts'[j] = attempts[j]
  <2>1. CASE UNCHANGED rowVars
    BY <1>1, <2>1 DEF RowTypes, rowVars
  <2>2. ASSUME NEW n \in 0..RetryMax, RecordAttempt(item[w], n)
        PROVE  <1>3!1 /\ <1>3!2 /\ <1>3!3
    BY <1>1, <2>2, RecordEffect
  <2> QED BY <2>1, <2>2
<1>4. RowTypes' /\ Hands'
  BY <1>1, <1>3, MoveKeepsHands DEF feedVars, rowVars
<1>5. SideTypes'
  BY <1>1 DEF SideTypes, feedVars, cancelVars
<1> QED BY <1>4, <1>5 DEF IInv, TypeOK, RowTypes, SideTypes

\* The feeder at work means that some worker has not left.
LEMMA DrainWaits ==
    ASSUME ItemsAssumption, ConfigAssumption, Hands, feedAt # "closed"
    PROVE  pc[Runner] = "idle"
BY DEF Hands, ClaimGrip, DrainGrip, ConfigAssumption

LEMMA FeedStep ==
    ASSUME ItemsAssumption, ConfigAssumption, IInv, Feed
    PROVE  IInv'
<1>1. RowTypes /\ SideTypes /\ Hands
  BY TypesSplit DEF IInv
<1>2. CASE FeedClaim
  <2>1. batch' \subseteq Claimable(feedChat)
    BY <1>2 DEF FeedClaim, FirstOf
  <2>2. \A i \in batch' : i \in Items /\ status[i] \in {"queued", "failed"} /\ attempts[i] < RetryMax
    BY <2>1 DEF Claimable
  <2>3. RowTypes'
    BY <1>1, <1>2, <2>2 DEF FeedClaim, RowTypes, Status, workVars
  <2>4. SideTypes'
    BY <1>1, <1>2 DEF FeedClaim, SideTypes, runVars, workVars, cancelVars
  <2>5. Hands'
    <3>0. /\ \A w \in Crew : w \in Workers \/ w = Runner
          /\ Runner \in Crew /\ Workers \subseteq Crew /\ NoItem \notin Wanted
          /\ Items \subseteq Wanted
      BY Everybody
    <3>1. /\ UNCHANGED <<pc, item, attempts, sightings>>
          /\ feedAt = "claim" /\ feedAt' = "send"
          /\ \A i \in Items : status'[i] = IF i \in batch' THEN "downloading" ELSE status[i]
      BY <1>2 DEF FeedClaim, workVars
    <3>2. pc[Runner] = "idle"
      BY <1>1, <3>1, DrainWaits
    <3>3. \A w \in Crew : Grip(w)'
      <4>1. ASSUME NEW w \in Crew PROVE item[w] \notin batch'
        <5>1. CASE w \in Workers
          BY <1>1, <2>2, <3>0, <5>1 DEF Hands, ClaimGrip, NoItem, ItemsAssumption
        <5>2. CASE w = Runner
          BY <1>1, <2>2, <3>0, <3>2, <5>2 DEF Hands, Grip
        <5> QED BY <3>0, <5>1, <5>2
      <4> QED BY <1>1, <3>1, <4>1 DEF Hands, Grip
    <3>4. \A w \in Workers : ClaimGrip(w)'
      BY <1>1, <3>1 DEF Hands, ClaimGrip
    <3>5. DrainGrip'
      BY <1>1, <2>2, <3>0, <3>1, <3>2 DEF Hands, Grip, DrainGrip
    <3>6. \A i \in batch' : status'[i] = "downloading" /\ attempts'[i] < RetryMax
      BY <2>2, <3>1
    <3> QED BY <1>1, <3>1, <3>3, <3>4, <3>5, <3>6 DEF Hands
  <2> QED BY <2>3, <2>4, <2>5, TypesSplit DEF IInv, TypeOK, RowTypes, SideTypes
<1>3. CASE FeedNextChat
  <2>1. feedChat' \in Nat
    BY <1>1, <1>3 DEF FeedNextChat, ChatsAfter, IsFirst, SideTypes, NoChat
  <2>2. SideTypes'
    BY <1>1, <1>3, <2>1 DEF FeedNextChat, SideTypes, runVars, workVars, cancelVars
  <2>3. RowTypes' /\ Hands'
    BY <1>1, <1>3 DEF FeedNextChat, RowTypes, Hands, Grip, ClaimGrip, DrainGrip, rowVars, workVars
  <2> QED BY <2>2, <2>3, TypesSplit DEF IInv, TypeOK, RowTypes, SideTypes
<1>4. ASSUME CloseFeed, feedErr' \in BOOLEAN PROVE IInv'
  <2>1. SideTypes'
    BY <1>1, <1>4 DEF CloseFeed, SideTypes, runVars, workVars, cancelVars
  <2>2. RowTypes' /\ Hands'
    BY <1>1, <1>4 DEF CloseFeed, RowTypes, Hands, Grip, ClaimGrip, DrainGrip, rowVars, workVars
  <2> QED BY <2>1, <2>2, TypesSplit DEF IInv, TypeOK, RowTypes, SideTypes
<1>5. CASE FeedClose
  BY <1>1, <1>4, <1>5 DEF FeedClose, SideTypes
<1>6. CASE FeedError
  BY <1>4, <1>6 DEF FeedError
<1> QED BY <1>2, <1>3, <1>5, <1>6 DEF Feed

LEMMA ReceiveStep ==
    ASSUME ItemsAssumption, ConfigAssumption, IInv, NEW w \in Workers, Receive(w)
    PROVE  IInv'
<1>1. RowTypes /\ SideTypes /\ Hands
  BY TypesSplit DEF IInv
<1>2. PICK i \in batch : /\ item' = [item EXCEPT ![w] = i]
                         /\ batch' = batch \ {i}
                         /\ feedAt' = IF batch = {i} THEN "claim" ELSE "send"
  BY DEF Receive
<1>0. /\ \A v \in Crew : v \in Workers \/ v = Runner
      /\ Runner \in Crew \ Workers /\ Workers \subseteq Crew /\ NoItem \notin Wanted
      /\ Items \subseteq Wanted /\ w \in Crew
  BY Everybody
<1>3. i \in Items /\ i # NoItem /\ i \in Wanted
  BY <1>0, <1>1 DEF RowTypes
<1>4. SideTypes'
  BY <1>1 DEF Receive, SideTypes, runVars, cancelVars
<1>5. RowTypes'
  BY <1>0, <1>1, <1>2, <1>3 DEF Receive, RowTypes, Point, rowVars
<1>6. Hands'
  <2>1. /\ UNCHANGED <<status, attempts, sightings>>
        /\ item'[w] = i /\ pc'[w] = "received" /\ pc[w] = "idle"
        /\ \A v \in Crew \ {w} : item'[v] = item[v] /\ pc'[v] = pc[v]
        /\ feedAt = "send"
    BY <1>0, <1>1, <1>2 DEF Receive, RowTypes, rowVars
  <2>2. i \notin sightings
    BY <1>1, <1>3 DEF Hands, DrainGrip
  <2>3. pc[Runner] = "idle"
    BY <1>1, <2>1, DrainWaits
  <2>4. ASSUME NEW v \in Crew PROVE Grip(v)'
    <3>1. CASE v = w
      BY <1>2, <1>3, <2>1, <2>2, <3>1 DEF Grip
    <3>2. CASE v # w
      BY <1>1, <1>2, <2>1, <3>2 DEF Hands, Grip
    <3> QED BY <3>1, <3>2
  <2>5. ASSUME NEW v \in Workers PROVE ClaimGrip(v)'
    <3>1. CASE v = w
      BY <1>1, <1>3, <2>1, <3>1 DEF Hands, ClaimGrip
    <3>2. CASE v # w
      <4>1. pc[v] # "exited"
        BY <1>1, <2>1 DEF Hands, ClaimGrip
      <4>2. item'[v] = item[v] /\ pc'[v] = pc[v]
        BY <1>0, <2>1, <3>2
      <4> QED BY <1>1, <2>1, <4>1, <4>2 DEF Hands, ClaimGrip
    <3> QED BY <3>1, <3>2
  <2>6. \A u, v \in Crew : item'[u] = item'[v] /\ u # v => item'[u] = NoItem
    BY <1>1, <1>2, <2>1 DEF Hands, Grip
  <2>7. \A j \in batch' : status'[j] = "downloading" /\ attempts'[j] < RetryMax
    BY <1>1, <1>2, <2>1 DEF Hands
  <2>8. feedAt' # "send" => batch' = {}
    BY <1>2
  <2>9. DrainGrip'
    BY <1>0, <1>1, <2>1, <2>3 DEF Hands, Grip, DrainGrip
  <2> QED BY <2>4, <2>5, <2>6, <2>7, <2>8, <2>9 DEF Hands
<1> QED BY <1>4, <1>5, <1>6, TypesSplit DEF IInv, TypeOK, RowTypes, SideTypes

\* A goroutine past the channel holds a file; its ladder counter fits a column.
LEMMA BusyWorker ==
    ASSUME ItemsAssumption, ConfigAssumption, IInv, NEW w \in Crew, pc[w] \notin {"idle", "exited"}
    PROVE  /\ item[w] # NoItem
           /\ item[w] \in Wanted
           /\ w \in Workers => item[w] \in Items
           /\ attempt[w] \in 0..RetryMax
           /\ runStatus \in {"running", "parked"}
           /\ resumeAt \in FloodWaits \cup {0}
           /\ wait[w] \in FloodWaits \cup {0}
<1>1. item[w] # NoItem
  BY DEF IInv, Hands, Grip
<1>2. item[w] \in Wanted
  BY <1>1 DEF IInv, TypeOK
<1>3. w \in Workers => item[w] \in Items
  BY <1>1 DEF IInv, Hands, ClaimGrip
<1> QED BY <1>1, <1>2, <1>3 DEF IInv, TypeOK

\* Discard, ParkCancel, DrainThere: free again without a verdict.
LEMMA DropStep ==
    ASSUME ItemsAssumption, ConfigAssumption, IInv, NEW w \in Crew,
           item[w] # NoItem, BackToChannel(w),
           UNCHANGED <<rowVars, runStatus, resumeAt, feedVars, userCancelled, count>>,
           parked' \in FloodWaits \cup {0}, runCancelled' \in BOOLEAN
    PROVE  IInv'
<1>1. RowTypes /\ SideTypes /\ Hands
  BY TypesSplit DEF IInv
<1>2. RowTypes' /\ Hands'
  BY <1>1, LetGoKeepsHands DEF RowTypes, rowVars, feedVars
<1>3. SideTypes'
  BY <1>1 DEF SideTypes, BackToChannel, feedVars
<1> QED BY <1>2, <1>3 DEF IInv, TypeOK, RowTypes, SideTypes

LEMMA GotoStep ==
    ASSUME ItemsAssumption, ConfigAssumption, IInv, NEW w \in Crew,
           item[w] # NoItem, NEW p \in Point \ {"idle", "exited", "received"},
           p = "prepare" => w \in Workers /\ pc[w] = "received",
           Goto(w, p)
    PROVE  IInv'
BY MoveStep DEF Goto, runVars, workVars, IInv, TypeOK

LEMMA FailsStep ==
    ASSUME ItemsAssumption, ConfigAssumption, IInv, NEW w \in Crew,
           item[w] # NoItem, NEW e \in ErrorClass, NEW seconds \in FloodWaits \cup {0},
           Fails(w, e, seconds)
    PROVE  IInv'
<1>1. /\ err' \in [Crew -> ErrorClass \cup {"none"}]
      /\ wait' \in [Crew -> FloodWaits \cup {0}]
  BY DEF Fails, IInv, TypeOK
<1>2. "failure" \in Point \ {"idle", "exited", "received"} /\ "failure" # "prepare"
  BY DEF Point
<1> QED BY <1>1, <1>2, MoveStep DEF Fails, runVars, IInv, TypeOK

LEMMA LadderStep ==
    ASSUME ItemsAssumption, ConfigAssumption, IInv, NEW w \in Crew, Ladder(w)
    PROVE  IInv'
<1>busy. pc[w] \notin {"idle", "exited"} =>
           /\ item[w] # NoItem
           /\ attempt[w] \in 0..RetryMax
           /\ runStatus \in {"running", "parked"}
           /\ resumeAt \in FloodWaits \cup {0}
           /\ wait[w] \in FloodWaits \cup {0}
  BY BusyWorker
<1>max. RetryMax \in 0..RetryMax
  BY DEF ConfigAssumption
<1>8. CASE StartFetch(w)
  BY <1>8, <1>busy, GotoStep DEF StartFetch, Point
<1>9. CASE PaceCancelled(w)
  BY <1>9, <1>busy, FailsStep DEF PaceCancelled, ErrorClass
<1>10. CASE FetchSucceeds(w)
  BY <1>10, <1>busy, GotoStep DEF FetchSucceeds, Point
<1>11. CASE FetchFails(w)
  <2>1. PICK e \in ErrorClass, seconds \in FloodWaits \cup {0} : Fails(w, e, seconds)
    BY <1>11 DEF FetchFails, ErrorClass
  <2> QED BY <1>11, <1>busy, <2>1, FailsStep DEF FetchFails
<1>12. CASE Promote(w)
  BY <1>12, <1>busy, VerdictStep DEF Promote
<1>13. CASE PromoteFails(w)
  BY <1>13, <1>busy, FailsStep DEF PromoteFails, ErrorClass
<1>14. CASE SettleCancelled(w)
  BY <1>14, <1>busy, VerdictStep DEF SettleCancelled
<1>27. CASE SettleInterrupted(w)
  BY <1>27, <1>busy, VerdictStep DEF SettleInterrupted
<1>28. CASE LookAgain(w)
  BY <1>28, <1>busy, GotoStep DEF LookAgain, Point
<1>15. CASE SettleFatal(w)
  BY <1>15, <1>busy, <1>max, VerdictStep DEF SettleFatal
<1>16. CASE Park(w)
  BY <1>16, <1>busy, GotoStep DEF Park, Point
<1>17. CASE ParkRecord(w)
  <2>1. "parkFinish" \in Point \ {"idle", "exited", "received"} /\ "parkFinish" # "prepare"
    BY DEF Point
  <2> QED BY <1>17, <1>busy, <2>1, MoveStep DEF ParkRecord, IInv, TypeOK
<1>18. CASE ParkFinish(w)
  <2>1. "parkCancel" \in Point \ {"idle", "exited", "received"} /\ "parkCancel" # "prepare"
    BY DEF Point
  <2> QED BY <1>18, <1>busy, <2>1, MoveStep DEF ParkFinish, IInv, TypeOK
<1>19. CASE ParkCancel(w)
  BY <1>19, <1>busy, DropStep DEF ParkCancel
<1>20. CASE RefetchFatal(w)
  BY <1>20, <1>busy, VerdictStep DEF RefetchFatal
<1>21. CASE KeepTrying(w)
  BY <1>21, <1>busy, GotoStep DEF KeepTrying, Point
<1>22. CASE ChargeAttempt(w)
  <2>1. "backoff" \in Point \ {"idle", "exited", "received"} /\ "backoff" # "prepare"
    BY DEF Point
  <2> QED BY <1>22, <1>busy, <2>1, MoveStep DEF ChargeAttempt, runVars, IInv, TypeOK
<1>23. CASE BackoffCancelled(w)
  BY <1>23, <1>busy, VerdictStep DEF BackoffCancelled
<1>24. CASE Retry(w)
  <2>1. attempt' \in [Crew -> 0..RetryMax]
    BY <1>24, <1>busy DEF Retry, IInv, TypeOK, ConfigAssumption
  <2>2. "pace" \in Point \ {"idle", "exited", "received"} /\ "pace" # "prepare"
    BY DEF Point
  <2> QED BY <1>24, <1>busy, <2>1, <2>2, MoveStep DEF Retry, runVars, IInv, TypeOK
<1>25. CASE Exhaust(w)
  BY <1>25, <1>busy, VerdictStep DEF Exhaust
<1> QED
  BY <1>8, <1>9, <1>10, <1>11, <1>12, <1>13,
     <1>14, <1>15, <1>16, <1>17, <1>18, <1>19, <1>20, <1>21, <1>22, <1>23, <1>24, <1>25,
     <1>27, <1>28 DEF Ladder

LEMMA WorkStep ==
    ASSUME ItemsAssumption, ConfigAssumption, IInv, NEW w \in Workers, Work(w)
    PROVE  IInv'
<1>crew. w \in Crew
  BY Everybody
<1>busy. pc[w] \notin {"idle", "exited"} =>
           /\ item[w] # NoItem
           /\ item[w] \in Items
           /\ attempt[w] \in 0..RetryMax
  BY <1>crew, BusyWorker
<1>max. RetryMax \in 0..RetryMax
  BY DEF ConfigAssumption
<1>1. CASE Receive(w)
  BY <1>1, ReceiveStep
<1>2. CASE Discard(w)
  BY <1>2, <1>crew, <1>busy, DropStep DEF Discard, LetGo, runVars, cancelVars, IInv, TypeOK
<1>3. CASE TakeUp(w)
  BY <1>3, <1>crew, <1>busy, GotoStep DEF TakeUp, Point
<1>4. CASE PrecheckFails(w)
  <2>1. PrecheckAttempts \in 0..RetryMax
    BY DEF PrecheckAttempts, ConfigAssumption
  <2> QED BY <1>4, <1>crew, <1>busy, <2>1, VerdictStep DEF PrecheckFails
<1>5. CASE PrepareFails(w)
  BY <1>5, <1>crew, <1>busy, <1>max, VerdictStep DEF PrepareFails
<1>6. CASE SkipPresent(w)
  BY <1>6, <1>crew, <1>busy, VerdictStep DEF SkipPresent
<1>7. CASE LinkFromBlob(w)
  BY <1>7, <1>crew, <1>busy, VerdictStep DEF LinkFromBlob
<1>8. CASE StartLadder(w)
  <2>1. item[w] # NoItem /\ item[w] \in Items /\ attempts[item[w]] \in 0..RetryMax
    BY <1>8, <1>busy DEF StartLadder, IInv, TypeOK
  <2>2. attempts[item[w]] < RetryMax
    BY <1>8 DEF StartLadder, IInv, Hands, ClaimGrip
  <2>3. attempts[item[w]] + 1 \in 0..RetryMax
    BY <2>1, <2>2 DEF ConfigAssumption
  <2>4. attempt' \in [Crew -> 0..RetryMax]
    BY <1>8, <2>3 DEF StartLadder, IInv, TypeOK
  <2>5. "pace" \in Point \ {"idle", "exited", "received"} /\ "pace" # "prepare"
    BY DEF Point
  <2> QED BY <1>8, <1>crew, <2>1, <2>4, <2>5, MoveStep DEF StartLadder, runVars, IInv, TypeOK
<1>9. CASE Ladder(w)
  BY <1>9, <1>crew, LadderStep
<1>10. CASE Exit(w)
  <2>1. RowTypes /\ SideTypes /\ Hands
    BY TypesSplit DEF IInv
  <2>2. RowTypes' /\ SideTypes'
    BY <1>10, <2>1 DEF Exit, Goto, RowTypes, SideTypes, Point,
                       rowVars, runVars, feedVars, cancelVars
  <2>3. /\ UNCHANGED <<item, batch, sightings, feedAt, status, attempts>>
        /\ pc'[w] = "exited" /\ pc[w] = "idle" /\ feedAt = "closed"
        /\ \A v \in Crew \ {w} : pc'[v] = pc[v]
    BY <1>10, <1>crew, <2>1 DEF Exit, Goto, RowTypes, rowVars, feedVars
  <2>4. Workers \subseteq Crew /\ Runner \in Crew \ Workers
    BY Everybody
  <2>5. (\A v \in Crew : Grip(v)') /\ (\A v \in Workers : ClaimGrip(v)')
    BY <2>1, <2>3, <2>4 DEF Hands, Grip, ClaimGrip
  <2>6. DrainGrip'
    BY <2>1, <2>3, <2>4 DEF Hands, DrainGrip
  <2>7. Hands'
    BY <2>1, <2>3, <2>5, <2>6 DEF Hands
  <2> QED BY <2>2, <2>7 DEF IInv, TypeOK, RowTypes, SideTypes
<1> QED BY <1>1, <1>2, <1>3, <1>4, <1>5, <1>6, <1>7, <1>8, <1>9, <1>10 DEF Work

LEMMA RunnerStep ==
    ASSUME ItemsAssumption, ConfigAssumption, IInv, Drain
    PROVE  IInv'
<1>crew. /\ Runner \in Crew \ Workers /\ Workers \subseteq Crew
         /\ NoItem \notin Wanted /\ Items \subseteq Wanted
  BY Everybody
<1>inv. RowTypes /\ SideTypes /\ Hands
  BY TypesSplit DEF IInv
<1>busy. pc[Runner] = "prepare" => item[Runner] # NoItem
  BY <1>crew, BusyWorker
<1>max. RetryMax \in 0..RetryMax /\ 1 \in 0..RetryMax
  BY DEF ConfigAssumption
<1>1. ASSUME NEW i \in sightings, DrainTake(i) PROVE IInv'
  <2>1. i \in Wanted /\ i # NoItem
    BY <1>crew, <1>inv DEF RowTypes
  <2>2. RowTypes' /\ SideTypes'
    BY <1>1, <1>crew, <1>inv, <2>1 DEF DrainTake, RowTypes, SideTypes, Point, rowVars, runVars, cancelVars
  <2>3. /\ UNCHANGED <<batch, feedAt, status, attempts>>
        /\ sightings' = sightings \ {i}
        /\ item'[Runner] = i /\ pc'[Runner] = "prepare"
        /\ \A v \in Crew \ {Runner} : item'[v] = item[v] /\ pc'[v] = pc[v]
        /\ \A v \in Workers : pc[v] = "exited"
    BY <1>1, <1>crew, <1>inv DEF DrainTake, RowTypes, rowVars
  <2>4. batch = {}
    BY <1>inv, <2>3 DEF Hands, ClaimGrip, ConfigAssumption
  <2>5. \A v \in Crew : Grip(v)'
    BY <1>inv, <2>1, <2>3, <2>4 DEF Hands, Grip
  <2>6. \A v \in Workers : ClaimGrip(v)'
    BY <1>crew, <1>inv, <2>3 DEF Hands, ClaimGrip
  <2>7. DrainGrip'
    BY <1>crew, <1>inv, <2>1, <2>3 DEF Hands, DrainGrip
  <2>8. \A u, v \in Crew : item'[u] = item'[v] /\ u # v => item'[u] = NoItem
    BY <1>inv, <2>1, <2>3 DEF Hands, Grip
  <2>9. Hands'
    BY <1>inv, <2>3, <2>4, <2>5, <2>6, <2>7, <2>8 DEF Hands
  <2> QED BY <2>2, <2>9 DEF IInv, TypeOK, RowTypes, SideTypes
<1>2. CASE DrainThere
  BY <1>2, <1>crew, <1>busy, DropStep DEF DrainThere, LetGo, runVars, cancelVars, IInv, TypeOK
<1>3. CASE DrainUnserved
  <2>1. item[Runner] # NoItem /\ item[Runner] \in Wanted
    BY <1>3, <1>busy, <1>crew, BusyWorker DEF DrainUnserved
  <2>2. RowTypes' /\ Hands'
    BY <1>3, <1>crew, <1>inv, <2>1, LetGoKeepsHands
       DEF DrainUnserved, RowTypes, rowVars, feedVars, LetGo
  <2>3. count' \in [Wanted -> [Outcome -> 0..CountMax]]
    BY <1>3, <1>inv, <2>1, CountedType DEF DrainUnserved, SideTypes, Outcome
  <2>4. SideTypes'
    BY <1>3, <1>inv, <2>3 DEF DrainUnserved, SideTypes, LetGo, BackToChannel, runVars, feedVars, cancelVars
  <2> QED BY <2>2, <2>4 DEF IInv, TypeOK, RowTypes, SideTypes
<1>4. CASE DrainLinks
  BY <1>4, <1>crew, <1>busy, VerdictStep DEF DrainLinks
<1>5. CASE DrainOpenFails
  BY <1>5, <1>crew, <1>busy, <1>max, VerdictStep DEF DrainOpenFails
<1>6. CASE DrainOpens
  <2>1. attempt' \in [Crew -> 0..RetryMax]
    BY <1>6, <1>max, <1>inv DEF DrainOpens, RowTypes
  <2>2. "pace" \in Point \ {"idle", "exited", "received"} /\ "pace" # "prepare"
    BY DEF Point
  <2> QED BY <1>6, <1>crew, <1>busy, <2>1, <2>2, MoveStep DEF DrainOpens, runVars, IInv, TypeOK
<1>7. CASE Ladder(Runner)
  BY <1>7, <1>crew, LadderStep
<1>8. CASE DrainEnds
  <2>1. RowTypes' /\ SideTypes'
    BY <1>8, <1>inv DEF DrainEnds, Goto, RowTypes, SideTypes, Point,
                        rowVars, runVars, feedVars, cancelVars
  <2>2. /\ UNCHANGED <<item, batch, sightings, feedAt, status, attempts>>
        /\ pc'[Runner] = "exited" /\ pc[Runner] = "idle"
        /\ \A v \in Crew \ {Runner} : pc'[v] = pc[v]
        /\ \A v \in Workers : pc[v] = "exited"
    BY <1>8, <1>crew, <1>inv DEF DrainEnds, Goto, RowTypes, rowVars, feedVars
  <2>3. (\A v \in Crew : Grip(v)') /\ (\A v \in Workers : ClaimGrip(v)')
    BY <1>crew, <1>inv, <2>2 DEF Hands, Grip, ClaimGrip
  <2>4. DrainGrip'
    BY <1>crew, <1>inv, <2>2 DEF Hands, DrainGrip
  <2>5. Hands'
    BY <1>inv, <2>2, <2>3, <2>4 DEF Hands
  <2> QED BY <2>1, <2>5 DEF IInv, TypeOK, RowTypes, SideTypes
<1> QED BY <1>1, <1>2, <1>3, <1>4, <1>5, <1>6, <1>7, <1>8 DEF Drain

LEMMA NextStep ==
    ASSUME ItemsAssumption, ConfigAssumption, IInv, [Next]_vars
    PROVE  IInv'
<1>1. CASE UNCHANGED vars
  BY <1>1 DEF vars, rowVars, runVars, feedVars, workVars, cancelVars, IInv, TypeOK,
              Hands, Grip, ClaimGrip, DrainGrip
<1>2. CASE UserCancel
  BY <1>2 DEF UserCancel, rowVars, runVars, feedVars, workVars, IInv, TypeOK,
              Hands, Grip, ClaimGrip, DrainGrip
<1> QED BY <1>1, <1>2, FeedStep, WorkStep, RunnerStep DEF Next, Returned

-----------------------------------------------------------------------------
(* The theorems *)

\* The invariant that carries the others.
THEOREM Invariance == Spec => []IInv
<1>1. Init => IInv
  BY InitialStates, ItemsAssumption, ConfigAssumption, LeftoverAssumption
<1>2. IInv /\ [Next]_vars => IInv'
  BY NextStep, ItemsAssumption, ConfigAssumption
<1> QED BY <1>1, <1>2, PTL DEF Spec

\* Columns, counters and program points keep their types whatever the number
\* of rows and workers; in particular no ladder exceeds RetryMax.
THEOREM TypeCorrect == Spec => []TypeOK
<1>1. IInv => TypeOK
  BY DEF IInv
<1> QED BY <1>1, Invariance, PTL

\* No two goroutines, and none of them and the feeder, ever hold the same row,
\* and a claimed row is always marked downloading in the store.
THEOREM ClaimsAreExclusive == Spec => []SingleOwner
<1>1. IInv => SingleOwner
  BY DEF IInv, Hands, Grip, ClaimGrip, SingleOwner, Owned, Held
<1> QED BY <1>1, Invariance, PTL
-----------------------------------------------------------------------------
(* Refinement of the claim ledger *)

LEMMA LetGoReleases ==
    ASSUME ItemsAssumption, ConfigAssumption, IInv, NEW w \in Crew, item[w] # NoItem,
           item' = [item EXCEPT ![w] = NoItem], batch' = batch
    PROVE  /\ InHand' = InHand \ {item[w]}
           /\ item[w] \in Items => item[w] \in InHand
           /\ Owned \subseteq Owned' \cup {item[w]}
           /\ Owned' \subseteq Owned
           /\ w = Runner => Owned' = Owned
<1>0. /\ \A v \in Crew : v \in Workers \/ v = Runner
      /\ Runner \in Crew \ Workers /\ Workers \subseteq Crew
      /\ NoItem \notin Items
  BY Everybody
<1>1. item \in [Crew -> Wanted \cup {NoItem}] /\ RowTypes /\ Hands
  BY TypesSplit DEF IInv, TypeOK
<1>2. \A v \in Crew \ {w} : item[v] # item[w] /\ item'[v] = item[v]
  BY <1>1, Apart
<1>3. item'[w] = NoItem
  BY <1>1
<1>4. item[w] \notin batch
  BY <1>1, Apart
<1>5. w \in Workers => item[w] \in Items
  BY <1>1, Apart
<1>6. CASE w \in Workers
  <2>1. Held' = Held \ {item[w]}
    BY <1>0, <1>2, <1>3, <1>6 DEF Held
  <2>2. item'[Runner] = item[Runner] /\ item[Runner] # item[w]
    BY <1>0, <1>2, <1>6
  <2>3. item[w] \in Held
    BY <1>6 DEF Held
  <2> QED BY <1>0, <1>4, <1>6, <2>1, <2>2, <2>3 DEF InHand, Owned
<1>7. CASE w = Runner
  <2>1. Held' = Held /\ item[w] \notin Held
    BY <1>0, <1>2, <1>7 DEF Held
  <2> QED BY <1>0, <1>3, <1>4, <1>7, <2>1 DEF InHand, Owned
<1> QED BY <1>0, <1>6, <1>7

LEMMA HandsKept ==
    ASSUME UNCHANGED <<item, batch>>
    PROVE  Owned' = Owned /\ InHand' = InHand
BY DEF InHand, Owned, Held

\* A settlement is one ledger step: a verdict; or, when the store write is
\* lost to the user's cancellation, a claim given up; or, when there is no
\* row, none at all.
LEMMA SettleRefines ==
    ASSUME ItemsAssumption, ConfigAssumption, IInv, NEW w \in Crew,
           item[w] # NoItem, NEW s \in {"done", "failed", "downloading"}, NEW n,
           item[w] \in Items => n \in 0..RetryMax, s = "downloading" => n = 0,
           WriteRow(item[w], s, n), LetGo(w)
    PROVE  [Ledger!Next]_(Ledger!ledgerVars)
<1>1. UNCHANGED feedAt
  BY DEF LetGo, feedVars
<1>2. /\ InHand' = InHand \ {item[w]}
      /\ item[w] \in Items => item[w] \in InHand
  BY LetGoReleases DEF LetGo, BackToChannel, feedVars
<1>3. CASE item[w] \notin Items
  <2>1. item[w] \notin InHand
    BY <1>3 DEF InHand, Owned, Held, IInv, TypeOK, Hands, ClaimGrip
  <2> QED BY <1>1, <1>2, <1>3, <2>1 DEF WriteRow, rowVars, Ledger!ledgerVars
<1>4. CASE item[w] \in Items /\ userCancelled
  <2>1. Ledger!GiveUp({item[w]})
    BY <1>1, <1>2, <1>4 DEF Ledger!GiveUp, WriteRow, rowVars
  <2> QED BY <1>4, <2>1 DEF Ledger!Next
<1>5. CASE item[w] \in Items /\ ~userCancelled
  <2>1. Ledger!Settle(item[w], s, n)
    BY <1>1, <1>2, <1>5 DEF Ledger!Settle, WriteRow
  <2> QED BY <1>5, <2>1 DEF Ledger!Next
<1> QED BY <1>3, <1>4, <1>5

LEMMA VerdictRefines ==
    ASSUME ItemsAssumption, ConfigAssumption, IInv, NEW w \in Crew,
           item[w] # NoItem,
           \/ \E n \in 0..RetryMax : failItem(w, n)
           \/ interruptItem(w)
           \/ skipItem(w)
           \/ linkBlobInto(w)
           \/ MarkDone(item[w]) /\ LetGo(w)
    PROVE  [Ledger!Next]_(Ledger!ledgerVars)
<1>1. item[w] \in Items => attempts[item[w]] \in 0..RetryMax
  BY DEF IInv, TypeOK
<1>2. 0 \in 0..RetryMax
  BY DEF ConfigAssumption
<1>3. ASSUME NEW n \in 0..RetryMax, failItem(w, n) PROVE [Ledger!Next]_(Ledger!ledgerVars)
  BY <1>3, SettleRefines DEF failItem, MarkFailed
<1>4. ASSUME interruptItem(w) PROVE [Ledger!Next]_(Ledger!ledgerVars)
  BY <1>2, <1>4, SettleRefines DEF interruptItem, MarkInterrupted
<1>5. ASSUME MarkDone(item[w]), LetGo(w) PROVE [Ledger!Next]_(Ledger!ledgerVars)
  BY <1>1, <1>5, SettleRefines DEF MarkDone
<1> QED BY <1>3, <1>4, <1>5 DEF skipItem, linkBlobInto

\* Let go without a verdict: a claim given up, if there is a row.
LEMMA DropRefines ==
    ASSUME ItemsAssumption, ConfigAssumption, IInv, NEW w \in Crew,
           item[w] # NoItem, BackToChannel(w),
           UNCHANGED <<rowVars, feedVars>>
    PROVE  [Ledger!Next]_(Ledger!ledgerVars)
<1>1. /\ InHand' = InHand \ {item[w]}
      /\ item[w] \in Items => item[w] \in InHand
  BY LetGoReleases DEF BackToChannel, feedVars
<1>2. UNCHANGED <<feedAt, status, attempts>>
  BY DEF feedVars, rowVars
<1>3. CASE item[w] \notin Items
  <2>1. item[w] \notin InHand
    BY <1>3 DEF InHand, Owned, Held, IInv, TypeOK, Hands, ClaimGrip
  <2> QED BY <1>1, <1>2, <2>1 DEF Ledger!ledgerVars
<1>4. CASE item[w] \in Items
  <2>1. Ledger!GiveUp({item[w]})
    BY <1>1, <1>2, <1>4 DEF Ledger!GiveUp
  <2> QED BY <1>4, <2>1 DEF Ledger!Next
<1> QED BY <1>3, <1>4

\* Between the channel and the verdict the ledger sees charges only.
LEMMA ChargeRefines ==
    ASSUME ItemsAssumption, ConfigAssumption, IInv, NEW w \in Crew, item[w] # NoItem,
           NEW n \in 0..RetryMax, RecordAttempt(item[w], n), UNCHANGED <<item, batch, feedAt>>
    PROVE  [Ledger!Next]_(Ledger!ledgerVars)
<1>1. status \in [Items -> Status] /\ RowTypes /\ Hands
  BY TypesSplit DEF IInv, TypeOK
<1>2. InHand' = InHand
  BY HandsKept
<1>3. item[w] \in Items => item[w] \in InHand
  BY <1>1, Everybody DEF InHand, Owned, Held
<1>4. CASE userCancelled \/ item[w] \notin Items
  BY <1>2, <1>4 DEF RecordAttempt, WriteRow, rowVars, Ledger!ledgerVars
<1>5. CASE ~userCancelled /\ item[w] \in Items
  <2>1. status' = status
    BY <1>1, RecordEffect
  <2>2. Ledger!Charge(item[w], n)
    BY <1>2, <1>3, <1>5, <2>1 DEF Ledger!Charge, RecordAttempt, WriteRow
  <2> QED BY <1>5, <2>2 DEF Ledger!Next
<1> QED BY <1>4, <1>5

LEMMA FeedRefines ==
    ASSUME ItemsAssumption, ConfigAssumption, IInv, Feed
    PROVE  [Ledger!Next]_(Ledger!ledgerVars)
<1>0. NoItem \notin Items /\ Hands
  BY Everybody DEF IInv
<1>1. CASE FeedClaim
  <2>0. feedAt = "claim" /\ feedAt' = "send" /\ UNCHANGED <<item, attempts>>
    BY <1>1 DEF FeedClaim, workVars
  <2>1. batch = {} /\ item[Runner] = NoItem
    BY <1>0, <2>0, DrainWaits, Everybody DEF Hands, Grip
  <2>2. batch' \subseteq Claimable(feedChat)
    BY <1>1 DEF FeedClaim, FirstOf
  <2>3. InHand' = InHand \cup batch'
    BY <1>0, <2>0, <2>1 DEF InHand, Owned, Held
  <2>4. \A i \in InHand : status[i] = "downloading"
    BY <1>0, <2>1 DEF Hands, ClaimGrip, InHand, Owned, Held
  <2>5. Ledger!Claim(batch')
    BY <1>1, <2>0, <2>2, <2>3, <2>4 DEF Ledger!Claim, Ledger!Open, FeedClaim, Claimable
  <2>6. batch' \in SUBSET Items
    BY <2>2 DEF Claimable
  <2> QED BY <2>5, <2>6 DEF Ledger!Next
<1>2. CASE FeedNextChat
  BY <1>2, HandsKept DEF FeedNextChat, workVars, rowVars, Ledger!ledgerVars
<1>3. ASSUME CloseFeed, feedAt # "closed" PROVE Ledger!Next
  <2>0. UNCHANGED <<item, status, attempts>> /\ batch' = {} /\ feedAt' = "closed"
    BY <1>3 DEF CloseFeed, workVars, rowVars
  <2>1. Held \cap batch = {} /\ item[Runner] \notin batch
    BY <1>0, Everybody DEF Hands, Grip, Held
  <2>2. InHand' = InHand \ batch
    BY <2>0, <2>1 DEF InHand, Owned, Held
  <2>3. Ledger!Close(batch)
    BY <1>3, <2>0, <2>2 DEF Ledger!Close, InHand, Owned
  <2>4. batch \in SUBSET Items
    BY DEF IInv, TypeOK
  <2> QED BY <2>3, <2>4 DEF Ledger!Next
<1>4. CASE FeedClose \/ FeedError
  BY <1>3, <1>4 DEF FeedClose, FeedError
<1> QED BY <1>1, <1>2, <1>4 DEF Feed

LEMMA LadderRefines ==
    ASSUME ItemsAssumption, ConfigAssumption, IInv, NEW w \in Crew, Ladder(w)
    PROVE  [Ledger!Next]_(Ledger!ledgerVars)
<1>busy. pc[w] \notin {"idle", "exited"} => item[w] # NoItem /\ attempt[w] \in 0..RetryMax
  BY BusyWorker
<1>max. RetryMax \in 0..RetryMax
  BY DEF ConfigAssumption
<1>1. CASE ParkCancel(w)
  BY <1>1, <1>busy, DropRefines DEF ParkCancel
<1>2. CASE \/ SettleCancelled(w) \/ SettleFatal(w) \/ SettleInterrupted(w) \/ RefetchFatal(w)
           \/ Exhaust(w) \/ BackoffCancelled(w) \/ Promote(w)
  <2>1. item[w] # NoItem /\ attempt[w] \in 0..RetryMax
    BY <1>2, <1>busy DEF SettleCancelled, SettleFatal, SettleInterrupted, RefetchFatal,
          Exhaust, BackoffCancelled, Promote
  <2>2. \/ \E n \in 0..RetryMax : failItem(w, n)
        \/ interruptItem(w)
        \/ MarkDone(item[w]) /\ LetGo(w)
    BY <1>2, <1>max, <2>1 DEF SettleCancelled, SettleFatal, SettleInterrupted, RefetchFatal,
          Exhaust, BackoffCancelled, Promote
  <2> QED BY <2>1, <2>2, VerdictRefines
<1>3. CASE ParkRecord(w) \/ ChargeAttempt(w)
  <2>1. item[w] # NoItem /\ attempt[w] \in 0..RetryMax
    BY <1>3, <1>busy DEF ParkRecord, ChargeAttempt
  <2>2. RecordAttempt(item[w], attempt[w]) /\ UNCHANGED <<item, batch, feedAt>>
    BY <1>3 DEF ParkRecord, ChargeAttempt, feedVars
  <2> QED BY <2>1, <2>2, ChargeRefines
<1>4. CASE \/ StartFetch(w) \/ PaceCancelled(w) \/ FetchSucceeds(w) \/ FetchFails(w)
           \/ PromoteFails(w) \/ Park(w) \/ ParkFinish(w) \/ LookAgain(w) \/ KeepTrying(w)
           \/ Retry(w)
  <2>1. UNCHANGED <<item, batch, status, attempts, feedAt>>
    BY <1>4 DEF StartFetch, PaceCancelled, FetchSucceeds, FetchFails,
          PromoteFails, Park, ParkFinish, LookAgain, KeepTrying, Retry, Goto, Fails,
          rowVars, feedVars
  <2> QED BY <2>1, HandsKept DEF Ledger!ledgerVars
<1> QED BY <1>1, <1>2, <1>3, <1>4 DEF Ladder

LEMMA ReceiveKeepsOwned ==
    ASSUME ItemsAssumption, ConfigAssumption, IInv, NEW w \in Workers, Receive(w)
    PROVE  /\ Owned' = Owned /\ InHand' = InHand
           /\ UNCHANGED rowVars /\ UNCHANGED count
           /\ feedAt # "closed" /\ feedAt' # "closed"
<1>1. PICK i \in batch : item' = [item EXCEPT ![w] = i] /\ batch' = batch \ {i}
  BY DEF Receive
<1>2. w \in Crew /\ Runner \in Crew \ Workers /\ Workers \subseteq Crew /\ NoItem \notin Items
  BY Everybody
<1>3. item \in [Crew -> Wanted \cup {NoItem}] /\ item[w] = NoItem /\ batch \subseteq Items
  BY <1>2 DEF Receive, IInv, TypeOK, Hands, Grip
<1>4. Held' = Held \cup {i} /\ item'[Runner] = item[Runner]
  BY <1>1, <1>2, <1>3 DEF Held
<1> QED BY <1>1, <1>4 DEF Receive, Owned, InHand

LEMMA WorkRefines ==
    ASSUME ItemsAssumption, ConfigAssumption, IInv, NEW w \in Workers, Work(w)
    PROVE  [Ledger!Next]_(Ledger!ledgerVars)
<1>crew. w \in Crew
  BY Everybody
<1>busy. pc[w] \notin {"idle", "exited"} => item[w] # NoItem
  BY <1>crew, BusyWorker
<1>max. RetryMax \in 0..RetryMax /\ PrecheckAttempts \in 0..RetryMax
  BY DEF ConfigAssumption, PrecheckAttempts
<1>1. CASE Receive(w)
  BY <1>1, ReceiveKeepsOwned DEF rowVars, Ledger!ledgerVars
<1>2. CASE Discard(w)
  BY <1>2, <1>crew, <1>busy, DropRefines DEF Discard, LetGo
<1>3. CASE PrecheckFails(w) \/ PrepareFails(w) \/ SkipPresent(w) \/ LinkFromBlob(w)
  BY <1>3, <1>crew, <1>busy, <1>max, VerdictRefines
     DEF PrecheckFails, PrepareFails, SkipPresent, LinkFromBlob
<1>4. CASE TakeUp(w) \/ StartLadder(w) \/ Exit(w)
  <2>1. UNCHANGED <<item, batch, status, attempts, feedAt>>
    BY <1>4 DEF TakeUp, StartLadder, Exit, Goto, rowVars, feedVars
  <2> QED BY <2>1, HandsKept DEF Ledger!ledgerVars
<1>5. CASE Ladder(w)
  BY <1>5, <1>crew, LadderRefines
<1> QED BY <1>1, <1>2, <1>3, <1>4, <1>5 DEF Work

\* All workers gone: no claim is outstanding.
LEMMA NoClaimsLeft ==
    ASSUME ItemsAssumption, ConfigAssumption, IInv, \A w \in Workers : pc[w] = "exited"
    PROVE  Owned = {} /\ feedAt = "closed"
BY Everybody DEF IInv, Hands, Grip, ClaimGrip, Owned, Held, ConfigAssumption

LEMMA DrainRefines ==
    ASSUME ItemsAssumption, ConfigAssumption, IInv, Drain
    PROVE  [Ledger!Next]_(Ledger!ledgerVars)
<1>crew. Runner \in Crew \ Workers /\ NoItem \notin Items /\ Hands /\ TypeOK
  BY Everybody DEF IInv
<1>busy. pc[Runner] = "prepare" => item[Runner] # NoItem
  BY <1>crew, BusyWorker
<1>1. ASSUME NEW i \in sightings, DrainTake(i) PROVE [Ledger!Next]_(Ledger!ledgerVars)
  <2>1. Owned = {} /\ feedAt = "closed"
    BY <1>1, NoClaimsLeft DEF DrainTake
  <2>2. item[Runner] = NoItem
    BY <1>1, <1>crew DEF DrainTake, Hands, Grip
  <2>3. /\ UNCHANGED <<status, attempts, batch, feedAt>>
        /\ item'[Runner] = i
        /\ \A v \in Workers : item'[v] = item[v]
    BY <1>1, <1>crew DEF DrainTake, rowVars, TypeOK, Crew
  <2>4. Owned' = {}
    BY <2>1, <2>3 DEF Owned, Held
  <2>5. InHand = {} /\ InHand' = {i} \cap Items
    BY <1>crew, <2>1, <2>2, <2>3, <2>4 DEF InHand
  <2>6. CASE i \in Items
    <3>1. status[i] = "done"
      BY <1>crew, <2>6 DEF Hands, DrainGrip
    <3>2. Ledger!Revisit(i)
      BY <2>1, <2>3, <2>5, <2>6, <3>1 DEF Ledger!Revisit
    <3> QED BY <2>6, <3>2 DEF Ledger!Next
  <2>7. CASE i \notin Items
    BY <2>3, <2>5, <2>7 DEF Ledger!ledgerVars
  <2> QED BY <2>6, <2>7
<1>2. CASE DrainThere \/ DrainUnserved
  BY <1>2, <1>crew, <1>busy, DropRefines DEF DrainThere, DrainUnserved, LetGo
<1>3. CASE DrainLinks
  BY <1>3, <1>crew, <1>busy, VerdictRefines DEF DrainLinks
<1>4. CASE DrainOpenFails
  <2>1. RetryMax \in 0..RetryMax
    BY DEF ConfigAssumption
  <2> QED BY <1>4, <1>crew, <1>busy, <2>1, VerdictRefines DEF DrainOpenFails
<1>5. CASE DrainOpens \/ DrainEnds
  <2>1. UNCHANGED <<item, batch, status, attempts, feedAt>>
    BY <1>5 DEF DrainOpens, DrainEnds, Goto, rowVars, feedVars
  <2> QED BY <2>1, HandsKept DEF Ledger!ledgerVars
<1>6. CASE Ladder(Runner)
  BY <1>6, <1>crew, LadderRefines
<1> QED BY <1>1, <1>2, <1>3, <1>4, <1>5, <1>6 DEF Drain

LEMMA StepRefines ==
    ASSUME ItemsAssumption, ConfigAssumption, IInv, [Next]_vars
    PROVE  [Ledger!Next]_(Ledger!ledgerVars)
<1>1. CASE UNCHANGED vars \/ UserCancel \/ Returned
  BY <1>1, HandsKept DEF vars, rowVars, feedVars, workVars, UserCancel, Returned,
                         Ledger!ledgerVars
<1> QED BY <1>1, FeedRefines, WorkRefines, DrainRefines DEF Next

\* The run, with its feeder, channel, ladder, drain and two contexts, does
\* nothing to the media table that the abstract claim ledger does not allow.
THEOREM RunKeepsLedger == Spec => KeepsLedger
<1>1. Init => Ledger!Init
  BY Everybody, ItemsAssumption, ConfigAssumption
     DEF Init, Ledger!Init, InHand, Owned, Held
<1>2. IInv /\ [Next]_vars => [Ledger!Next]_(Ledger!ledgerVars)
  BY StepRefines, ItemsAssumption, ConfigAssumption
<1> QED BY <1>1, <1>2, Invariance, PTL DEF Spec, KeepsLedger, Ledger!Spec

\* A file that is done stays done as long as anything is claimed or can be;
\* after that only the drain of its own sighting takes it back, to failed or
\* to downloading, never to the queue.
THEOREM DrainAloneReopens == Spec => OnlyDrainReopens
<1>1. IInv /\ [Next]_vars =>
         [\A i \in Items : status[i] = "done" /\ status'[i] # "done" =>
             /\ Owned = {}
             /\ i = item[Runner]
             /\ status'[i] \in {"failed", "downloading"}]_vars
  <2> SUFFICES ASSUME IInv, [Next]_vars, NEW i \in Items, status[i] = "done", status'[i] # "done"
               PROVE  /\ Owned = {}
                      /\ i = item[Runner]
                      /\ status'[i] \in {"failed", "downloading"}
    OBVIOUS
  <2>1. status \in [Items -> Status] /\ Hands
    BY DEF IInv, TypeOK
  <2>2. [Ledger!Next]_(Ledger!ledgerVars)
    BY StepRefines, ItemsAssumption, ConfigAssumption
  <2>3. i \in InHand /\ status'[i] \in {"done", "failed", "downloading"}
    BY <2>1, <2>2 DEF Ledger!Next, Ledger!ledgerVars, Ledger!Claim, Ledger!Open,
       Ledger!Charge, Ledger!Settle, Ledger!GiveUp, Ledger!Close, Ledger!Revisit
  <2>4. i \notin Owned
    BY <2>1 DEF Hands, ClaimGrip, Owned, Held
  <2>5. i = item[Runner]
    BY <2>3, <2>4 DEF InHand
  <2>6. pc[Runner] # "idle"
    BY <2>1, <2>5, Everybody, ItemsAssumption, ConfigAssumption DEF Hands, Grip
  <2>7. \A w \in Workers : pc[w] = "exited"
    BY <2>1, <2>6 DEF Hands, DrainGrip
  <2> QED BY <2>3, <2>5, <2>7, NoClaimsLeft, ItemsAssumption, ConfigAssumption
<1> QED BY <1>1, Invariance, PTL DEF Spec, OnlyDrainReopens
-----------------------------------------------------------------------------
(* The accounts of a run: what its counters, its return and its park say about *)
(* the rows of the manifest.  Seen from the books a step is one of four: it     *)
(* keeps them, claims a batch, revisits a done row, or settles one row under    *)
(* one heading.                                                                *)

Open(i) == status[i] \in {"queued", "failed"} /\ attempts[i] < RetryMax

Blank(i) == \A o \in Outcome : count[i][o] = 0

Once(i) ==
    \A o, p \in Outcome :
        count[i][o] > 0 => count[i][o] = 1 /\ (count[i][p] > 0 => p = o)

\* What the manifest has to say of a row that is counted under o.
Entered(i, o) ==
    /\ o \notin {"failed", "interrupted"} => status[i] = "done"
    /\ o = "failed" => status[i] = "failed"
    /\ o = "interrupted" => status[i] = "downloading" /\ attempts[i] = 0

\* The inductive invariant of the accounts.  A row in hand, or awaiting the
\* drain, has not been counted yet; while the run is alive a counted row cannot be claimed again,
\* which is what makes the first part survive a claim.
BookInv ==
    /\ userCancelled => runCancelled
    /\ \A i \in Ordinary :
          /\ i \in InHand \cup sightings => Blank(i)
          /\ Once(i)
          /\ ~runCancelled /\ ~Blank(i) => ~Open(i)
          /\ ~userCancelled =>
                \A o \in Outcome : count[i][o] > 0 => Entered(i, o)

-----------------------------------------------------------------------------
(* The four kinds of step *)

\* No row is counted; claims are dropped only in a cancelled run.
Keeps ==
    /\ \A j \in Items : count'[j] = count[j]
    /\ InHand' \subseteq InHand
    /\ sightings' \subseteq sightings
    /\ \A j \in Items : /\ status'[j] = status[j]
                        /\ j \notin InHand => attempts'[j] = attempts[j]
    /\ Owned' # Owned => runCancelled'

\* The drain takes a done row in hand.
Revisits(i) ==
    /\ i \in sightings
    /\ UNCHANGED <<status, attempts, count, Owned>>
    /\ InHand' \subseteq InHand \cup {i}
    /\ sightings' \subseteq sightings

\* Row i is let go and enters one counter; the store agrees unless the
\* user has cancelled, and a failure of an ordinary row of a live run is final.
Settles(i, o) ==
    /\ i \in InHand
    /\ InHand' = InHand \ {i}
    /\ Owned \subseteq Owned' \cup {i}
    /\ sightings' = sightings
    /\ i \notin sightings
    /\ Counted(i, o)
    /\ \A j \in Items \ {i} : status'[j] = status[j] /\ attempts'[j] = attempts[j]
    /\ UNCHANGED cancelVars
    /\ ~userCancelled => Entered(i, o)'
    /\ i \in Ordinary /\ ~userCancelled /\ ~runCancelled /\ o = "failed" =>
          attempts'[i] = RetryMax

LEMMA CancelsStay ==
    ASSUME ItemsAssumption, ConfigAssumption, [Next]_vars
    PROVE  /\ runCancelled => runCancelled'
           /\ userCancelled => userCancelled'
           /\ userCancelled' /\ ~userCancelled => runCancelled'
<1>1. CASE UNCHANGED vars
  BY <1>1 DEF vars, cancelVars
<1>2. CASE Feed
  BY <1>2 DEF Feed, FeedClaim, FeedNextChat, FeedClose, FeedError, CloseFeed, cancelVars
<1>3. CASE UserCancel \/ Returned
  BY <1>3 DEF UserCancel, Returned, vars, cancelVars
<1>4. ASSUME NEW w \in Crew, Ladder(w)
      PROVE  /\ runCancelled => runCancelled'
             /\ userCancelled' = userCancelled
  <2>1. CASE ParkCancel(w)
    BY <2>1 DEF ParkCancel
  <2>2. CASE ~ParkCancel(w)
    <3>1. UNCHANGED cancelVars
      BY <1>4, <2>2 DEF Ladder, StartFetch, PaceCancelled, FetchSucceeds, FetchFails,
         Promote, PromoteFails, SettleInterrupted, LookAgain, SettleCancelled, SettleFatal,
         Park, ParkRecord, ParkFinish, RefetchFatal, KeepTrying, ChargeAttempt,
         BackoffCancelled, Retry, Exhaust, Goto, Fails, failItem, interruptItem, LetGo
    <3> QED BY <3>1 DEF cancelVars
  <2> QED BY <2>1, <2>2
<1>5. ASSUME NEW w \in Workers, Work(w), ~Ladder(w)
      PROVE  UNCHANGED cancelVars
  BY <1>5 DEF Work, Receive, Discard, TakeUp, PrecheckFails, PrepareFails, SkipPresent,
     LinkFromBlob, StartLadder, Exit, Goto, failItem, skipItem, linkBlobInto, LetGo
<1>6. ASSUME Drain, ~Ladder(Runner)
      PROVE  UNCHANGED cancelVars
  BY <1>6 DEF Drain, DrainTake, DrainThere, DrainUnserved, DrainLinks, DrainOpenFails,
     DrainOpens, DrainEnds, Goto, failItem, linkBlobInto, LetGo
<1>7. ASSUME Drain \/ \E w \in Workers : Work(w)
      PROVE  /\ runCancelled => runCancelled'
             /\ userCancelled' = userCancelled
  BY <1>4, <1>5, <1>6, <1>7, Everybody DEF cancelVars
<1> QED BY <1>1, <1>2, <1>3, <1>7 DEF Next

\* Nothing but the store's two columns, the hands and the counters matters.
LEMMA SameBooks ==
    ASSUME UNCHANGED <<status, attempts, count, item, batch, sightings>>
    PROVE  Keeps
BY HandsKept DEF Keeps

LEMMA ChargeKeeps ==
    ASSUME ItemsAssumption, ConfigAssumption, IInv, NEW w \in Crew, item[w] # NoItem,
           NEW n \in 0..RetryMax,
           RecordAttempt(item[w], n), UNCHANGED <<item, batch, count, sightings>>
    PROVE  Keeps
<1>1. RowTypes
  BY TypesSplit DEF IInv
<1>2. item[w] \in Items => item[w] \in InHand
  BY Everybody DEF InHand, Owned, Held
<1>3. status' = status /\ \A j \in Items \ {item[w]} : attempts'[j] = attempts[j]
  BY <1>1, RecordEffect
<1> QED BY <1>2, <1>3, HandsKept DEF Keeps

LEMMA FeedKind ==
    ASSUME ItemsAssumption, ConfigAssumption, IInv, Feed
    PROVE  Keeps \/ FeedClaim
<1>1. CASE FeedNextChat
  BY <1>1, SameBooks DEF FeedNextChat, rowVars, workVars
<1>2. CASE FeedError
  <2>1. batch = {}
    BY <1>2 DEF FeedError, IInv, Hands
  <2> QED BY <1>2, <2>1, SameBooks DEF FeedError, CloseFeed, rowVars, workVars
<1>3. CASE FeedClose
  <2>1. feedAt = "claim" => batch = {}
    BY DEF IInv, Hands
  <2>2. CASE batch = {}
    BY <1>3, <2>2, SameBooks DEF FeedClose, CloseFeed, rowVars, workVars
  <2>3. CASE batch # {}
    <3>1. runCancelled /\ CloseFeed
      BY <1>3, <2>1, <2>3 DEF FeedClose
    <3>2. runCancelled'
      BY <3>1 DEF CloseFeed, cancelVars
    <3>3. InHand' \subseteq InHand
      BY <3>1 DEF CloseFeed, workVars, InHand, Owned, Held
    <3> QED BY <3>1, <3>2, <3>3 DEF Keeps, CloseFeed, rowVars
  <2> QED BY <2>2, <2>3
<1> QED BY <1>1, <1>2, <1>3 DEF Feed

\* A row given up without a verdict: a claim in a cancelled run only.
LEMMA DropKeeps ==
    ASSUME ItemsAssumption, ConfigAssumption, IInv, NEW w \in Crew, item[w] # NoItem,
           BackToChannel(w), UNCHANGED <<rowVars, feedVars, count>>,
           w # Runner => runCancelled'
    PROVE  Keeps
<1>1. /\ item' = [item EXCEPT ![w] = NoItem]
      /\ UNCHANGED <<batch, status, attempts, count, sightings>>
  BY DEF BackToChannel, feedVars, rowVars
<1>2. InHand' \subseteq InHand /\ (w = Runner => Owned' = Owned)
  BY <1>1, LetGoReleases
<1> QED BY <1>1, <1>2 DEF Keeps

\* One store write, one counter, and the goroutine is free again.  What has
\* no row is of no consequence to the books.
LEMMA SettleKind ==
    ASSUME ItemsAssumption, ConfigAssumption, IInv, NEW w \in Crew, item[w] # NoItem,
           w \in Workers \/ w = Runner,
           NEW s \in {"done", "failed", "downloading"}, NEW n,
           item[w] \in Items => n \in 0..RetryMax,
           NEW o \in Outcome, WriteRow(item[w], s, n), Counted(item[w], o), LetGo(w),
           o \notin {"failed", "interrupted"} => s = "done",
           o = "failed" => s = "failed",
           o = "interrupted" => s = "downloading" /\ n = 0,
           item[w] \in Ordinary /\ ~runCancelled /\ o = "failed" => n = RetryMax
    PROVE  Keeps \/ \E i \in Items, p \in Outcome : Settles(i, p)
<1>1. RowTypes /\ SideTypes /\ Hands
  BY TypesSplit DEF IInv
<1>2. /\ InHand' = InHand \ {item[w]}
      /\ item[w] \in Items => item[w] \in InHand
      /\ Owned \subseteq Owned' \cup {item[w]}
      /\ w = Runner => Owned' = Owned
  BY LetGoReleases DEF LetGo, BackToChannel, feedVars
<1>3. s \in Status
  BY DEF Status
<1>4. \A j \in Items \ {item[w]} : status'[j] = status[j] /\ attempts'[j] = attempts[j]
  BY <1>1, <1>3, WriteRowEffect
<1>5. item[w] \notin sightings /\ sightings' = sightings /\ (w \in Workers => item[w] \in Items)
  BY <1>1, Apart DEF LetGo, feedVars
<1>6. CASE item[w] \in Items
  <2>1. ~userCancelled => status'[item[w]] = s /\ attempts'[item[w]] = n
    BY <1>1, <1>6 DEF WriteRow, RowTypes
  <2>2. PICK i \in Items : i = item[w]
    BY <1>6
  <2>3. ~userCancelled => Entered(i, o)'
    BY <2>1, <2>2 DEF Entered
  <2>4. Settles(i, o)
    BY <1>2, <1>4, <1>5, <2>1, <2>2, <2>3 DEF Settles, LetGo
  <2> QED BY <2>4
<1>7. CASE item[w] \notin Items
  <2>1. \A j \in Items : count'[j] = count[j]
    BY <1>1, <1>7 DEF Counted, SideTypes, Wanted
  <2>2. UNCHANGED <<status, attempts>>
    BY <1>7 DEF WriteRow, rowVars
  <2> QED BY <1>2, <1>5, <1>7, <2>1, <2>2 DEF Keeps
<1> QED BY <1>6, <1>7

LEMMA VerdictKind ==
    ASSUME ItemsAssumption, ConfigAssumption, IInv, NEW w \in Crew, item[w] # NoItem,
           \/ \E n \in 0..RetryMax :
                 /\ failItem(w, n)
                 /\ item[w] \in Ordinary /\ ~runCancelled => n = RetryMax
           \/ interruptItem(w)
           \/ skipItem(w)
           \/ linkBlobInto(w)
           \/ MarkDone(item[w]) /\ Counted(item[w], "downloaded") /\ LetGo(w)
    PROVE  Keeps \/ \E i \in Items, p \in Outcome : Settles(i, p)
<1> USE DEF Outcome
<1>0. w \in Workers \/ w = Runner
  BY Everybody
<1>1. (item[w] \in Items => attempts[item[w]] \in 0..RetryMax) /\ 0 \in 0..RetryMax
  <2>1. attempts \in [Items -> 0..RetryMax]
    BY DEF IInv, TypeOK
  <2>2. 0 \in 0..RetryMax
    BY DEF ConfigAssumption
  <2> QED BY <2>1, <2>2
<1>2. ASSUME NEW n \in 0..RetryMax, failItem(w, n),
             item[w] \in Ordinary /\ ~runCancelled => n = RetryMax
      PROVE  Keeps \/ \E i \in Items, p \in Outcome : Settles(i, p)
  BY <1>0, <1>2, SettleKind DEF failItem, MarkFailed
<1>3. ASSUME interruptItem(w)
      PROVE  Keeps \/ \E i \in Items, p \in Outcome : Settles(i, p)
  BY <1>0, <1>1, <1>3, SettleKind DEF interruptItem, MarkInterrupted
<1>4. ASSUME NEW o \in {"skipped", "linked", "downloaded"},
             MarkDone(item[w]), Counted(item[w], o), LetGo(w)
      PROVE  Keeps \/ \E i \in Items, p \in Outcome : Settles(i, p)
  BY <1>0, <1>1, <1>4, SettleKind DEF MarkDone
<1> QED BY <1>2, <1>3, <1>4 DEF skipItem, linkBlobInto

LEMMA LadderKind ==
    ASSUME ItemsAssumption, ConfigAssumption, IInv, NEW w \in Crew, Ladder(w)
    PROVE  Keeps \/ \E i \in Items, o \in Outcome : Settles(i, o)
<1>busy. pc[w] \notin {"idle", "exited"} => item[w] # NoItem /\ attempt[w] \in 0..RetryMax
  BY BusyWorker
<1>max. RetryMax \in 0..RetryMax
  BY DEF ConfigAssumption
<1>1. CASE ParkCancel(w)
  BY <1>1, <1>busy, DropKeeps DEF ParkCancel
<1>2. CASE \/ SettleCancelled(w) \/ SettleFatal(w) \/ SettleInterrupted(w) \/ RefetchFatal(w)
           \/ Exhaust(w) \/ BackoffCancelled(w) \/ Promote(w)
  <2>1. item[w] # NoItem /\ attempt[w] \in 0..RetryMax
    BY <1>2, <1>busy DEF SettleCancelled, SettleFatal, SettleInterrupted, RefetchFatal,
          Exhaust, BackoffCancelled, Promote
  <2>2. CASE RefetchFatal(w)
    <3>1. item[w] \notin Ordinary
      BY <2>2 DEF RefetchFatal, Ordinary
    <3> QED BY <2>1, <2>2, <3>1, VerdictKind DEF RefetchFatal
  <2>3. CASE SettleFatal(w) \/ SettleCancelled(w)
    BY <1>max, <2>1, <2>3, VerdictKind DEF SettleFatal, SettleCancelled
  <2>4. CASE Exhaust(w)
    <3>1. attempt[w] >= RetryMax => attempt[w] = RetryMax
      BY <2>1 DEF ConfigAssumption
    <3> QED BY <2>1, <2>4, <3>1, VerdictKind DEF Exhaust
  <2>5. CASE SettleInterrupted(w) \/ BackoffCancelled(w) \/ Promote(w)
    BY <2>1, <2>5, VerdictKind DEF SettleInterrupted, BackoffCancelled, Promote
  <2> QED BY <1>2, <2>2, <2>3, <2>4, <2>5
<1>3. CASE ParkRecord(w) \/ ChargeAttempt(w)
  <2>1. item[w] # NoItem /\ attempt[w] \in 0..RetryMax
    BY <1>3, <1>busy DEF ParkRecord, ChargeAttempt
  <2>2. RecordAttempt(item[w], attempt[w]) /\ UNCHANGED <<item, batch, count, sightings>>
    BY <1>3 DEF ParkRecord, ChargeAttempt, feedVars
  <2> QED BY <2>1, <2>2, ChargeKeeps
<1>4. CASE \/ StartFetch(w) \/ PaceCancelled(w) \/ FetchSucceeds(w) \/ FetchFails(w)
           \/ PromoteFails(w) \/ Park(w) \/ ParkFinish(w) \/ LookAgain(w) \/ KeepTrying(w)
           \/ Retry(w)
  <2>1. UNCHANGED <<status, attempts, count, item, batch, sightings>>
    BY <1>4 DEF StartFetch, PaceCancelled, FetchSucceeds, FetchFails,
          PromoteFails, Park, ParkFinish, LookAgain, KeepTrying, Retry, Goto, Fails,
          rowVars, feedVars
  <2> QED BY <2>1, SameBooks
<1> QED BY <1>1, <1>2, <1>3, <1>4 DEF Ladder

LEMMA WorkKind ==
    ASSUME ItemsAssumption, ConfigAssumption, IInv, NEW w \in Workers, Work(w)
    PROVE  Keeps \/ \E i \in Items, o \in Outcome : Settles(i, o)
<1>crew. w \in Crew
  BY Everybody
<1>busy. pc[w] \notin {"idle", "exited"} => item[w] # NoItem
  BY <1>crew, BusyWorker
<1>max. RetryMax \in 0..RetryMax /\ PrecheckAttempts \in 0..RetryMax
  BY DEF ConfigAssumption, PrecheckAttempts
<1>1. CASE Receive(w)
  BY <1>1, ReceiveKeepsOwned DEF Receive, rowVars, Keeps
<1>2. CASE Discard(w)
  BY <1>2, <1>crew, <1>busy, DropKeeps DEF Discard, LetGo, cancelVars
<1>3. CASE PrecheckFails(w)
  <2>1. item[w] \notin Ordinary
    BY <1>3 DEF PrecheckFails, Ordinary
  <2> QED BY <1>3, <1>crew, <1>busy, <1>max, <2>1, VerdictKind DEF PrecheckFails
<1>4. CASE PrepareFails(w) \/ SkipPresent(w) \/ LinkFromBlob(w)
  BY <1>4, <1>crew, <1>busy, <1>max, VerdictKind DEF PrepareFails, SkipPresent, LinkFromBlob
<1>5. CASE TakeUp(w) \/ StartLadder(w) \/ Exit(w)
  <2>1. UNCHANGED <<status, attempts, count, item, batch, sightings>>
    BY <1>5 DEF TakeUp, StartLadder, Exit, Goto, rowVars, feedVars
  <2> QED BY <2>1, SameBooks
<1>6. CASE Ladder(w)
  BY <1>6, <1>crew, LadderKind
<1> QED BY <1>1, <1>2, <1>3, <1>4, <1>5, <1>6 DEF Work

LEMMA DrainKind ==
    ASSUME ItemsAssumption, ConfigAssumption, IInv, Drain
    PROVE  \/ Keeps
           \/ \E i \in Wanted : Revisits(i)
           \/ \E i \in Items, o \in Outcome : Settles(i, o)
<1>crew. Runner \in Crew \ Workers /\ NoItem \notin Wanted /\ Hands /\ TypeOK
         /\ Items \subseteq Wanted /\ RowTypes /\ SideTypes
  BY Everybody, TypesSplit DEF IInv
<1>busy. pc[Runner] = "prepare" => item[Runner] # NoItem
  BY <1>crew, BusyWorker
<1>1. ASSUME NEW i \in sightings, DrainTake(i) PROVE Revisits(i)
  <2>1. UNCHANGED <<status, attempts, count, batch>> /\ sightings' \subseteq sightings
    BY <1>1 DEF DrainTake, rowVars
  <2>2. item'[Runner] = i /\ \A v \in Workers : item'[v] = item[v]
    BY <1>1, <1>crew DEF DrainTake, TypeOK, Crew
  <2>3. Owned' = Owned
    BY <2>1, <2>2 DEF Owned, Held
  <2>4. InHand' \subseteq InHand \cup {i}
    BY <2>2, <2>3 DEF InHand
  <2> QED BY <2>1, <2>3, <2>4 DEF Revisits
<1>2. CASE DrainThere
  BY <1>2, <1>crew, <1>busy, DropKeeps DEF DrainThere, LetGo
<1>3. CASE DrainUnserved
  <2>1. item[Runner] # NoItem /\ BackToChannel(Runner) /\ UNCHANGED <<rowVars, feedVars, cancelVars>>
    BY <1>3, <1>busy DEF DrainUnserved, LetGo
  <2>2. CASE item[Runner] \in Items
    <3>1. status[item[Runner]] = "done"
      BY <1>3, <1>crew, <2>2 DEF DrainUnserved, Hands, DrainGrip
    <3>2. /\ InHand' = InHand \ {item[Runner]}
          /\ item[Runner] \in InHand
          /\ Owned \subseteq Owned' \cup {item[Runner]}
      BY <1>crew, <2>1, <2>2, LetGoReleases DEF BackToChannel, feedVars
    <3>3. item[Runner] \notin sightings /\ sightings' = sightings
      BY <1>crew, <2>1 DEF Hands, Grip, feedVars
    <3>4. PICK i \in Items : i = item[Runner]
      BY <2>2
    <3>5. Entered(i, "unlinked")'
      BY <2>1, <3>1, <3>4 DEF Entered, rowVars
    <3>6. Settles(i, "unlinked")
      BY <1>3, <2>1, <3>2, <3>3, <3>4, <3>5 DEF Settles, DrainUnserved, rowVars
    <3> QED BY <3>6 DEF Outcome
  <2>3. CASE item[Runner] \notin Items
    <3>1. \A j \in Items : count'[j] = count[j]
      BY <1>3, <1>crew, <2>3 DEF DrainUnserved, Counted, SideTypes
    <3>2. InHand' \subseteq InHand /\ Owned' = Owned
      BY <1>crew, <2>1, LetGoReleases DEF BackToChannel, feedVars
    <3> QED BY <2>1, <3>1, <3>2 DEF Keeps, rowVars, feedVars
  <2> QED BY <2>2, <2>3
<1>4. CASE DrainLinks
  BY <1>4, <1>crew, <1>busy, VerdictKind DEF DrainLinks
<1>5. CASE DrainOpenFails
  <2>1. RetryMax \in 0..RetryMax
    BY DEF ConfigAssumption
  <2> QED BY <1>5, <1>crew, <1>busy, <2>1, VerdictKind DEF DrainOpenFails
<1>6. CASE DrainOpens \/ DrainEnds
  <2>1. UNCHANGED <<status, attempts, count, item, batch, sightings>>
    BY <1>6 DEF DrainOpens, DrainEnds, Goto, rowVars, feedVars
  <2> QED BY <2>1, SameBooks
<1>7. CASE Ladder(Runner)
  BY <1>7, <1>crew, LadderKind
<1>8. \A i \in sightings : i \in Wanted
  BY <1>crew DEF RowTypes
<1> QED BY <1>1, <1>2, <1>3, <1>4, <1>5, <1>6, <1>7, <1>8 DEF Drain

LEMMA StepKind ==
    ASSUME ItemsAssumption, ConfigAssumption, IInv, [Next]_vars
    PROVE  \/ Keeps
           \/ FeedClaim
           \/ \E i \in Wanted : Revisits(i)
           \/ \E i \in Items, o \in Outcome : Settles(i, o)
<1>1. CASE UNCHANGED vars \/ UserCancel \/ Returned
  BY <1>1, SameBooks DEF vars, rowVars, feedVars, workVars, UserCancel, Returned
<1> QED BY <1>1, FeedKind, WorkKind, DrainKind DEF Next

-----------------------------------------------------------------------------
(* The accounts *)

LEMMA BlankFirst ==
    ASSUME Init
    PROVE  BookInv
<1>1. \A i \in Ordinary : i \in Items
  BY DEF Ordinary
<1>2. \A i \in Ordinary, o \in Outcome : count[i][o] = 0
  BY <1>1 DEF Init, Wanted
<1> QED BY <1>2 DEF BookInv, Blank, Once, Init

\* What the first counter of a row looks like.
LEMMA FirstEntry ==
    ASSUME IInv, NEW i \in Items, NEW o \in Outcome, Blank(i), Counted(i, o)
    PROVE  /\ i \in Wanted
           /\ \A p \in Outcome : count'[i][p] = IF p = o THEN 1 ELSE 0
           /\ \A j \in Items \ {i} : count'[j] = count[j]
<1>1. count \in [Wanted -> [Outcome -> 0..CountMax]] /\ Items \subseteq Wanted
  BY DEF IInv, TypeOK, Wanted
<1>2. count[i][o] = 0
  BY DEF Blank
<1>3. Bump(count[i][o]) = 1
  BY <1>2 DEF Bump, CountMax
<1> QED BY <1>1, <1>3 DEF Counted, Blank

LEMMA BookStep ==
    ASSUME ItemsAssumption, ConfigAssumption, IInv, BookInv, [Next]_vars
    PROVE  BookInv'
<1>1. /\ runCancelled => runCancelled'
      /\ userCancelled => userCancelled'
      /\ userCancelled' => runCancelled'
  BY CancelsStay DEF BookInv
<1>2. Ordinary' = Ordinary
  BY DEF Ordinary
<1>3. \A i \in Ordinary : i \in Items
  BY DEF Ordinary
<1>4. CASE Keeps
  <2> SUFFICES ASSUME NEW i \in Ordinary
               PROVE  /\ i \in InHand' \cup sightings' => Blank(i)'
                      /\ Once(i)'
                      /\ ~runCancelled' /\ ~Blank(i)' => ~Open(i)'
                      /\ ~userCancelled' => \A o \in Outcome : count'[i][o] > 0 => Entered(i, o)'
    BY <1>1, <1>2 DEF BookInv
  <2>1. count'[i] = count[i] /\ InHand' \subseteq InHand /\ sightings' \subseteq sightings
    BY <1>3, <1>4 DEF Keeps
  <2>2. Blank(i)' <=> Blank(i)
    BY <2>1 DEF Blank
  <2>3. Once(i)'
    BY <2>1 DEF BookInv, Once
  <2>4. CASE Blank(i)
    BY <2>1, <2>2, <2>3, <2>4 DEF Blank
  <2>5. CASE ~Blank(i)
    <3>1. i \notin InHand /\ i \notin sightings
      BY <2>5 DEF BookInv
    <3>2. status'[i] = status[i] /\ attempts'[i] = attempts[i]
      BY <1>3, <1>4, <3>1 DEF Keeps
    <3>3. Open(i)' <=> Open(i)
      BY <3>2 DEF Open
    <3>4. \A o \in Outcome : Entered(i, o)' <=> Entered(i, o)
      BY <3>2 DEF Entered
    <3> QED BY <1>1, <2>1, <2>2, <2>3, <2>5, <3>1, <3>3, <3>4 DEF BookInv
  <2> QED BY <2>4, <2>5
<1>5. CASE FeedClaim
  <2> SUFFICES ASSUME NEW i \in Ordinary
               PROVE  /\ i \in InHand' \cup sightings' => Blank(i)'
                      /\ Once(i)'
                      /\ ~runCancelled' /\ ~Blank(i)' => ~Open(i)'
                      /\ ~userCancelled' => \A o \in Outcome : count'[i][o] > 0 => Entered(i, o)'
    BY <1>1, <1>2 DEF BookInv
  <2>1. count' = count /\ attempts' = attempts /\ sightings' = sightings
    BY <1>5 DEF FeedClaim
  <2>2. Blank(i)' <=> Blank(i)
    BY <2>1 DEF Blank
  <2>3. Once(i)'
    BY <2>1 DEF BookInv, Once
  <2>4. InHand' \subseteq InHand \cup batch'
    BY <1>5 DEF FeedClaim, InHand, Owned, Held, workVars
  <2>5. i \in batch' => Open(i)
    BY <1>5 DEF FeedClaim, FirstOf, Claimable, Open
  <2>6. i \in batch' => Blank(i)
    BY <1>5, <2>5 DEF BookInv, FeedClaim
  <2>7. CASE Blank(i)
    BY <2>1, <2>2, <2>3, <2>7 DEF Blank
  <2>8. CASE ~Blank(i)
    <3>1. i \notin InHand /\ i \notin batch' /\ i \notin sightings
      BY <2>6, <2>8 DEF BookInv
    <3>2. status'[i] = status[i]
      BY <1>3, <1>5, <3>1 DEF FeedClaim
    <3>3. Open(i)' <=> Open(i)
      BY <2>1, <3>2 DEF Open
    <3>4. \A o \in Outcome : Entered(i, o)' <=> Entered(i, o)
      BY <2>1, <3>2 DEF Entered
    <3> QED BY <1>1, <2>1, <2>2, <2>3, <2>4, <2>8, <3>1, <3>3, <3>4 DEF BookInv
  <2> QED BY <2>7, <2>8
<1>6. ASSUME NEW k \in Items, NEW r \in Outcome, Settles(k, r)
      PROVE  BookInv'
  <2> SUFFICES ASSUME NEW i \in Ordinary
               PROVE  /\ i \in InHand' \cup sightings' => Blank(i)'
                      /\ Once(i)'
                      /\ ~runCancelled' /\ ~Blank(i)' => ~Open(i)'
                      /\ ~userCancelled' => \A o \in Outcome : count'[i][o] > 0 => Entered(i, o)'
    BY <1>1, <1>2 DEF BookInv
  <2>1. /\ InHand' = InHand \ {k} /\ Counted(k, r) /\ k \in InHand
        /\ sightings' = sightings /\ k \notin sightings
    BY <1>6 DEF Settles
  <2>2. CASE i # k
    <3>1. status'[i] = status[i] /\ attempts'[i] = attempts[i]
      BY <1>3, <1>6, <2>2 DEF Settles
    <3>2. count'[i] = count[i]
      BY <1>3, <2>1, <2>2 DEF Counted, IInv, TypeOK
    <3>3. /\ Blank(i)' <=> Blank(i)
          /\ Once(i)' <=> Once(i)
          /\ Open(i)' <=> Open(i)
          /\ \A o \in Outcome : Entered(i, o)' <=> Entered(i, o)
      BY <3>1, <3>2 DEF Blank, Once, Open, Entered
    <3> QED BY <1>1, <2>1, <2>2, <3>2, <3>3 DEF BookInv
  <2>3. CASE i = k
    <3>1. Blank(i)
      BY <2>1, <2>3 DEF BookInv
    <3>2. \A p \in Outcome : count'[i][p] = IF p = r THEN 1 ELSE 0
      BY <2>1, <2>3, <3>1, FirstEntry
    <3>3. Once(i)'
      BY <3>2 DEF Once
    <3>4. userCancelled' = userCancelled /\ runCancelled' = runCancelled
      BY <1>6 DEF Settles, cancelVars
    <3>5. ~userCancelled => Entered(i, r)'
      BY <1>6, <2>3 DEF Settles
    <3>6. ~userCancelled' => \A o \in Outcome : count'[i][o] > 0 => Entered(i, o)'
      BY <3>2, <3>4, <3>5
    <3>7. ~runCancelled' => ~Open(i)'
      <4> SUFFICES ASSUME ~runCancelled PROVE ~Open(i)'
        BY <3>4
      <4>1. ~userCancelled
        BY DEF BookInv
      <4>2. r = "failed" => attempts'[i] = RetryMax
        BY <1>6, <2>3, <4>1 DEF Settles
      <4>3. /\ r \notin {"failed", "interrupted"} => status'[i] = "done"
            /\ r = "interrupted" => status'[i] = "downloading"
        BY <3>5, <4>1 DEF Entered
      <4> QED BY <4>2, <4>3 DEF Open, Outcome, ConfigAssumption
    <3> QED BY <2>1, <2>3, <3>3, <3>6, <3>7
  <2> QED BY <2>2, <2>3
<1>7. ASSUME NEW k \in Wanted, Revisits(k)
      PROVE  BookInv'
  <2>1. /\ UNCHANGED <<status, attempts, count>>
        /\ InHand' \cup sightings' \subseteq InHand \cup sightings
    BY <1>7 DEF Revisits
  <2>2. \A i \in Ordinary :
           /\ i \in InHand' \cup sightings' => i \in InHand \cup sightings
           /\ Blank(i)' <=> Blank(i)
           /\ Once(i)' <=> Once(i)
           /\ Open(i)' <=> Open(i)
           /\ \A o \in Outcome : Entered(i, o)' <=> Entered(i, o)
    BY <2>1 DEF Blank, Once, Open, Entered
  <2> QED BY <1>1, <1>2, <2>1, <2>2 DEF BookInv
<1> QED BY <1>4, <1>5, <1>6, <1>7, StepKind

LEMMA Books == Spec => []BookInv
<1>1. Init => BookInv
  BY BlankFirst
<1>2. IInv /\ BookInv /\ [Next]_vars => BookInv'
  BY BookStep, ItemsAssumption, ConfigAssumption
<1> QED BY <1>1, <1>2, Invariance, PTL DEF Spec

\* Whatever the interleaving, the cancellations and the errors, an ordinary
\* row is counted under one heading, once, and not while it is in hand.
THEOREM EachRowCountsOnce == Spec => []CountedOnce
<1>1. BookInv => CountedOnce
  BY DEF BookInv, CountedOnce, Once, Blank
<1> QED BY <1>1, Books, PTL

\* As long as the user does not interrupt, each entry of the summary is what
\* the manifest says of its row.
THEOREM SummaryAgrees == Spec => []SummaryMatchesManifest
<1>1. BookInv => SummaryMatchesManifest
  BY DEF BookInv, Entered, Outcome, SummaryMatchesManifest
<1> QED BY <1>1, Books, PTL

\* A claimed row leaves its hands either through a counter or because the run is
\* being cancelled.
THEOREM NothingIsDropped == Spec => NothingDropped
<1>1. IInv /\ BookInv /\ [Next]_vars =>
         [\A i \in Ordinary : i \in Owned /\ i \notin Owned' =>
             runCancelled' \/ \E o \in Outcome : count'[i][o] > count[i][o]]_vars
  <2> SUFFICES ASSUME IInv, BookInv, [Next]_vars, NEW i \in Ordinary,
                      i \in Owned, i \notin Owned', ~runCancelled'
               PROVE  \E o \in Outcome : count'[i][o] > count[i][o]
    OBVIOUS
  <2>1. ~Keeps
    BY DEF Keeps
  <2>2. ~FeedClaim
    BY DEF FeedClaim, IInv, Hands, Owned, Held, workVars
  <2>a. \A k \in Wanted : ~Revisits(k)
    BY DEF Revisits
  <2>3. PICK k \in Items, o \in Outcome : Settles(k, o)
    BY <2>1, <2>2, <2>a, StepKind, ItemsAssumption, ConfigAssumption
  <2>4. i = k
    BY <2>3 DEF Settles
  <2>5. Blank(k)
    BY <2>3, <2>4 DEF BookInv, Settles
  <2>6. count'[k][o] = 1
    BY <2>3, <2>5, FirstEntry DEF Settles
  <2>7. count[k][o] = 0
    BY <2>5 DEF Blank
  <2> QED BY <2>4, <2>6, <2>7
<1> QED BY <1>1, Books, Invariance, PTL DEF Spec, NothingDropped

-----------------------------------------------------------------------------
(* What a run that nobody cancelled leaves behind *)

\* The feeder never returns to a chat, so what it has passed must stay shut:
\* ordinary rows become claimable again in a cancelled run only.
DrainInv ==
    /\ ~runCancelled =>
          \A c \in chats : feedChat = NoChat \/ c < feedChat =>
             \A i \in Ordinary : ChatOf[i] = c => ~Open(i)
    /\ feedAt = "closed" => runCancelled \/ feedErr \/ feedChat = NoChat

\* What is in hand cannot be claimed.
LEMMA HeldShut ==
    ASSUME ItemsAssumption, ConfigAssumption, IInv, NEW i \in InHand
    PROVE  status[i] \in {"downloading", "done"}
BY Everybody DEF IInv, Hands, ClaimGrip, DrainGrip, InHand, Owned, Held

LEMMA ShutStays ==
    ASSUME ItemsAssumption, ConfigAssumption, IInv, BookInv, [Next]_vars, ~runCancelled',
           NEW i \in Ordinary, ~Open(i)
    PROVE  ~Open(i)'
<1>0. i \in Items
  BY DEF Ordinary
<1>1. CASE Keeps
  <2>1. status'[i] = status[i] /\ (i \notin InHand => attempts'[i] = attempts[i])
    BY <1>0, <1>1 DEF Keeps
  <2>2. i \in InHand => status[i] \notin {"queued", "failed"}
    BY HeldShut
  <2> QED BY <2>1, <2>2 DEF Open
<1>2. CASE FeedClaim
  BY <1>0, <1>2 DEF FeedClaim, Open
<1>3. ASSUME NEW k \in Items, NEW o \in Outcome, Settles(k, o)
      PROVE  ~Open(i)'
  <2>1. CASE i # k
    <3>1. status'[i] = status[i] /\ attempts'[i] = attempts[i]
      BY <1>0, <1>3, <2>1 DEF Settles
    <3> QED BY <3>1 DEF Open
  <2>2. CASE i = k
    <3>1. ~runCancelled /\ ~userCancelled
      BY <1>3 DEF Settles, cancelVars, BookInv
    <3>2. Entered(i, o)' /\ (o = "failed" => attempts'[i] = RetryMax)
      BY <1>3, <2>2, <3>1 DEF Settles
    <3> QED BY <3>2 DEF Entered, Open, Outcome, ConfigAssumption
  <2> QED BY <2>1, <2>2
<1>4. ASSUME NEW k \in Wanted, Revisits(k)
      PROVE  ~Open(i)'
  BY <1>4 DEF Revisits, Open
<1> QED BY <1>1, <1>2, <1>3, <1>4, StepKind

\* Only the feeder moves the feeder.
LEMMA FeederAlone ==
    ASSUME [Next]_vars, ~Feed
    PROVE  /\ UNCHANGED <<chats, feedChat, feedErr>>
           /\ feedAt' = "closed" <=> feedAt = "closed"
<1>1. CASE UNCHANGED vars \/ UserCancel \/ Returned
  BY <1>1 DEF vars, feedVars, UserCancel, Returned
<1>2. ASSUME NEW w, Ladder(w)
      PROVE  UNCHANGED feedVars
  BY <1>2 DEF Ladder, StartFetch, PaceCancelled, FetchSucceeds, FetchFails,
     Promote, PromoteFails, SettleInterrupted, LookAgain, SettleCancelled, SettleFatal,
     Park, ParkRecord, ParkFinish, ParkCancel, RefetchFatal, KeepTrying, ChargeAttempt,
     BackoffCancelled, Retry, Exhaust, Goto, Fails, failItem, interruptItem, LetGo
<1>3. ASSUME NEW w \in Workers, Work(w), ~Ladder(w), ~Receive(w)
      PROVE  UNCHANGED feedVars
  BY <1>3 DEF Work, Discard, TakeUp, PrecheckFails, PrepareFails, SkipPresent,
     LinkFromBlob, StartLadder, Exit, Goto, failItem, skipItem, linkBlobInto, LetGo
<1>4. ASSUME NEW w \in Workers, Receive(w)
      PROVE  /\ UNCHANGED <<chats, feedChat, feedErr>>
             /\ feedAt' = "closed" <=> feedAt = "closed"
  BY <1>4 DEF Receive
<1>5. ASSUME Drain, ~Ladder(Runner)
      PROVE  UNCHANGED <<chats, feedChat, feedErr, feedAt>>
  BY <1>5 DEF Drain, DrainTake, DrainThere, DrainUnserved, DrainLinks, DrainOpenFails,
     DrainOpens, DrainEnds, Goto, failItem, linkBlobInto, LetGo, feedVars
<1> QED BY <1>1, <1>2, <1>3, <1>4, <1>5 DEF Next, feedVars

LEMMA DrainStep ==
    ASSUME ItemsAssumption, ConfigAssumption, IInv, BookInv, DrainInv, [Next]_vars
    PROVE  DrainInv'
<1>1. runCancelled => runCancelled'
  BY CancelsStay
<1>2. Ordinary' = Ordinary
  BY DEF Ordinary
<1>3. \A i \in Ordinary : ~runCancelled' /\ ~Open(i) => ~Open(i)'
  BY ShutStays
<1>4. CASE ~Feed
  <2>1. /\ UNCHANGED <<chats, feedChat, feedErr>>
        /\ feedAt' = "closed" <=> feedAt = "closed"
    BY <1>4, FeederAlone
  <2> QED BY <1>1, <1>2, <1>3, <2>1 DEF DrainInv
<1>5. CASE FeedClaim \/ FeedClose \/ FeedError
  <2>1. UNCHANGED <<chats, feedChat, pc, runCancelled>>
    BY <1>5 DEF FeedClaim, FeedClose, FeedError, CloseFeed, workVars, cancelVars
  <2>2. feedAt' = "closed" => runCancelled' \/ feedErr' \/ feedChat' = NoChat
    BY <1>5, <2>1 DEF FeedClaim, FeedClose, FeedError, CloseFeed
  <2> QED BY <1>1, <1>2, <1>3, <2>1, <2>2 DEF DrainInv
<1>6. CASE FeedNextChat
  <2>1. UNCHANGED <<chats, feedAt, pc, runCancelled, status, attempts>> /\ feedAt # "closed"
    BY <1>6 DEF FeedNextChat, workVars, cancelVars, rowVars
  <2>2. \A c \in chats : feedChat' = NoChat \/ c < feedChat' => c <= feedChat
    <3>1. chats \subseteq Nat /\ feedChat \in Nat
      BY DEF IInv, TypeOK
    <3>2. CASE ChatsAfter(feedChat) = {}
      BY <3>1, <3>2 DEF ChatsAfter
    <3>3. CASE ChatsAfter(feedChat) # {}
      <4>1. IsFirst(feedChat', ChatsAfter(feedChat))
        BY <1>6, <3>3 DEF FeedNextChat
      <4>2. feedChat' # NoChat /\ feedChat' \in Nat
        BY <4>1 DEF IsFirst, ChatsAfter, IInv, TypeOK, NoChat
      <4> QED BY <3>1, <4>1, <4>2 DEF IsFirst, ChatsAfter
    <3> QED BY <3>2, <3>3
  <2>3. \A i \in Ordinary : ChatOf[i] = feedChat => ~Open(i)
    BY <1>6 DEF FeedNextChat, Claimable, Open, Ordinary
  <2>4. feedChat # NoChat /\ feedChat \in Nat /\ chats \subseteq Nat
    BY <1>6 DEF FeedNextChat, IInv, TypeOK
  <2>5. ASSUME ~runCancelled', NEW c \in chats, feedChat' = NoChat \/ c < feedChat',
               NEW i \in Ordinary, ChatOf[i] = c
        PROVE  ~Open(i)'
    <3>1. c < feedChat \/ c = feedChat
      BY <2>2, <2>4, <2>5
    <3>2. ~Open(i)
      BY <2>1, <2>3, <2>5, <3>1 DEF DrainInv
    <3> QED BY <1>3, <2>5, <3>2
  <2> QED BY <1>2, <2>1, <2>5 DEF DrainInv
<1> QED BY <1>4, <1>5, <1>6 DEF Feed

LEMMA NothingPassedYet ==
    ASSUME ItemsAssumption, Init
    PROVE  DrainInv
<1>1. feedChat \in chats /\ \A c \in chats : feedChat <= c
  BY DEF Init, IsFirst
<1>2. chats \subseteq Nat \ {0}
  BY DEF Init, ItemsAssumption
<1>3. feedAt = "claim"
  BY DEF Init
<1> QED BY <1>1, <1>2, <1>3 DEF DrainInv, NoChat

\* A run that ends uncancelled and without a store error has left no ordinary
\* row of its chats claimable, though its feeder visits each chat only once.
THEOREM RunsDrain == Spec => []Drained
<1>1. Init => DrainInv
  BY NothingPassedYet, ItemsAssumption
<1>2. IInv /\ BookInv /\ DrainInv /\ [Next]_vars => DrainInv'
  BY DrainStep, ItemsAssumption, ConfigAssumption
<1>3. IInv /\ DrainInv => Drained
  <2> SUFFICES ASSUME IInv, DrainInv, Finished, ~runCancelled, ~feedErr, NEW c \in chats,
                      NEW i \in Claimable(c) \cap Ordinary
               PROVE  FALSE
    BY DEF Drained
  <2>1. \A w \in Workers : pc[w] = "exited"
    BY DEF Finished, IInv, Hands, DrainGrip
  <2>2. feedChat = NoChat
    BY <2>1, NoClaimsLeft, ItemsAssumption, ConfigAssumption DEF DrainInv
  <2>3. ChatOf[i] = c /\ Open(i)
    BY DEF Claimable, Open
  <2> QED BY <2>2, <2>3 DEF DrainInv
<1> QED BY <1>1, <1>2, <1>3, Books, Invariance, PTL DEF Spec

-----------------------------------------------------------------------------
(* Parks *)

\* parkRun's writes in their order, for several workers inside it at once.
ParkInv ==
    /\ ParkedIsRecorded
    /\ \A w \in Crew :
          /\ pc[w] \in {"park", "parkFinish", "parkCancel"} => wait[w] # 0
          /\ pc[w] \in {"parkFinish", "parkCancel"} /\ ~userCancelled => resumeAt # 0
          /\ pc[w] = "parkCancel" /\ ~userCancelled => runStatus = "parked"

\* Outside parkRun nobody moves towards a park except through Park, and
\* nobody touches the run's record.
Strolls(w) ==
    /\ UNCHANGED <<runVars, userCancelled>>
    /\ \E p \in Point \ {"park", "parkFinish", "parkCancel"} : pc' = [pc EXCEPT ![w] = p]
    /\ \A v \in Crew \ {w} : wait'[v] = wait[v]

LEMMA LetGoStrolls ==
    ASSUME IInv, NEW w \in Crew, LetGo(w)
    PROVE  Strolls(w)
<1>1. wait \in [Crew -> FloodWaits \cup {0}]
  BY DEF IInv, TypeOK
<1> QED BY <1>1 DEF LetGo, BackToChannel, cancelVars, Point, Strolls

LEMMA GotoStrolls ==
    ASSUME NEW w, NEW p \in Point \ {"park", "parkFinish", "parkCancel"}, Goto(w, p)
    PROVE  Strolls(w)
BY DEF Goto, cancelVars, Strolls

LEMMA OutsidePark ==
    ASSUME ItemsAssumption, ConfigAssumption, IInv, NEW w \in Crew, Ladder(w),
           ~Park(w), ~ParkRecord(w), ~ParkFinish(w), ~ParkCancel(w)
    PROVE  Strolls(w)
<1>1. wait \in [Crew -> FloodWaits \cup {0}]
  BY DEF IInv, TypeOK
<1>2. CASE \/ SettleCancelled(w) \/ SettleFatal(w) \/ SettleInterrupted(w) \/ RefetchFatal(w)
           \/ Exhaust(w) \/ BackoffCancelled(w) \/ Promote(w)
  BY <1>2, LetGoStrolls DEF SettleCancelled, SettleFatal, SettleInterrupted, RefetchFatal,
     Exhaust, BackoffCancelled, Promote, failItem, interruptItem
<1>3. CASE PaceCancelled(w) \/ FetchFails(w) \/ PromoteFails(w)
  <2>1. \E e \in ErrorClass, seconds \in FloodWaits \cup {0} : Fails(w, e, seconds)
    BY <1>3 DEF PaceCancelled, FetchFails, PromoteFails, ErrorClass
  <2> QED BY <1>1, <2>1 DEF Fails, cancelVars, Point, Strolls
<1>4. CASE StartFetch(w) \/ FetchSucceeds(w) \/ LookAgain(w) \/ KeepTrying(w)
  BY <1>4, GotoStrolls DEF StartFetch, FetchSucceeds, LookAgain, KeepTrying, Point
<1>5. CASE ChargeAttempt(w) \/ Retry(w)
  BY <1>5 DEF ChargeAttempt, Retry, cancelVars, Point, Strolls
<1> QED BY <1>2, <1>3, <1>4, <1>5 DEF Ladder

LEMMA OutsideLadder ==
    ASSUME ItemsAssumption, ConfigAssumption, IInv, NEW w \in Workers, Work(w), ~Ladder(w)
    PROVE  Strolls(w)
<1>crew. w \in Crew
  BY Everybody
<1>1. CASE PrecheckFails(w) \/ PrepareFails(w) \/ SkipPresent(w) \/ LinkFromBlob(w) \/ Discard(w)
  BY <1>1, <1>crew, LetGoStrolls DEF PrecheckFails, PrepareFails, SkipPresent, LinkFromBlob,
     Discard, failItem, skipItem, linkBlobInto
<1>2. CASE Receive(w) \/ StartLadder(w)
  BY <1>2 DEF Receive, StartLadder, cancelVars, Point, Strolls
<1>3. CASE TakeUp(w) \/ Exit(w)
  BY <1>3, GotoStrolls DEF TakeUp, Exit, Point
<1> QED BY <1>1, <1>2, <1>3 DEF Work

LEMMA DrainOutsideLadder ==
    ASSUME ItemsAssumption, ConfigAssumption, IInv, Drain, ~Ladder(Runner)
    PROVE  Strolls(Runner)
<1>crew. Runner \in Crew
  BY Everybody
<1>1. CASE DrainThere \/ DrainUnserved \/ DrainLinks \/ DrainOpenFails
  BY <1>1, <1>crew, LetGoStrolls DEF DrainThere, DrainUnserved, DrainLinks, DrainOpenFails,
     failItem, linkBlobInto
<1>2. CASE DrainOpens \/ \E i \in sightings : DrainTake(i)
  BY <1>2 DEF DrainOpens, DrainTake, cancelVars, Point, Strolls
<1>3. CASE DrainEnds
  BY <1>3, GotoStrolls DEF DrainEnds, Point
<1> QED BY <1>1, <1>2, <1>3 DEF Drain

LEMMA ParkStep ==
    ASSUME ItemsAssumption, ConfigAssumption, IInv, ParkInv, [Next]_vars
    PROVE  ParkInv'
<1>types. /\ pc \in [Crew -> Point]
          /\ wait \in [Crew -> FloodWaits \cup {0}]
  BY DEF IInv, TypeOK
<1>1. CASE UNCHANGED vars \/ Returned
  BY <1>1 DEF vars, runVars, workVars, cancelVars, Returned, ParkInv, ParkedIsRecorded
<1>2. CASE UserCancel
  BY <1>2 DEF UserCancel, runVars, workVars, ParkInv, ParkedIsRecorded
<1>3. CASE Feed
  <2>1. UNCHANGED <<runVars, workVars, cancelVars>>
    BY <1>3 DEF Feed, FeedClaim, FeedNextChat, FeedClose, FeedError, CloseFeed
  <2> QED BY <2>1 DEF runVars, workVars, cancelVars, ParkInv, ParkedIsRecorded
<1>4. ASSUME NEW w \in Crew, Strolls(w)
      PROVE  ParkInv'
  <2>1. PICK p \in Point \ {"park", "parkFinish", "parkCancel"} : pc' = [pc EXCEPT ![w] = p]
    BY <1>4 DEF Strolls
  <2> QED BY <1>4, <1>types, <2>1 DEF Strolls, runVars, ParkInv, ParkedIsRecorded
<1>5. ASSUME NEW w \in Crew, Ladder(w)
      PROVE  ParkInv'
  <2>1. CASE Park(w)
    <3>1. wait[w] # 0
      BY <2>1 DEF Park, ShouldPark, ConfigAssumption
    <3>2. /\ pc' = [pc EXCEPT ![w] = "park"]
          /\ UNCHANGED <<wait, runVars, userCancelled>>
      BY <2>1 DEF Park, Goto, cancelVars
    <3> QED BY <1>types, <3>1, <3>2 DEF runVars, ParkInv, ParkedIsRecorded
  <2>2. CASE ParkRecord(w)
    <3>1. /\ pc' = [pc EXCEPT ![w] = "parkFinish"]
          /\ UNCHANGED <<wait, runStatus, parked, userCancelled>>
          /\ ~userCancelled => resumeAt' = wait[w]
      BY <2>2 DEF ParkRecord, cancelVars
    <3>2. wait[w] # 0
      BY <2>2 DEF ParkRecord, ParkInv
    <3> QED BY <1>types, <3>1, <3>2 DEF ParkInv, ParkedIsRecorded
  <2>3. CASE ParkFinish(w)
    <3>1. /\ pc' = [pc EXCEPT ![w] = "parkCancel"] /\ pc[w] = "parkFinish"
          /\ UNCHANGED <<wait, resumeAt, parked, userCancelled>>
          /\ ~userCancelled => runStatus' = "parked"
      BY <2>3 DEF ParkFinish, cancelVars
    <3> QED BY <1>types, <3>1 DEF ParkInv, ParkedIsRecorded
  <2>4. CASE ParkCancel(w)
    <3>1. /\ pc' = [pc EXCEPT ![w] = "idle"] /\ pc[w] = "parkCancel"
          /\ wait' = [wait EXCEPT ![w] = 0]
          /\ UNCHANGED <<runStatus, resumeAt, userCancelled>>
      BY <2>4 DEF ParkCancel, BackToChannel
    <3>2. ~userCancelled => runStatus = "parked" /\ resumeAt # 0
      BY <3>1 DEF ParkInv
    <3> QED BY <1>types, <3>1, <3>2 DEF ParkInv, ParkedIsRecorded
  <2> QED BY <1>4, <1>5, <2>1, <2>2, <2>3, <2>4, OutsidePark
<1>6. Workers \subseteq Crew /\ Runner \in Crew
  BY Everybody
<1>7. ASSUME NEW w \in Workers, Work(w) PROVE ParkInv'
  BY <1>4, <1>5, <1>6, <1>7, OutsideLadder
<1>8. ASSUME Drain PROVE ParkInv'
  BY <1>4, <1>5, <1>6, <1>8, DrainOutsideLadder
<1> QED BY <1>1, <1>2, <1>3, <1>7, <1>8 DEF Next

\* A run that reports a park has it in the store, with a time to resume at,
\* however many workers park it at once.
THEOREM ParksAreRecorded == Spec => []ParkedIsRecorded
<1>1. Init => ParkInv
  BY DEF Init, ParkInv, ParkedIsRecorded
<1>2. IInv /\ ParkInv /\ [Next]_vars => ParkInv'
  BY ParkStep, ItemsAssumption, ConfigAssumption
<1>3. ParkInv => ParkedIsRecorded
  BY DEF ParkInv
<1> QED BY <1>1, <1>2, <1>3, Invariance, PTL DEF Spec
=============================================================================
