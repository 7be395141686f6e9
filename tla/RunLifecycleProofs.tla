-------------------------- MODULE RunLifecycleProofs --------------------------
(***************************************************************************)
(* Theorems about RunLifecycle, for any number of chats, messages, files,  *)
(* processes and runs: what a watermark covers, what becomes of rows an    *)
(* ending process leaves claimed, and who may reopen a finished row.       *)
(***************************************************************************)
EXTENDS RunLifecycle, TLAPS

\* A walk of every message; a scan limit lets the watermark pass unscanned ones.
Unlimited == Limit = 0

Positions ==
    /\ present \in [Chats -> SUBSET IDs] /\ posted \in [Chats -> 0..MaxID]
    /\ watermark \in [Chats -> Nat]
    /\ maxSeen \in [Procs -> [Chats -> Nat]] /\ from \in [Procs -> Nat]
    /\ DOMAIN status = Msgs /\ DOMAIN pc = Procs /\ DOMAIN at = Procs
    /\ DOMAIN items = Procs

\* Nothing a process remembers is ahead of what has been posted.
Behind ==
    /\ \A c \in Chats : watermark[c] <= posted[c]
    /\ \A c \in Chats : \A i \in present[c] : i <= posted[c]
    /\ \A p \in Procs, c \in Chats : maxSeen[p][c] <= posted[c]
    /\ \A p \in Procs, c \in Chats : at[p] = c => from[p] <= posted[c]

\* Every file the process has walked past is recorded or among its items, and
\* there are none left when it may move a watermark.
Accounts(p, c) ==
    \A i \in present[c] :
        i <= maxSeen[p][c] /\ FileOf[<<c, i>>] \in Wanted
            => Recorded(<<c, i>>) \/ <<c, i>> \in items[p]
Collected(p) ==
    /\ pc[p] = "page" => at[p] \in Chats
    /\ \A c \in Chats : at[p] = c => CoveredUpTo(c, from[p], Wanted)
    /\ \A c \in Chats : Accounts(p, c)
    /\ pc[p] \in {"run", "drain", "broken", "parking", "advance"} => items[p] = {}

Covers == \A c \in Chats : CoveredUpTo(c, watermark[c], Wanted)

CoverInv == Positions /\ Behind /\ Covers /\ \A p \in Procs : Collected(p)

-----------------------------------------------------------------------------
(* Rows are never deleted *)

Remembers == \A m \in Msgs : status[m] # "none" => status'[m] # "none"

LEMMA RecordedStays ==
    ASSUME Remembers, NEW m, Recorded(m) PROVE Recorded(m)'
BY DEF Recorded, Remembers

LEMMA UpsertRecords ==
    ASSUME DOMAIN status = Msgs, NEW m \in Msgs, NEW st \in Statuses, UpsertMedia(m, st)
    PROVE  Remembers /\ Recorded(m)' /\ DOMAIN status' = Msgs
<1>1. st # "none"
  BY DEF Statuses
<1>2. CASE Stores(m)
  <2>1. status' = [status EXCEPT ![m] = st]
    BY <1>2 DEF UpsertMedia
  <2>2. status'[m] # "none"
    BY <1>1, <2>1
  <2> QED BY <1>1, <2>1, <2>2 DEF Remembers, Recorded
<1>3. CASE ~Stores(m)
  <2>1. status' = status
    BY <1>3 DEF UpsertMedia, rowVars
  <2>2. \E o \in Msgs : status[o] # "none" /\ FileOf[o] = FileOf[m]
    BY <1>3 DEF Stores, Tracked
  <2> QED BY <2>1, <2>2 DEF Remembers, Recorded
<1> QED BY <1>2, <1>3

LEMMA ResetRemembers ==
    ASSUME DOMAIN status = Msgs, ResetDownloading
    PROVE  Remembers /\ DOMAIN status' = Msgs
BY DEF ResetDownloading, Remembers

-----------------------------------------------------------------------------
(* What others do takes nothing away from a process *)

\* The history only grows at its end.
GrowsAtEnd == \A c \in Chats : present'[c] \subseteq present[c] \cup {posted[c] + 1}

LEMMA CoverStays ==
    ASSUME Positions, Remembers, GrowsAtEnd, NEW c \in Chats, NEW n \in Nat, n <= posted[c],
           CoveredUpTo(c, n, Wanted)
    PROVE  \A i \in present'[c] : i <= n /\ FileOf[<<c, i>>] \in Wanted => Recorded(<<c, i>>)'
<1> SUFFICES ASSUME NEW i \in present'[c], i <= n, FileOf[<<c, i>>] \in Wanted
             PROVE  Recorded(<<c, i>>)'
  OBVIOUS
<1>1. posted[c] \in Nat
  BY DEF Positions
<1>2. i \in present[c]
  BY <1>1 DEF GrowsAtEnd
<1>3. Recorded(<<c, i>>)
  BY <1>2 DEF CoveredUpTo
<1> QED BY <1>3, RecordedStays

\* The places of a process are as they were.
Same(q) ==
    /\ maxSeen'[q] = maxSeen[q] /\ items'[q] = items[q]
    /\ at'[q] = at[q] /\ from'[q] = from[q] /\ pc'[q] = pc[q]

LEMMA CollectedStays ==
    ASSUME CoverInv, Remembers, GrowsAtEnd, NEW q \in Procs, Same(q)
    PROVE  Collected(q)'
<1>1. ASSUME NEW c \in Chats, at'[q] = c PROVE CoveredUpTo(c, from[q], Wanted)'
  <2>1. at[q] = c /\ from[q] \in Nat /\ from[q] <= posted[c] /\ CoveredUpTo(c, from[q], Wanted)
    BY <1>1 DEF Same, CoverInv, Collected, Behind, Positions
  <2>2. from'[q] = from[q]
    BY DEF Same
  <2>3. \A i \in present'[c] : i <= from[q] /\ FileOf[<<c, i>>] \in Wanted => Recorded(<<c, i>>)'
    BY <2>1, CoverStays DEF CoverInv
  <2> QED BY <2>2, <2>3 DEF CoveredUpTo, Wanted
<1>2. ASSUME NEW c \in Chats PROVE Accounts(q, c)'
  <2> SUFFICES ASSUME NEW i \in present'[c], i <= maxSeen[q][c], FileOf[<<c, i>>] \in Wanted
               PROVE  Recorded(<<c, i>>)' \/ <<c, i>> \in items[q]
    BY DEF Accounts, Same, Wanted
  <2>1. posted[c] \in Nat /\ maxSeen[q][c] \in Nat /\ maxSeen[q][c] <= posted[c]
    BY DEF CoverInv, Positions, Behind
  <2>2. i \in present[c]
    BY <2>1 DEF GrowsAtEnd
  <2>3. Recorded(<<c, i>>) \/ <<c, i>> \in items[q]
    BY <2>2 DEF CoverInv, Collected, Accounts
  <2> QED BY <2>3, RecordedStays
<1>3. pc'[q] \in {"run", "drain", "broken", "parking", "advance"} => items'[q] = {}
  BY DEF Same, CoverInv, Collected
<1>4. pc'[q] = "page" => at'[q] \in Chats
  BY DEF Same, CoverInv, Collected
<1> QED BY <1>1, <1>2, <1>3, <1>4 DEF Collected

\* A step of Telegram or of the store alone.
LEMMA WorldStep ==
    ASSUME CoverInv, Remembers, GrowsAtEnd, Positions', Behind', UNCHANGED watermark,
           \A q \in Procs : Same(q)
    PROVE  CoverInv'
<1>1. \A q \in Procs : Collected(q)'
  BY CollectedStays
<1>2. ASSUME NEW c \in Chats PROVE CoveredUpTo(c, watermark[c], Wanted)'
  <2>1. watermark[c] \in Nat /\ watermark[c] <= posted[c] /\ CoveredUpTo(c, watermark[c], Wanted)
    BY DEF CoverInv, Positions, Behind, Covers
  <2>2. \A i \in present'[c] :
           i <= watermark[c] /\ FileOf[<<c, i>>] \in Wanted => Recorded(<<c, i>>)'
    BY <2>1, CoverStays DEF CoverInv
  <2> QED BY <2>2 DEF CoveredUpTo, Wanted
<1> QED BY <1>1, <1>2 DEF CoverInv, Covers

\* A step of one process that leaves Telegram and the watermarks alone.
LEMMA ProcStep ==
    ASSUME CoverInv, Remembers, UNCHANGED <<present, posted, watermark>>,
           Positions', Behind', NEW p \in Procs, Collected(p)',
           \A q \in Procs \ {p} : Same(q)
    PROVE  CoverInv'
<1>1. GrowsAtEnd
  BY DEF GrowsAtEnd
<1>2. \A q \in Procs : Collected(q)'
  BY <1>1, CollectedStays
<1>3. ASSUME NEW c \in Chats PROVE CoveredUpTo(c, watermark[c], Wanted)'
  <2>1. watermark[c] \in Nat /\ watermark[c] <= posted[c] /\ CoveredUpTo(c, watermark[c], Wanted)
    BY DEF CoverInv, Positions, Behind, Covers
  <2>2. \A i \in present'[c] :
           i <= watermark[c] /\ FileOf[<<c, i>>] \in Wanted => Recorded(<<c, i>>)'
    BY <1>1, <2>1, CoverStays DEF CoverInv
  <2> QED BY <2>2 DEF CoveredUpTo, Wanted
<1> QED BY <1>2, <1>3 DEF CoverInv, Covers

-----------------------------------------------------------------------------
(* The shapes of a process's steps *)

\* A process that begins a run, or is over, has walked past nothing.
LEMMA FreshStep ==
    ASSUME CoverInv, Remembers, DOMAIN status' = Msgs, UNCHANGED <<present, posted, watermark>>,
           NEW p \in Procs, NEW l, l # "page", pc' = [pc EXCEPT ![p] = l],
           at' = [at EXCEPT ![p] = NoChat], from' = [from EXCEPT ![p] = 0],
           maxSeen' = [maxSeen EXCEPT ![p] = [c \in Chats |-> 0]],
           items' = [items EXCEPT ![p] = {}]
    PROVE  CoverInv'
<1>1. Positions'
  BY DEF CoverInv, Positions
<1>2. Behind'
  BY DEF CoverInv, Positions, Behind
<1>3. \A q \in Procs \ {p} : Same(q)
  BY DEF Same, CoverInv, Positions
<1>4. /\ from'[p] = 0 /\ (\A c \in Chats : maxSeen'[p][c] = 0) /\ items'[p] = {}
      /\ pc'[p] = l
  BY DEF CoverInv, Positions
<1>5. \A c \in Chats : \A i \in present'[c] : ~(i <= 0)
  BY DEF CoverInv, Positions, IDs
<1>6. Collected(p)'
  BY <1>4, <1>5 DEF Collected, CoveredUpTo, Accounts
<1> QED BY <1>1, <1>2, <1>3, <1>6, ProcStep

\* A process that drops none of its items but those recorded or not owed.
LEMMA ItemsStep ==
    ASSUME CoverInv, Remembers, DOMAIN status' = Msgs, UNCHANGED <<present, posted, watermark>>,
           UNCHANGED <<at, from, maxSeen>>, NEW p \in Procs, NEW l, NEW rest,
           DOMAIN pc' = Procs, pc'[p] = l, \A q \in Procs \ {p} : pc'[q] = pc[q],
           DOMAIN items' = Procs, items'[p] = rest, \A q \in Procs \ {p} : items'[q] = items[q],
           \A m \in items[p] \ rest : FileOf[m] \in Wanted => Recorded(m)',
           l \in {"run", "drain", "broken", "parking", "advance"} => rest = {},
           l # "page" \/ at[p] \in Chats
    PROVE  CoverInv'
<1>1. Positions'
  BY DEF CoverInv, Positions
<1>2. Behind'
  BY DEF CoverInv, Positions, Behind
<1>3. \A q \in Procs \ {p} : Same(q)
  BY DEF Same, CoverInv, Positions
<1>4. pc'[p] = l /\ items'[p] = rest
  BY DEF CoverInv, Positions
<1>5. ASSUME NEW c \in Chats, at[p] = c PROVE CoveredUpTo(c, from[p], Wanted)'
  <2>1. from[p] \in Nat /\ from[p] <= posted[c] /\ CoveredUpTo(c, from[p], Wanted) /\ GrowsAtEnd
    BY <1>5 DEF CoverInv, Positions, Behind, Collected, GrowsAtEnd
  <2>2. \A i \in present'[c] : i <= from[p] /\ FileOf[<<c, i>>] \in Wanted => Recorded(<<c, i>>)'
    BY <2>1, CoverStays DEF CoverInv
  <2> QED BY <2>2 DEF CoveredUpTo, Wanted
<1>6. ASSUME NEW c \in Chats PROVE Accounts(p, c)'
  <2> SUFFICES ASSUME NEW i \in present[c], i <= maxSeen[p][c], FileOf[<<c, i>>] \in Wanted
               PROVE  Recorded(<<c, i>>)' \/ <<c, i>> \in rest
    BY <1>4 DEF Accounts, Wanted
  <2>1. Recorded(<<c, i>>) \/ <<c, i>> \in items[p]
    BY DEF CoverInv, Collected, Accounts
  <2> QED BY <2>1, RecordedStays
<1>7. Collected(p)'
  BY <1>4, <1>5, <1>6 DEF Collected
<1> QED BY <1>1, <1>2, <1>3, <1>7, ProcStep

\* A process that touches none of its places but its program point.
LEMMA QuietStep ==
    ASSUME CoverInv, Remembers, DOMAIN status' = Msgs, UNCHANGED <<present, posted, watermark>>,
           UNCHANGED <<at, from, maxSeen, items>>, NEW p \in Procs,
           \/ pc' = pc
           \/ \E l : pc' = [pc EXCEPT ![p] = l]
                     /\ l # "page" /\ (l \in {"run", "drain", "broken", "parking", "advance"} => items[p] = {})
    PROVE  CoverInv'
<1>1. DOMAIN items' = Procs /\ items' = items
  BY DEF CoverInv, Positions
<1>2. /\ DOMAIN pc' = Procs /\ \A q \in Procs \ {p} : pc'[q] = pc[q]
      /\ pc'[p] \in {"run", "drain", "broken", "parking", "advance"} => items[p] = {}
      /\ pc'[p] # "page" \/ at[p] \in Chats
  <2>1. CASE pc' = pc
    BY <2>1 DEF CoverInv, Positions, Collected
  <2>2. ASSUME NEW l, pc' = [pc EXCEPT ![p] = l], l # "page",
               l \in {"run", "drain", "broken", "parking", "advance"} => items[p] = {}
        PROVE  <1>2!1 /\ <1>2!2 /\ <1>2!3
    BY <2>2 DEF CoverInv, Positions
  <2> QED BY <2>1, <2>2
<1> QED BY <1>1, <1>2, ItemsStep

\* A process that decides the window of a chat: everything or from its watermark.
LEMMA WindowStep ==
    ASSUME CoverInv, Remembers, DOMAIN status' = Msgs, UNCHANGED <<present, posted>>,
           NEW p \in Procs, NEW c \in Chats, NEW minID \in {0, watermark[c]},
           Walks(p, c, minID),
           \/ UNCHANGED watermark
           \/ ResetWatermark(c)
    PROVE  CoverInv'
<1>1. /\ at' = [at EXCEPT ![p] = c] /\ from' = [from EXCEPT ![p] = minID]
      /\ pc' = [pc EXCEPT ![p] = "page"] /\ UNCHANGED <<maxSeen, items>>
  BY DEF Walks, Goto
<1>2. minID \in Nat /\ minID <= posted[c] /\ CoveredUpTo(c, minID, Wanted)
  BY DEF CoverInv, Positions, Behind, Covers, CoveredUpTo, IDs
<1>3. watermark' \in [Chats -> Nat] /\ \A d \in Chats : watermark'[d] \in {0, watermark[d]}
  BY DEF CoverInv, Positions, ResetWatermark
<1>4. Positions'
  BY <1>1, <1>2, <1>3 DEF CoverInv, Positions
<1>5. Behind'
  BY <1>1, <1>2, <1>3 DEF CoverInv, Positions, Behind
<1>6. GrowsAtEnd
  BY DEF GrowsAtEnd
<1>7. \A q \in Procs \ {p} : Same(q)
  BY <1>1 DEF Same, CoverInv, Positions
<1>8. at'[p] = c /\ from'[p] = minID /\ pc'[p] = "page"
      /\ maxSeen'[p] = maxSeen[p] /\ items'[p] = items[p]
  BY <1>1 DEF CoverInv, Positions
<1>9. CoveredUpTo(c, minID, Wanted)'
  <2>1. \A i \in present'[c] : i <= minID /\ FileOf[<<c, i>>] \in Wanted => Recorded(<<c, i>>)'
    BY <1>2, <1>6, CoverStays DEF CoverInv
  <2> QED BY <2>1 DEF CoveredUpTo, Wanted
<1>10. ASSUME NEW d \in Chats PROVE Accounts(p, d)'
  <2> SUFFICES ASSUME NEW i \in present[d], i <= maxSeen[p][d], FileOf[<<d, i>>] \in Wanted
               PROVE  Recorded(<<d, i>>)' \/ <<d, i>> \in items[p]
    BY <1>8 DEF Accounts, Wanted
  <2>1. Recorded(<<d, i>>) \/ <<d, i>> \in items[p]
    BY DEF CoverInv, Collected, Accounts
  <2> QED BY <2>1, RecordedStays
<1>11. Collected(p)'
  BY <1>8, <1>9, <1>10 DEF Collected
<1>12. \A q \in Procs : Collected(q)'
  BY <1>6, <1>7, <1>11, CollectedStays
<1>13. ASSUME NEW d \in Chats PROVE CoveredUpTo(d, watermark[d], Wanted)'
  <2>1. CASE watermark'[d] = 0
    <3>1. \A i \in present'[d] : ~(i <= 0)
      BY DEF CoverInv, Positions, IDs
    <3> QED BY <2>1, <3>1 DEF CoveredUpTo
  <2>2. CASE watermark'[d] = watermark[d]
    <3>1. watermark[d] \in Nat /\ watermark[d] <= posted[d] /\ CoveredUpTo(d, watermark[d], Wanted)
      BY DEF CoverInv, Positions, Behind, Covers
    <3>2. \A i \in present'[d] :
             i <= watermark[d] /\ FileOf[<<d, i>>] \in Wanted => Recorded(<<d, i>>)'
      BY <1>6, <3>1, CoverStays DEF CoverInv
    <3> QED BY <2>2, <3>2 DEF CoveredUpTo, Wanted
  <2> QED BY <1>3, <2>1, <2>2
<1> QED BY <1>4, <1>5, <1>12, <1>13 DEF CoverInv, Covers

-----------------------------------------------------------------------------
(* The steps *)

\* The walk collects every file behind its window, and only then remembers it.
LEMMA WalkStep ==
    ASSUME FilesAssumption, Unlimited, CoverInv, NEW p \in Procs, Walk(p) PROVE CoverInv'
<1> DEFINE c == at[p]
<1>1. c \in Chats /\ pc[p] = "page"
  BY DEF Walk, CoverInv, Collected
<1>2. PICK ids \in SUBSET Page(c, from[p]), filter \in Filters :
         /\ mode[p] # "get" => ids = Page(c, from[p])
         /\ Observe(p, c, {i \in ids : Passes(<<c, i>>, filter)})
  BY DEF Walk
<1> DEFINE found == {i \in ids : Passes(<<c, i>>, filter)}
<1>3. /\ at' = [at EXCEPT ![p] = NoChat] /\ from' = [from EXCEPT ![p] = 0]
      /\ pc' = [pc EXCEPT ![p] = "walk"] /\ UNCHANGED <<present, posted, watermark, status>>
  BY DEF Walk, Goto, historyVars, rowVars
<1>4. PICK top \in found \cup {0} :
         /\ \A i \in found : i <= top
         /\ IF mode[p] = "get" THEN UNCHANGED maxSeen
            ELSE maxSeen' = [maxSeen EXCEPT ![p][c] = IF top > @ THEN top ELSE @]
  BY <1>2 DEF Observe
<1>5. items' = [items EXCEPT ![p] = @ \cup {m \in {c} \X found : HasFile(m)}]
  BY <1>2 DEF Observe
<1>6. Page(c, from[p]) = {i \in present[c] : i > from[p]}
  BY DEF Page, Unlimited
<1>7. /\ found \subseteq present[c] /\ present[c] \subseteq IDs /\ IDs \subseteq Nat
      /\ top \in Nat /\ top <= posted[c]
  <2>1. found \subseteq present[c] /\ present[c] \subseteq IDs /\ IDs \subseteq Nat
    BY <1>1, <1>6 DEF CoverInv, Positions, IDs
  <2>2. \A i \in present[c] : i <= posted[c]
    BY <1>1 DEF CoverInv, Behind
  <2>3. posted[c] \in Nat
    BY <1>1 DEF CoverInv, Positions
  <2>4. top = 0 \/ top \in present[c]
    BY <2>1
  <2> HIDE DEF found, c
  <2>5. top \in Nat
    <3>1. CASE top = 0
      BY <3>1
    <3>2. CASE top \in present[c]
      <4>1. top \in IDs
        BY <2>1, <3>2
      <4> QED BY <2>1, <4>1
    <3> QED BY <2>4, <3>1, <3>2
  <2>6. top <= posted[c]
    BY <2>2, <2>3, <2>4
  <2> QED BY <2>1, <2>5, <2>6
<1> HIDE DEF found
<1>8. Remembers
  BY <1>3 DEF Remembers
<1> HIDE DEF c
<1>9. /\ maxSeen' \in [Procs -> [Chats -> Nat]]
      /\ \A q \in Procs, d \in Chats :
            \/ maxSeen'[q][d] = maxSeen[q][d]
            \/ q = p /\ d = c /\ maxSeen'[q][d] = top /\ mode[p] # "get"
  <2>1. maxSeen \in [Procs -> [Chats -> Nat]]
    BY DEF CoverInv, Positions
  <2>2. CASE mode[p] = "get"
    <3>1. maxSeen' = maxSeen
      BY <1>4, <2>2
    <3> QED BY <2>1, <3>1
  <2>3. CASE mode[p] # "get"
    <3> DEFINE t == IF top > maxSeen[p][c] THEN top ELSE maxSeen[p][c]
    <3>1. maxSeen' = [maxSeen EXCEPT ![p][c] = t]
      BY <1>4, <2>3
    <3>2. t \in Nat /\ t \in {top, maxSeen[p][c]}
      BY <1>1, <1>7, <2>1
    <3> HIDE DEF t
    <3>3. maxSeen' \in [Procs -> [Chats -> Nat]]
      BY <1>1, <2>1, <3>1, <3>2
    <3>4. ASSUME NEW q \in Procs, NEW d \in Chats
          PROVE  maxSeen'[q][d] = IF q = p /\ d = c THEN t ELSE maxSeen[q][d]
      BY <1>1, <2>1, <3>1
    <3> QED BY <3>2, <3>3, <3>4, <2>3
  <2> QED BY <2>2, <2>3
<1>10. /\ DOMAIN items' = Procs
       /\ items'[p] = items[p] \cup {m \in {c} \X found : HasFile(m)}
       /\ \A q \in Procs \ {p} : items'[q] = items[q]
  <2>1. DOMAIN items = Procs
    BY DEF CoverInv, Positions
  <2> QED BY <1>5, <2>1
<1>11. Positions'
  BY <1>3, <1>9, <1>10 DEF CoverInv, Positions
<1>12. Behind'
  <2>1. \A q \in Procs, d \in Chats : maxSeen'[q][d] <= posted'[d]
    BY <1>3, <1>7, <1>9 DEF CoverInv, Behind
  <2>2. \A q \in Procs, d \in Chats : at'[q] = d => from'[q] <= posted'[d]
    BY <1>3 DEF CoverInv, Positions, Behind
  <2> QED BY <1>3, <2>1, <2>2 DEF CoverInv, Behind
<1>13. \A q \in Procs \ {p} : Same(q)
  <2> SUFFICES ASSUME NEW q \in Procs \ {p} PROVE Same(q)
    OBVIOUS
  <2>1. maxSeen'[q] = maxSeen[q]
    <3>1. maxSeen'[q] \in [Chats -> Nat] /\ maxSeen[q] \in [Chats -> Nat]
      BY <1>9 DEF CoverInv, Positions
    <3>2. \A d \in Chats : maxSeen'[q][d] = maxSeen[q][d]
      BY <1>9
    <3> QED BY <3>1, <3>2
  <2>2. at'[q] = at[q] /\ from'[q] = from[q] /\ pc'[q] = pc[q]
    BY <1>3 DEF CoverInv, Positions
  <2> QED BY <2>1, <2>2, <1>10 DEF Same
<1>14. pc'[p] = "walk" /\ at'[p] = NoChat /\ from'[p] = 0
  BY <1>3 DEF CoverInv, Positions
<1>15. ASSUME NEW d \in Chats PROVE Accounts(p, d)'
  <2> SUFFICES ASSUME NEW i \in present[d], i <= maxSeen'[p][d], FileOf[<<d, i>>] \in Wanted
               PROVE  Recorded(<<d, i>>) \/ <<d, i>> \in items'[p]
    BY <1>3 DEF Accounts, Wanted, Recorded
  <2>1. CASE i <= maxSeen[p][d]
    BY <2>1, <1>10 DEF CoverInv, Collected, Accounts
  <2>2. CASE ~(i <= maxSeen[p][d])
    <3>1. d = c /\ maxSeen'[p][d] = top /\ mode[p] # "get"
      BY <1>9, <2>2
    <3>2. CASE i <= from[p]
      <4>1. CoveredUpTo(c, from[p], Wanted)
        BY <1>1 DEF CoverInv, Collected, c
      <4> QED BY <3>1, <3>2, <4>1 DEF CoveredUpTo
    <3>3. CASE ~(i <= from[p])
      <4>1. i \in Nat /\ from[p] \in Nat
        BY DEF CoverInv, Positions, IDs
      <4>2. i \in ids
        BY <1>2, <1>6, <3>1, <3>3, <4>1
      <4>3. FileOf[<<d, i>>] \in Files /\ FileOf[<<d, i>>] \in filter
        BY DEF Wanted
      <4>4. Passes(<<c, i>>, filter) /\ HasFile(<<c, i>>)
        BY <3>1, <4>3 DEF Passes, HasFile
      <4>5. i \in found
        BY <4>2, <4>4 DEF found
      <4> QED BY <3>1, <4>4, <4>5, <1>10
    <3> QED BY <3>2, <3>3
  <2> QED BY <2>1, <2>2
<1>16. Collected(p)'
  <2>1. \A d \in Chats : CoveredUpTo(d, 0, Wanted)'
    BY <1>11 DEF Positions, CoveredUpTo, IDs
  <2> QED BY <1>14, <1>15, <2>1 DEF Collected, CoveredUpTo, Wanted
<1>17. UNCHANGED <<present, posted, watermark>>
  BY <1>3
<1> QED BY <1>8, <1>11, <1>12, <1>13, <1>16, <1>17, ProcStep

\* A watermark moves to what its process has recorded, or stays.
LEMMA AdvanceStep ==
    ASSUME CoverInv, NEW p \in Procs, NEW c \in Chats, Advance(p, c) PROVE CoverInv'
<1>1. /\ UNCHANGED <<present, posted, status, at, from, maxSeen, items, pc>>
      /\ pc[p] = "advance"
      /\ watermark' = [watermark EXCEPT ![c] = IF maxSeen[p][c] > @ THEN maxSeen[p][c] ELSE @]
  BY DEF Advance, AdvanceWatermark, historyVars, rowVars, walkVars
<1>2. items[p] = {} /\ maxSeen[p][c] \in Nat /\ maxSeen[p][c] <= posted[c]
  BY <1>1 DEF CoverInv, Collected, Positions, Behind
<1>3. /\ watermark' \in [Chats -> Nat]
      /\ \A d \in Chats :
            \/ watermark'[d] = watermark[d]
            \/ d = c /\ watermark'[d] = maxSeen[p][c]
  <2> DEFINE t == IF maxSeen[p][c] > watermark[c] THEN maxSeen[p][c] ELSE watermark[c]
  <2>1. watermark \in [Chats -> Nat] /\ watermark' = [watermark EXCEPT ![c] = t]
    BY <1>1 DEF CoverInv, Positions
  <2>2. t \in Nat /\ t \in {maxSeen[p][c], watermark[c]}
    BY <1>2, <2>1
  <2> HIDE DEF t
  <2>3. watermark' \in [Chats -> Nat]
    BY <2>1, <2>2
  <2>4. ASSUME NEW d \in Chats PROVE watermark'[d] = IF d = c THEN t ELSE watermark[d]
    BY <2>1
  <2>5. ASSUME NEW d \in Chats
        PROVE  \/ watermark'[d] = watermark[d]
               \/ d = c /\ watermark'[d] = maxSeen[p][c]
    <3>1. watermark'[d] = IF d = c THEN t ELSE watermark[d]
      BY <2>4
    <3> QED BY <2>2, <3>1
  <2> QED BY <2>3, <2>5
<1>4. Positions' /\ Behind'
  BY <1>1, <1>2, <1>3 DEF CoverInv, Positions, Behind
<1>5. GrowsAtEnd /\ Remembers /\ \A q \in Procs : Same(q)
  BY <1>1 DEF GrowsAtEnd, Remembers, Same
<1>6. \A q \in Procs : Collected(q)'
  BY <1>5, CollectedStays
<1>7. ASSUME NEW d \in Chats PROVE CoveredUpTo(d, watermark[d], Wanted)'
  <2>1. CoveredUpTo(d, watermark[d], Wanted)
    BY DEF CoverInv, Covers
  <2>2. \A i \in present[c] :
           i <= maxSeen[p][c] /\ FileOf[<<c, i>>] \in Wanted => Recorded(<<c, i>>)
    BY <1>2 DEF CoverInv, Collected, Accounts
  <2> QED BY <1>1, <1>3, <2>1, <2>2 DEF CoveredUpTo, Recorded, Wanted
<1> QED BY <1>4, <1>6, <1>7 DEF CoverInv, Covers

\* Telegram posts and deletes behind everybody's back.
LEMMA TelegramStep ==
    ASSUME CoverInv, NEW c \in Chats, Telegram(c) PROVE CoverInv'
<1>1. /\ UNCHANGED <<status, watermark, pc, at, from, maxSeen, items>>
  BY DEF Telegram, Post, ClearHistory, rowVars, procVars, walkVars
<1>2. Remembers /\ \A q \in Procs : Same(q)
  BY <1>1 DEF Remembers, Same
<1>3. CASE Post(c)
  <2>1. /\ posted[c] < MaxID /\ posted' = [posted EXCEPT ![c] = @ + 1]
        /\ present' = [present EXCEPT ![c] = @ \cup {posted[c] + 1}]
    BY <1>3 DEF Post
  <2>2. posted[c] \in Nat /\ posted[c] + 1 \in IDs /\ posted[c] + 1 \in 0..MaxID
    <3>1. posted[c] \in 0..MaxID /\ MaxID \in Nat
      BY BoundsAssumption DEF CoverInv, Positions
    <3> QED BY <2>1, <3>1 DEF IDs
  <2>3. /\ present' \in [Chats -> SUBSET IDs] /\ posted' \in [Chats -> 0..MaxID]
        /\ \A d \in Chats : posted[d] <= posted'[d]
        /\ posted'[c] = posted[c] + 1 /\ present'[c] = present[c] \cup {posted[c] + 1}
        /\ \A d \in Chats \ {c} : present'[d] = present[d] /\ posted'[d] = posted[d]
    BY <2>1, <2>2 DEF CoverInv, Positions
  <2>4. GrowsAtEnd
    BY <2>3 DEF GrowsAtEnd
  <2>5. Positions'
    BY <2>3, <1>1 DEF CoverInv, Positions
  <2>6. Behind'
    <3>1. \A d \in Chats : posted[d] \in Nat /\ posted'[d] \in Nat
      BY <2>3 DEF CoverInv, Positions
    <3>2. \A d \in Chats : watermark[d] \in Nat /\ watermark[d] <= posted[d]
      BY DEF CoverInv, Positions, Behind
    <3>3. \A q \in Procs, d \in Chats : maxSeen[q][d] \in Nat /\ maxSeen[q][d] <= posted[d]
      BY DEF CoverInv, Positions, Behind
    <3>4. \A q \in Procs, d \in Chats :
             from[q] \in Nat /\ (at[q] = d => from[q] <= posted[d])
      BY DEF CoverInv, Positions, Behind
    <3>5. ASSUME NEW d \in Chats, NEW i \in present'[d] PROVE i <= posted'[d]
      <4>1. \A j \in present[d] : j \in Nat /\ j <= posted[d]
        BY DEF CoverInv, Positions, Behind, IDs
      <4>2. CASE d = c
        BY <2>2, <2>3, <4>1, <4>2
      <4>3. CASE d # c
        BY <2>3, <4>1, <4>3
      <4> QED BY <4>2, <4>3
    <3> QED BY <1>1, <2>3, <3>1, <3>2, <3>3, <3>4, <3>5 DEF Behind
  <2> QED BY <1>1, <1>2, <2>4, <2>5, <2>6, WorldStep
<1>4. CASE ClearHistory(c)
  <2>1. /\ posted' = posted /\ present' \in [Chats -> SUBSET IDs]
        /\ \A d \in Chats : present'[d] \subseteq present[d]
    BY <1>4 DEF ClearHistory, CoverInv, Positions
  <2>2. GrowsAtEnd
    BY <2>1 DEF GrowsAtEnd
  <2>3. Positions' /\ Behind'
    BY <2>1, <1>1 DEF CoverInv, Positions, Behind
  <2> QED BY <1>1, <1>2, <2>2, <2>3, WorldStep
<1> QED BY <1>3, <1>4 DEF Telegram

\* The rows are requeued, finished runs deleted.
LEMMA StoreStep ==
    ASSUME CoverInv, ResumeRefused \/ CleanupFinishedRuns PROVE CoverInv'
<1>1. UNCHANGED <<present, posted, watermark, pc, at, from, maxSeen, items>>
  BY DEF ResumeRefused, CleanupFinishedRuns, historyVars, procVars, walkVars
<1>2. Remembers /\ DOMAIN status' = Msgs
  BY ResetRemembers DEF ResumeRefused, CleanupFinishedRuns, rowVars, Remembers,
     CoverInv, Positions
<1>3. GrowsAtEnd /\ (\A q \in Procs : Same(q)) /\ Positions' /\ Behind'
  BY <1>1, <1>2 DEF GrowsAtEnd, Same, CoverInv, Positions, Behind
<1> QED BY <1>1, <1>2, <1>3, WorldStep

\* Every beginning and every end of a command, and the parking of its run.
LEMMA CommandStep ==
    ASSUME CoverInv, NEW p \in Procs,
           \/ Start(p) \/ Resume(p) \/ PremiumPass(p) \/ ResumeNext(p)
           \/ Return(p) \/ StepFails(p) \/ Crash(p) \/ Park(p)
    PROVE  CoverInv'
<1>1. UNCHANGED <<present, posted, watermark>> /\ Remembers /\ DOMAIN status' = Msgs
  <2>1. CASE Resume(p)
    BY <2>1, ResetRemembers DEF Resume, historyVars, CoverInv, Positions
  <2>2. CASE ~Resume(p)
    <3>1. UNCHANGED <<present, posted, watermark, status>>
      BY <2>2 DEF Start, PremiumPass, ResumeNext, Return, StepFails, Crash, Park, historyVars,
         rowVars
    <3> QED BY <3>1 DEF Remembers, CoverInv, Positions
  <2> QED BY <2>1, <2>2
<1>2. \/ Quit(p)
      \/ Park(p)
      \/ \E ps, md, cs : Begin(p, ps, md, cs)
  BY DEF Start, Resume, Replay, PremiumPass, ResumeNext, Return, StepFails, Crash
<1>3. CASE Quit(p)
  BY <1>1, <1>3, FreshStep DEF Quit, ForgetsWalk, Goto
<1>4. ASSUME NEW ps, NEW md, NEW cs, Begin(p, ps, md, cs) PROVE CoverInv'
  BY <1>1, <1>4, FreshStep DEF Begin, ForgetsWalk, Goto
<1>5. CASE Park(p)
  BY <1>1, <1>5, FreshStep DEF Park, ForgetsWalk, Goto
<1> QED BY <1>2, <1>3, <1>4, <1>5

LEMMA RecordStep ==
    ASSUME CoverInv, NEW p \in Procs, NEW m \in Msgs, Discover(p, m) \/ Enqueue(p, m)
    PROVE  CoverInv'
<1> DEFINE rest == items[p] \ {m}
<1>1. /\ UNCHANGED <<present, posted, watermark, at, from, maxSeen>>
      /\ items' = [items EXCEPT ![p] = rest]
      /\ \E l : pc' = [pc EXCEPT ![p] = l] /\ l # "page"
                /\ (l \in {"run", "drain", "broken", "parking", "advance"} => rest = {})
  BY DEF Discover, Enqueue, Previewed, Queues, Goto, historyVars
<1>2. PICK l : pc' = [pc EXCEPT ![p] = l] /\ l # "page"
               /\ (l \in {"run", "drain", "broken", "parking", "advance"} => rest = {})
  BY <1>1
<1>3. Remembers /\ Recorded(m)' /\ DOMAIN status' = Msgs
  <2>1. DOMAIN status = Msgs
    BY DEF CoverInv, Positions
  <2>2. CASE Discover(p, m)
    BY <2>1, <2>2, UpsertRecords DEF Discover, Statuses
  <2>3. CASE Enqueue(p, m) /\ KnownDone(m)
    <3>1. status' = status
      BY <2>3 DEF Enqueue, rowVars
    <3>2. Recorded(m)
      BY <2>3 DEF KnownDone, Recorded
    <3> QED BY <2>1, <3>1, <3>2 DEF Recorded, Remembers
  <2>4. CASE Enqueue(p, m) /\ ~KnownDone(m)
    BY <2>1, <2>4, UpsertRecords DEF Enqueue, Statuses
  <2> QED BY <2>2, <2>3, <2>4
<1>4. DOMAIN items' = Procs /\ items'[p] = rest /\ \A q \in Procs \ {p} : items'[q] = items[q]
  BY <1>1 DEF CoverInv, Positions
<1>5. \A o \in items[p] \ rest : Recorded(o)'
  BY <1>3
<1> HIDE DEF rest
<1>6. pc'[p] = l /\ DOMAIN pc' = Procs /\ \A q \in Procs \ {p} : pc'[q] = pc[q]
  BY <1>2 DEF CoverInv, Positions
<1> QED BY <1>1, <1>2, <1>3, <1>4, <1>5, <1>6, ItemsStep

\* The items of a run: what was walked, what is still pending; only what no
\* watermark answers for is left to another account.
LEMMA LoadStep ==
    ASSUME CoverInv, NEW p \in Procs, LoadItems(p) PROVE CoverInv'
<1> DEFINE all == items[p] \cup UNION {PendingMedia(c) : c \in incr[p]}
           big == IF Defers(p) THEN {m \in all : FileOf[m] \in Big} ELSE {}
           l == IF all \ big = {} THEN "run" ELSE "enqueue"
<1>1. /\ UNCHANGED <<present, posted, watermark, status, at, from, maxSeen>>
      /\ items' = [items EXCEPT ![p] = all \ big] /\ pc' = [pc EXCEPT ![p] = l]
  BY DEF LoadItems, Queues, Goto, historyVars, rowVars
<1>2. \A m \in items[p] \ (all \ big) : FileOf[m] \notin Wanted
  BY DEF Defers, Wanted
<1>3. l # "page" /\ (l \in {"run", "drain", "broken", "parking", "advance"} => all \ big = {})
  OBVIOUS
<1> HIDE DEF all, big, l
<1>4. /\ DOMAIN items' = Procs /\ items'[p] = all \ big
      /\ \A q \in Procs \ {p} : items'[q] = items[q]
      /\ DOMAIN pc' = Procs /\ pc'[p] = l /\ \A q \in Procs \ {p} : pc'[q] = pc[q]
  BY <1>1 DEF CoverInv, Positions
<1>5. Remembers /\ DOMAIN status' = Msgs
  BY <1>1 DEF Remembers, CoverInv, Positions
<1> QED BY <1>1, <1>2, <1>3, <1>4, <1>5, ItemsStep

\* The steps that move no chat's window, no item and no watermark.
LEMMA OtherStep ==
    ASSUME CoverInv, NEW p \in Procs,
           Manage(p) \/ Drain(p) \/ FinishStatus(p) \/ PreviewRun(p)
           \/ \E c \in Chats : WindowFresh(p, c)
    PROVE  CoverInv'
<1>1. UNCHANGED <<present, posted, watermark, at, from, maxSeen>>
  BY DEF Manage, Claim, MarkDone, MarkFailed, MarkInterrupted, OnlyRows, Drain, LinkSkipped,
     LinkDone, LinkFailed, LinkInterrupted, Drains, FinishStatus, PreviewRun, WindowFresh,
     historyVars, walkVars
<1>2. DOMAIN status = Msgs
  BY DEF CoverInv, Positions
<1>3. CASE Manage(p)
  <2>1. PICK m \in Msgs : Claim(p, m) \/ MarkDone(p, m) \/ MarkFailed(p, m) \/ MarkInterrupted(p, m)
    BY <1>3 DEF Manage
  <2>2. UNCHANGED <<pc, items>>
    BY <2>1 DEF Claim, MarkDone, MarkFailed, MarkInterrupted, OnlyRows, walkVars
  <2>3. \E st \in Statuses : status' = [status EXCEPT ![m] = st]
    BY <2>1 DEF Claim, MarkDone, MarkFailed, MarkInterrupted, Settles, Statuses
  <2>4. Remembers /\ DOMAIN status' = Msgs
    BY <1>2, <2>3 DEF Remembers, Statuses
  <2> QED BY <1>1, <2>2, <2>4, QuietStep
<1>4. CASE Drain(p)
  <2>1. PICK m \in Msgs :
           LinkSkipped(p, m) \/ LinkDone(p, m) \/ LinkFailed(p, m) \/ LinkInterrupted(p, m)
    BY <1>4 DEF Drain
  <2>2. Drains(p, m)
    BY <2>1 DEF LinkSkipped, LinkDone, LinkFailed, LinkInterrupted
  <2>3. /\ UNCHANGED items /\ pc[p] \in {"run", "drain", "broken"}
        /\ \E l : pc' = [pc EXCEPT ![p] = l] /\ l # "page"
    BY <2>2 DEF Drains, WorkersDone, Goto, walkVars
  <2>4. items[p] = {}
    BY <2>3 DEF CoverInv, Collected
  <2>5. \/ status' = status
        \/ \E st \in Statuses : status' = [status EXCEPT ![m] = IF status[m] # "none" THEN st ELSE @]
    BY <2>1 DEF LinkSkipped, LinkDone, LinkFailed, LinkInterrupted, Writes, HasRow, Statuses, rowVars
  <2>6. Remembers /\ DOMAIN status' = Msgs
    BY <1>2, <2>5 DEF Remembers, Statuses
  <2> QED BY <1>1, <2>3, <2>4, <2>6, QuietStep
<1>5. CASE ~Manage(p) /\ ~Drain(p)
  <2>1. status' = status
    BY <1>5 DEF FinishStatus, PreviewRun, WindowFresh, rowVars
  <2>2. Remembers /\ DOMAIN status' = Msgs
    BY <1>2, <2>1 DEF Remembers
  <2>3. CASE FinishStatus(p)
    <3>1. UNCHANGED items /\ pc[p] \in {"run", "drain"}
      BY <2>3 DEF FinishStatus, RunReturns, WorkersDone, walkVars
    <3>2. items[p] = {}
      BY <3>1 DEF CoverInv, Collected
    <3>3. pc' = [pc EXCEPT ![p] = "advance"]
      BY <2>3 DEF FinishStatus, Goto
    <3> QED BY <1>1, <2>2, <3>1, <3>2, <3>3, QuietStep
  <2>4. CASE PreviewRun(p)
    <3> DEFINE l == IF items[p] = {} THEN "advance" ELSE "discover"
    <3>1. items' = [items EXCEPT ![p] = items[p]] /\ pc' = [pc EXCEPT ![p] = l]
      BY <2>4 DEF PreviewRun, Previewed, Goto
    <3>2. l # "page" /\ (l \in {"run", "drain", "broken", "parking", "advance"} => items[p] = {})
      OBVIOUS
    <3> HIDE DEF l
    <3>3. /\ DOMAIN items' = Procs /\ items'[p] = items[p]
          /\ \A q \in Procs \ {p} : items'[q] = items[q]
          /\ DOMAIN pc' = Procs /\ pc'[p] = l /\ \A q \in Procs \ {p} : pc'[q] = pc[q]
      BY <3>1 DEF CoverInv, Positions
    <3> QED BY <1>1, <2>2, <3>2, <3>3, ItemsStep
  <2>5. ASSUME NEW c \in Chats, WindowFresh(p, c) PROVE CoverInv'
    <3>1. UNCHANGED <<pc, items>>
      BY <2>5 DEF WindowFresh
    <3> QED BY <1>1, <2>2, <3>1, QuietStep
  <2> QED BY <1>5, <2>3, <2>4, <2>5
<1> QED BY <1>3, <1>4, <1>5

LEMMA WindowsStep ==
    ASSUME CoverInv, NEW p \in Procs, NEW c \in Chats,
           WindowFull(p, c) \/ WindowCleared(p, c) \/ WindowIncremental(p, c)
    PROVE  CoverInv'
<1>1. UNCHANGED <<present, posted, status>>
  BY DEF WindowFull, WindowCleared, WindowIncremental, historyVars, rowVars
<1>2. Remembers /\ DOMAIN status' = Msgs
  BY <1>1 DEF Remembers, CoverInv, Positions
<1>3. CASE WindowFull(p, c)
  BY <1>1, <1>2, <1>3, WindowStep DEF WindowFull
<1>4. CASE WindowCleared(p, c)
  BY <1>1, <1>2, <1>4, WindowStep DEF WindowCleared
<1>5. CASE WindowIncremental(p, c)
  BY <1>1, <1>2, <1>5, WindowStep DEF WindowIncremental
<1> QED BY <1>3, <1>4, <1>5

LEMMA CoverInit == ASSUME Init PROVE CoverInv
<1>1. \A c \in Chats : present[c] = {} /\ posted[c] = 0 /\ watermark[c] = 0
  BY DEF Init
<1>2. Positions
  BY BoundsAssumption DEF Init, Positions, IDs
<1>3. Behind
  BY DEF Init, Behind
<1>4. Covers /\ \A p \in Procs : Collected(p)
  BY <1>1 DEF Init, Covers, CoveredUpTo, Collected, Accounts
<1> QED BY <1>2, <1>3, <1>4 DEF CoverInv

LEMMA CoverStep == ASSUME Unlimited, CoverInv, [Next]_vars PROVE CoverInv'
<1>1. CASE UNCHANGED vars
  <2>1. UNCHANGED <<present, posted, watermark, status, pc, at, from, maxSeen, items>>
    BY <1>1 DEF vars, historyVars, rowVars, procVars, walkVars
  <2>2. Remembers /\ GrowsAtEnd /\ (\A q \in Procs : Same(q)) /\ Positions' /\ Behind'
    BY <2>1 DEF Remembers, GrowsAtEnd, Same, CoverInv, Positions, Behind
  <2> QED BY <2>1, <2>2, WorldStep
<1>2. ASSUME NEW c \in Chats, Telegram(c) PROVE CoverInv'
  BY <1>2, TelegramStep
<1>3. CASE ResumeRefused \/ CleanupFinishedRuns
  BY <1>3, StoreStep
<1>4. ASSUME NEW p \in Procs,
             Start(p) \/ Resume(p) \/ Proceed(p) \/ Manage(p) \/ Drain(p) \/ Park(p)
             \/ StepFails(p) \/ Crash(p)
      PROVE  CoverInv'
  <2>1. CASE Start(p) \/ Resume(p) \/ Park(p) \/ StepFails(p) \/ Crash(p)
    BY <2>1, CommandStep
  <2>2. CASE Manage(p) \/ Drain(p)
    BY <2>2, OtherStep
  <2>3. CASE Window(p)
    BY <2>3, WindowsStep, OtherStep DEF Window
  <2>4. CASE Walk(p)
    BY <2>4, WalkStep, FilesAssumption
  <2>5. CASE PreviewRun(p)
    BY <2>5, OtherStep
  <2>6. CASE Record(p)
    BY <2>6, RecordStep DEF Record
  <2>7. CASE LoadItems(p)
    BY <2>7, LoadStep
  <2>8. CASE Conclude(p)
    BY <2>8, OtherStep, CommandStep, AdvanceStep DEF Conclude
  <2> QED BY <1>4, <2>1, <2>2, <2>3, <2>4, <2>5, <2>6, <2>7, <2>8 DEF Proceed
<1> QED BY <1>1, <1>2, <1>3, <1>4 DEF Next

\* dl_cmd.go finishes a run before it moves the watermarks: whatever dies between
\* the walk, the rows and the watermark, however many processes share the database
\* and whatever Telegram posts or deletes meanwhile, a watermark passes no
\* wanted file the manifest does not know, provided no scan limit cuts the walks.
THEOREM WatermarkNeverPasses == Unlimited => (Spec => []WatermarkCovers)
<1> SUFFICES ASSUME Unlimited PROVE Spec => []WatermarkCovers
  OBVIOUS
<1>1. Init => CoverInv
  BY CoverInit
<1>2. CoverInv /\ [Next]_vars => CoverInv'
  BY CoverStep
<1>3. CoverInv => WatermarkCovers
  BY DEF CoverInv, Covers, WatermarkCovers
<1> QED BY <1>1, <1>2, <1>3, PTL DEF Spec

-----------------------------------------------------------------------------
(* Rows that nobody holds any more *)

AtWork == {"walk", "page", "discover", "enqueue", "run", "drain", "broken"}

\* A run nobody works on, which resume will find.
Orphan(r) == runs[r] \in {"running", "parked"} /\ \A p \in Procs : run[p] # r

\* A process holds rows only while its manager runs, and its run row says so.
Works(p) ==
    /\ run[p] \in RunIDs \cup {NoRun}
    /\ run[p] # NoRun => runs[run[p]] # "none"
    /\ pc[p] \in AtWork => run[p] # NoRun /\ runs[run[p]] = "running"
    /\ pc[p] = "parking" => run[p] # NoRun /\ runs[run[p]] = "parked"
    /\ held[p] # {} => pc[p] \in {"run", "parking"}
    /\ Preview(mode[p]) => pc[p] \notin {"enqueue", "run", "drain", "broken", "parking"}

Domains ==
    /\ DOMAIN status = Msgs /\ DOMAIN runs = RunIDs /\ DOMAIN run = Procs
    /\ DOMAIN pc = Procs /\ DOMAIN held = Procs /\ DOMAIN mode = Procs

Apart == \A p, q \in Procs : p # q /\ run[p] = run[q] => run[p] = NoRun

\* Claimed, and not given up as interrupted.
Claimed(m) == status[m] = "downloading" /\ m \notin interrupted

StrandInv ==
    /\ Domains /\ Apart /\ \A p \in Procs : Works(p)
    /\ \A m \in Msgs : Claimed(m) /\ ~IsHeld(m) => \E r \in RunIDs : Orphan(r)

LEMMA NoRunIsNone == NoRun \notin RunIDs
BY BoundsAssumption

\* A step of one process: it touches no run but its own and a free one, and what
\* it lets go of it leaves behind under a run that is still open.
LEMMA HandsStep ==
    ASSUME StrandInv, Domains', NEW p \in Procs, Works(p)',
           \A q \in Procs \ {p} : /\ run'[q] = run[q] /\ pc'[q] = pc[q]
                                  /\ held'[q] = held[q] /\ mode'[q] = mode[q],
           \A r \in RunIDs \ {run[p]} : runs[r] # "none" => runs'[r] = runs[r],
           \/ run'[p] \in {run[p], NoRun}
           \/ run'[p] \in RunIDs /\ runs[run'[p]] = "none",
           \A m \in Msgs : Claimed(m)' /\ m \notin held'[p] => Claimed(m),
           \A m \in held[p] : Claimed(m)' /\ m \notin held'[p] =>
              run'[p] # run[p] /\ runs'[run[p]] \in {"running", "parked"}
    PROVE  StrandInv'
<1>1. ASSUME NEW q \in Procs PROVE Works(q)'
  <2>1. CASE q = p
    BY <2>1
  <2>2. CASE q # p
    <3>1. Works(q) /\ run'[q] = run[q] /\ pc'[q] = pc[q] /\ held'[q] = held[q] /\ mode'[q] = mode[q]
      BY <2>2 DEF StrandInv
    <3>2. run[q] # NoRun => runs'[run[q]] = runs[run[q]]
      <4> SUFFICES ASSUME run[q] # NoRun PROVE runs'[run[q]] = runs[run[q]]
        OBVIOUS
      <4>1. run[q] \in RunIDs /\ runs[run[q]] # "none"
        BY <3>1 DEF Works
      <4>2. run[q] # run[p]
        BY <2>2 DEF StrandInv, Apart
      <4> QED BY <4>1, <4>2
    <3> QED BY <3>1, <3>2 DEF Works
  <2> QED BY <2>1, <2>2
<1>2. Apart'
  <2> SUFFICES ASSUME NEW q \in Procs \ {p}, run'[p] = run[q] PROVE run'[p] = NoRun
    BY DEF StrandInv, Apart
  <2>1. run[q] \in RunIDs => runs[run[q]] # "none"
    BY NoRunIsNone DEF StrandInv, Works
  <2> QED BY <2>1 DEF StrandInv, Apart
<1>3. ASSUME NEW r \in RunIDs, Orphan(r) PROVE Orphan(r)'
  <2>1. runs'[r] = runs[r] /\ runs[r] # "none"
    BY <1>3 DEF Orphan
  <2>2. run'[p] # r
    BY <1>3, <2>1, NoRunIsNone DEF Orphan
  <2> QED BY <1>3, <2>1, <2>2 DEF Orphan
<1>4. ASSUME NEW m \in Msgs, Claimed(m)', ~IsHeld(m)' PROVE \E r \in RunIDs : Orphan(r)'
  <2>1. m \notin held'[p] /\ Claimed(m)
    BY <1>4 DEF IsHeld
  <2>2. CASE m \in held[p]
    <3>1. run'[p] # run[p] /\ runs'[run[p]] \in {"running", "parked"}
      BY <1>4, <2>1, <2>2
    <3>2. Works(p) /\ held[p] # {}
      BY <2>2 DEF StrandInv
    <3>3. run[p] # NoRun /\ run[p] \in RunIDs
      BY <3>2 DEF Works, AtWork
    <3>4. \A q \in Procs : run'[q] # run[p]
      BY <3>1, <3>3 DEF StrandInv, Apart
    <3> QED BY <3>1, <3>3, <3>4 DEF Orphan
  <2>3. CASE m \notin held[p]
    <3>1. ~IsHeld(m)
      BY <1>4, <2>3 DEF IsHeld
    <3>2. PICK r \in RunIDs : Orphan(r)
      BY <2>1, <3>1 DEF StrandInv
    <3> QED BY <3>2, <1>3
  <2> QED BY <2>2, <2>3
<1> QED BY <1>1, <1>2, <1>4 DEF StrandInv

\* A step that leaves all processes where they are.
LEMMA RestStep ==
    ASSUME StrandInv, UNCHANGED <<run, pc, held, mode>>, Domains',
           \A r \in RunIDs : \/ runs'[r] = runs[r]
                             \/ /\ runs[r] \notin {"running", "parked"}
                                /\ \A p \in Procs : run[p] # r,
           \A m \in Msgs : Claimed(m)' => Claimed(m)
    PROVE  StrandInv'
<1>1. ASSUME NEW q \in Procs PROVE Works(q)'
  <2>1. Works(q)
    BY DEF StrandInv
  <2>2. run[q] # NoRun => runs'[run[q]] = runs[run[q]]
    BY <2>1 DEF Works
  <2> QED BY <2>1, <2>2 DEF Works
<1>2. ASSUME NEW r \in RunIDs, Orphan(r) PROVE Orphan(r)'
  BY <1>2 DEF Orphan
<1>3. ASSUME NEW m \in Msgs, Claimed(m)', ~IsHeld(m)' PROVE \E r \in RunIDs : Orphan(r)'
  <2>1. Claimed(m) /\ ~IsHeld(m)
    BY <1>3 DEF IsHeld
  <2>2. PICK r \in RunIDs : Orphan(r)
    BY <2>1 DEF StrandInv
  <2> QED BY <2>2, <1>2
<1> QED BY <1>1, <1>3 DEF StrandInv, Apart

\* A row that is written under any status but downloading is not claimed.
LEMMA UpsertLetsGo ==
    ASSUME Domains, NEW m \in Msgs, NEW st \in {"discovered", "queued"}, UpsertMedia(m, st)
    PROVE  DOMAIN status' = Msgs /\ \A o \in Msgs : Claimed(o)' => Claimed(o)
BY DEF UpsertMedia, rowVars, Claimed, Domains

LEMMA ResetLetsGo ==
    ASSUME Domains, ResetDownloading
    PROVE  DOMAIN status' = Msgs /\ \A m \in Msgs : ~Claimed(m)'
BY DEF ResetDownloading, Claimed, Domains

\* A process that is not yet running its manager goes on.
LEMMA GoOnStep ==
    ASSUME StrandInv, NEW p \in Procs, UNCHANGED <<runs, run, held, mode>>, DOMAIN status' = Msgs,
           \A m \in Msgs : Claimed(m)' => Claimed(m),
           NEW l, pc' = [pc EXCEPT ![p] = l], pc[p] \notin {"run", "parking"}, l # "parking",
           l \in AtWork => pc[p] \in AtWork,
           l \in {"enqueue", "run"} => ~Preview(mode[p]), l \notin {"drain", "broken"}
    PROVE  StrandInv'
<1>1. Domains'
  BY DEF StrandInv, Domains
<1>2. Works(p) /\ DOMAIN pc = Procs
  BY DEF StrandInv, Domains
<1>3. Works(p)'
  BY <1>2 DEF Works
<1>4. \A q \in Procs \ {p} : pc'[q] = pc[q]
  BY <1>2
<1> QED BY <1>1, <1>3, <1>4, HandsStep

\* A command is over: the rows it held stay claimed under its open run.
LEMMA QuitStep ==
    ASSUME StrandInv, NEW p \in Procs, Quit(p), DOMAIN runs' = RunIDs,
           UNCHANGED <<status, interrupted>>,
           \A r \in RunIDs \ {run[p]} : runs'[r] = runs[r],
           held[p] # {} => runs' = runs
    PROVE  StrandInv'
<1>1. /\ pc' = [pc EXCEPT ![p] = "idle"] /\ mode' = [mode EXCEPT ![p] = "dl"]
      /\ run' = [run EXCEPT ![p] = NoRun] /\ held' = [held EXCEPT ![p] = {}]
  BY DEF Quit, Goto
<1>2. Works(p) /\ Domains
  BY DEF StrandInv
<1>3. Domains'
  BY <1>1, <1>2 DEF Domains
<1>4. pc'[p] = "idle" /\ mode'[p] = "dl" /\ run'[p] = NoRun /\ held'[p] = {}
  BY <1>1, <1>2 DEF Domains
<1>5. Works(p)'
  BY <1>4 DEF Works, AtWork
<1>6. \A q \in Procs \ {p} : /\ run'[q] = run[q] /\ pc'[q] = pc[q]
                             /\ held'[q] = held[q] /\ mode'[q] = mode[q]
  BY <1>1, <1>2 DEF Domains
<1>7. ASSUME NEW m \in held[p] PROVE run'[p] # run[p] /\ runs'[run[p]] \in {"running", "parked"}
  BY <1>2, <1>4, <1>7 DEF Works, AtWork
<1>8. \A m \in Msgs : Claimed(m)' => Claimed(m)
  BY DEF Claimed
<1> QED BY <1>3, <1>4, <1>5, <1>6, <1>7, <1>8, HandsStep

\* A process begins a run, from nothing or after one that is concluded.
LEMMA BeginStep ==
    ASSUME StrandInv, NEW p \in Procs, NEW ps, NEW md, NEW cs, Begin(p, ps, md, cs),
           DOMAIN status' = Msgs, \A m \in Msgs : Claimed(m)' => Claimed(m)
    PROVE  StrandInv'
<1>1. PICK r \in RunIDs :
         /\ runs[r] = "none" /\ runs' = [runs EXCEPT ![r] = "running"]
         /\ run' = [run EXCEPT ![p] = r] /\ mode' = [mode EXCEPT ![p] = md]
         /\ held' = [held EXCEPT ![p] = {}] /\ pc' = [pc EXCEPT ![p] = "walk"]
  BY DEF Begin, Goto
<1>2. Works(p) /\ Domains
  BY DEF StrandInv
<1>3. Domains'
  BY <1>1, <1>2 DEF Domains
<1>4. pc'[p] = "walk" /\ run'[p] = r /\ held'[p] = {} /\ runs'[r] = "running"
  BY <1>1, <1>2 DEF Domains
<1>5. Works(p)'
  BY <1>4, NoRunIsNone DEF Works, AtWork
<1>6. \A q \in Procs \ {p} : /\ run'[q] = run[q] /\ pc'[q] = pc[q]
                             /\ held'[q] = held[q] /\ mode'[q] = mode[q]
  BY <1>1, <1>2 DEF Domains
<1>7. \A o \in RunIDs : runs[o] # "none" => runs'[o] = runs[o]
  BY <1>1, <1>2 DEF Domains
<1>8. ASSUME NEW m \in held[p] PROVE run'[p] # run[p] /\ runs'[run[p]] \in {"running", "parked"}
  <2>1. run[p] \in RunIDs /\ runs[run[p]] \in {"running", "parked"}
    BY <1>2, <1>8 DEF Works, AtWork
  <2> QED BY <1>1, <1>4, <1>7, <2>1
<1> QED BY <1>1, <1>3, <1>4, <1>5, <1>6, <1>7, <1>8, HandsStep

\* The manager's own steps, and its end.
LEMMA ManagerStep ==
    ASSUME StrandInv, NEW p \in Procs, Manage(p) \/ Drain(p) \/ Park(p) \/ FinishStatus(p)
    PROVE  StrandInv'
<1>1. Works(p) /\ Domains
  BY DEF StrandInv
<1>2. ASSUME NEW m \in Msgs, Claim(p, m) PROVE StrandInv'
  <2>1. /\ UNCHANGED <<pc, mode, run, runs>> /\ pc[p] = "run"
        /\ status' = [status EXCEPT ![m] = "downloading"]
        /\ held' = [held EXCEPT ![p] = @ \cup {m}] /\ interrupted' = interrupted \ {m}
    BY <1>2 DEF Claim, OnlyRows, runVars
  <2>2. Domains' /\ held'[p] = held[p] \cup {m} /\ \A q \in Procs \ {p} : held'[q] = held[q]
    BY <1>1, <2>1 DEF Domains
  <2>3. Works(p)'
    BY <1>1, <2>1 DEF Works
  <2>4. \A o \in Msgs : Claimed(o)' /\ o \notin held'[p] => Claimed(o)
    BY <1>1, <2>1, <2>2 DEF Claimed, Domains
  <2> QED BY <2>1, <2>2, <2>3, <2>4, HandsStep
<1>3. ASSUME NEW m \in Msgs, MarkDone(p, m) \/ MarkFailed(p, m) \/ MarkInterrupted(p, m)
      PROVE  StrandInv'
  <2>1. /\ UNCHANGED <<pc, mode, run, runs>> /\ m \in held[p]
        /\ held' = [held EXCEPT ![p] = @ \ {m}]
    BY <1>3 DEF MarkDone, MarkFailed, MarkInterrupted, Settles, OnlyRows, runVars
  <2>2. \/ /\ status' \in {[status EXCEPT ![m] = "done"], [status EXCEPT ![m] = "failed"]}
           /\ interrupted' = interrupted \ {m}
        \/ /\ status' = [status EXCEPT ![m] = "downloading"]
           /\ interrupted' = interrupted \cup {m}
    BY <1>3 DEF MarkDone, MarkFailed, MarkInterrupted, Settles
  <2>3. ~Claimed(m)' /\ \A o \in Msgs \ {m} : Claimed(o)' => Claimed(o)
    BY <1>1, <2>2 DEF Claimed, Domains
  <2>4. Domains' /\ held'[p] = held[p] \ {m} /\ \A q \in Procs \ {p} : held'[q] = held[q]
    BY <1>1, <2>1, <2>2 DEF Domains
  <2>5. Works(p)'
    BY <1>1, <2>1, <2>4 DEF Works
  <2> QED BY <2>1, <2>3, <2>4, <2>5, HandsStep
<1>4. ASSUME Park(p) PROVE StrandInv'
  <2>1. /\ pc[p] \in {"run", "drain"} /\ runs' = [runs EXCEPT ![run[p]] = "parked"]
        /\ pc' = [pc EXCEPT ![p] = "parking"]
        /\ UNCHANGED <<mode, run, held, status, interrupted>>
    BY <1>4 DEF Park, WorkersDone, FinishRun, Goto, rowVars
  <2>2. Domains' /\ pc'[p] = "parking" /\ \A q \in Procs \ {p} : pc'[q] = pc[q]
    BY <1>1, <2>1 DEF Domains
  <2>3. run[p] \in RunIDs /\ runs'[run[p]] = "parked" /\ run[p] # NoRun
    BY <1>1, <2>1 DEF Works, AtWork, Domains
  <2>4. \A r \in RunIDs \ {run[p]} : runs'[r] = runs[r]
    BY <1>1, <2>1 DEF Domains
  <2>5. Works(p)'
    BY <1>1, <2>1, <2>2, <2>3 DEF Works, AtWork
  <2> QED BY <2>1, <2>2, <2>4, <2>5, HandsStep DEF Claimed
<1>5. ASSUME FinishStatus(p) PROVE StrandInv'
  <2>1. /\ pc[p] \in {"run", "drain"} /\ pc' = [pc EXCEPT ![p] = "advance"]
        /\ \E st \in {"failed", "done"} : runs' = [runs EXCEPT ![run[p]] = st]
        /\ UNCHANGED <<mode, run, held, status, interrupted>>
    BY <1>5 DEF FinishStatus, RunReturns, WorkersDone, FinishRun, Goto, rowVars
  <2>6. held[p] = {}
    BY <1>1, <1>5 DEF FinishStatus, RunReturns, WorkersDone, Works
  <2>2. Domains' /\ pc'[p] = "advance" /\ \A q \in Procs \ {p} : pc'[q] = pc[q]
    BY <1>1, <2>1 DEF Domains
  <2>3. run[p] \in RunIDs => runs'[run[p]] # "none"
    BY <1>1, <2>1 DEF Domains
  <2>4. \A r \in RunIDs \ {run[p]} : runs'[r] = runs[r]
    BY <1>1, <2>1 DEF Domains
  <2>5. Works(p)'
    BY <1>1, <2>1, <2>6, <2>2, <2>3 DEF Works, AtWork
  <2> QED BY <2>1, <2>6, <2>2, <2>4, <2>5, HandsStep DEF Claimed
<1>6. ASSUME NEW m \in Msgs,
             LinkSkipped(p, m) \/ LinkDone(p, m) \/ LinkFailed(p, m) \/ LinkInterrupted(p, m)
      PROVE  StrandInv'
  <2>7. Drains(p, m)
    BY <1>6 DEF LinkSkipped, LinkDone, LinkFailed, LinkInterrupted
  <2>1. PICK l \in {"drain", "broken"} :
           /\ pc[p] = l \/ (pc[p] = "run" /\ held[p] = {})
           /\ pc' = [pc EXCEPT ![p] = l] /\ UNCHANGED <<mode, run, runs, held>>
    BY <2>7 DEF Drains, WorkersDone, Goto, runVars
  <2>2. \/ UNCHANGED <<status, interrupted>>
        \/ /\ \E st \in {"done", "failed"} :
                 status' = [status EXCEPT ![m] = IF status[m] # "none" THEN st ELSE @]
           /\ interrupted' = interrupted \ {m}
        \/ /\ status' = [status EXCEPT ![m] = IF status[m] # "none" THEN "downloading" ELSE @]
           /\ interrupted' = IF status[m] # "none" THEN interrupted \cup {m} ELSE interrupted
    BY <1>6 DEF LinkSkipped, LinkDone, LinkFailed, LinkInterrupted, Writes, HasRow, rowVars
  <2>3. DOMAIN status' = Msgs /\ \A o \in Msgs : Claimed(o)' => Claimed(o)
    BY <1>1, <2>2 DEF Claimed, Domains
  <2>4. Domains' /\ pc'[p] = l /\ \A q \in Procs \ {p} : pc'[q] = pc[q]
    BY <1>1, <2>1, <2>3 DEF Domains
  <2>5. held[p] = {} /\ pc[p] \in {"run", "drain", "broken"}
    BY <1>1, <2>1 DEF Works
  <2>6. Works(p)'
    BY <1>1, <2>1, <2>4, <2>5 DEF Works, AtWork
  <2> QED BY <2>1, <2>3, <2>4, <2>5, <2>6, HandsStep
<1> QED BY <1>2, <1>3, <1>4, <1>5, <1>6 DEF Manage, Drain

\* What becomes of the rows when a process begins, ends or is killed.
LEMMA StrandCommand ==
    ASSUME StrandInv, NEW p \in Procs,
           \/ Start(p) \/ Resume(p) \/ PremiumPass(p) \/ ResumeNext(p)
           \/ Return(p) \/ StepFails(p) \/ Crash(p)
    PROVE  StrandInv'
<1>1. Works(p) /\ Domains
  BY DEF StrandInv
<1>2. CASE Resume(p)
  <2>1. DOMAIN status' = Msgs /\ \A m \in Msgs : ~Claimed(m)'
    BY <1>1, <1>2, ResetLetsGo DEF Resume
  <2>2. \E ps, md, cs : Begin(p, ps, md, cs)
    BY <1>2 DEF Resume, Replay
  <2> QED BY <2>1, <2>2, BeginStep
<1>3. CASE Start(p) \/ PremiumPass(p) \/ ResumeNext(p)
  <2>1. UNCHANGED <<status, interrupted>> /\ \E ps, md, cs : Begin(p, ps, md, cs)
    BY <1>3 DEF Start, PremiumPass, ResumeNext, Replay, rowVars
  <2>2. DOMAIN status' = Msgs /\ \A m \in Msgs : Claimed(m)' => Claimed(m)
    BY <1>1, <2>1 DEF Claimed, Domains
  <2> QED BY <2>1, <2>2, BeginStep
<1>4. CASE Return(p)
  <2>1. Quit(p) /\ UNCHANGED <<status, interrupted>>
    BY <1>4 DEF Return, rowVars
  <2>2. \A r \in RunIDs \ {run[p]} : runs'[r] = runs[r]
    BY <1>1, <1>4 DEF Return, FinishRun, Domains
  <2>3. DOMAIN runs' = RunIDs
    BY <1>1, <1>4 DEF Return, FinishRun, Domains
  <2>4. held[p] # {} => runs' = runs
    <3> SUFFICES ASSUME held[p] # {} PROVE runs' = runs
      OBVIOUS
    <3>1. ~Preview(mode[p])
      BY <1>1 DEF Works
    <3> QED BY <3>1, <1>4 DEF Return
  <2> QED BY <2>1, <2>2, <2>3, <2>4, QuitStep
<1>5. CASE StepFails(p)
  <2>1. Quit(p) /\ UNCHANGED <<status, interrupted>> /\ runs' = [runs EXCEPT ![run[p]] = "failed"]
    BY <1>5 DEF StepFails, FinishRun, rowVars
  <2>2. held[p] = {}
    BY <1>1, <1>5 DEF StepFails, Works
  <2>3. DOMAIN runs' = RunIDs /\ \A r \in RunIDs \ {run[p]} : runs'[r] = runs[r]
    BY <1>1, <2>1 DEF Domains
  <2> QED BY <2>1, <2>2, <2>3, QuitStep
<1>6. CASE Crash(p)
  <2>1. Quit(p) /\ UNCHANGED <<status, interrupted, runs>>
    BY <1>6 DEF Crash, rowVars, runVars
  <2> QED BY <1>1, <2>1, QuitStep DEF Domains
<1> QED BY <1>2, <1>3, <1>4, <1>5, <1>6

\* The steps of a process before its manager runs, and its watermarks.
LEMMA StrandWalk ==
    ASSUME StrandInv, NEW p \in Procs,
           \/ Window(p) \/ Walk(p) \/ PreviewRun(p) \/ Record(p) \/ LoadItems(p)
           \/ \E c \in Chats : Advance(p, c)
    PROVE  StrandInv'
<1>1. Works(p) /\ Domains
  BY DEF StrandInv
<1>2. UNCHANGED <<runs, run, held, mode>>
  BY DEF Window, WindowFull, WindowFresh, WindowCleared, WindowIncremental, Walks, Walk,
     PreviewRun, Record, Discover, Enqueue, LoadItems, Advance, runVars, workVars
<1>3. DOMAIN status' = Msgs /\ \A m \in Msgs : Claimed(m)' => Claimed(m)
  <2>1. ASSUME NEW m \in Msgs, Discover(p, m) \/ Enqueue(p, m) PROVE <1>3!1 /\ <1>3!2
    <3>1. CASE UNCHANGED <<status, interrupted>>
      BY <1>1, <3>1 DEF Domains, Claimed
    <3>2. CASE ~UNCHANGED <<status, interrupted>>
      <4>1. UpsertMedia(m, "discovered") \/ UpsertMedia(m, "queued")
        BY <2>1, <3>2 DEF Discover, Enqueue, rowVars
      <4> QED BY <1>1, <4>1, UpsertLetsGo
    <3> QED BY <3>1, <3>2
  <2>2. CASE ~Record(p)
    <3>1. UNCHANGED <<status, interrupted>>
      BY <2>2 DEF Window, WindowFull, WindowFresh, WindowCleared, WindowIncremental, Walk,
         PreviewRun, LoadItems, Advance, rowVars
    <3> QED BY <1>1, <3>1 DEF Domains, Claimed
  <2> QED BY <2>1, <2>2 DEF Record
<1>4. CASE pc' = pc
  <2>1. \A r \in RunIDs : runs'[r] = runs[r]
    BY <1>2
  <2>2. Domains'
    BY <1>1, <1>2, <1>3, <1>4 DEF Domains
  <2> QED BY <1>2, <1>3, <1>4, <2>1, <2>2, RestStep
<1>5. CASE pc' # pc
  <2>1. \E l : /\ pc' = [pc EXCEPT ![p] = l] /\ l # "parking" /\ pc[p] \notin {"run", "parking"}
               /\ pc[p] \in AtWork
               /\ l \in {"enqueue", "run"} => ~Preview(mode[p])
               /\ l \notin {"drain", "broken"}
    <3>1. CASE Window(p)
      BY <1>5, <3>1 DEF Window, WindowFull, WindowFresh, WindowCleared, WindowIncremental,
         FromWatermark, Walks, Goto, AtWork
    <3>2. CASE Walk(p)
      <4>1. pc' = [pc EXCEPT ![p] = "walk"] /\ pc[p] = "page"
        BY <3>2 DEF Walk, Goto
      <4> WITNESS "walk"
      <4> QED BY <4>1 DEF AtWork
    <3>3. CASE PreviewRun(p)
      <4>1. /\ pc' = [pc EXCEPT ![p] = IF items[p] = {} THEN "advance" ELSE "discover"]
            /\ pc[p] = "walk"
        BY <3>3 DEF PreviewRun, Previewed, Goto
      <4> QED BY <4>1 DEF AtWork
    <3>4. ASSUME NEW m \in Msgs, Discover(p, m) PROVE <2>1
      <4>1. /\ pc' = [pc EXCEPT ![p] = IF items[p] \ {m} = {} THEN "advance" ELSE "discover"]
            /\ pc[p] = "discover"
        BY <3>4 DEF Discover, Previewed, Goto
      <4> QED BY <4>1 DEF AtWork
    <3>5. ASSUME NEW m \in Msgs, Enqueue(p, m) PROVE <2>1
      <4>1. /\ pc' = [pc EXCEPT ![p] = IF items[p] \ {m} = {} THEN "run" ELSE "enqueue"]
            /\ pc[p] = "enqueue"
        BY <3>5 DEF Enqueue, Queues, Goto
      <4>2. ~Preview(mode[p])
        BY <1>1, <4>1 DEF Works
      <4> QED BY <4>1, <4>2 DEF AtWork
    <3>6. CASE LoadItems(p)
      <4> DEFINE all == items[p] \cup UNION {PendingMedia(c) : c \in incr[p]}
                 big == IF Defers(p) THEN {m \in all : FileOf[m] \in Big} ELSE {}
      <4>1. /\ pc' = [pc EXCEPT ![p] = IF all \ big = {} THEN "run" ELSE "enqueue"]
            /\ pc[p] = "walk" /\ ~Preview(mode[p])
        BY <3>6 DEF LoadItems, Queues, Goto
      <4> HIDE DEF all, big
      <4> QED BY <4>1 DEF AtWork
    <3>7. ASSUME NEW c \in Chats, Advance(p, c) PROVE <2>1
      BY <1>5, <3>7 DEF Advance
    <3> QED BY <3>1, <3>2, <3>3, <3>4, <3>5, <3>6, <3>7 DEF Record
  <2> QED BY <1>2, <1>3, <2>1, GoOnStep
<1> QED BY <1>4, <1>5

LEMMA StrandInit == ASSUME Init PROVE StrandInv
BY DEF Init, StrandInv, Domains, Apart, Works, AtWork, Claimed, Preview

LEMMA StrandStep == ASSUME StrandInv, [Next]_vars PROVE StrandInv'
<1>1. Domains
  BY DEF StrandInv
<1>2. ASSUME UNCHANGED <<run, pc, held, mode, runs, status, interrupted>> PROVE StrandInv'
  BY <1>1, <1>2, RestStep DEF Domains, Claimed
<1>3. CASE UNCHANGED vars
  BY <1>2, <1>3 DEF vars, rowVars, runVars, procVars, workVars
<1>4. ASSUME NEW c \in Chats, Telegram(c) PROVE StrandInv'
  BY <1>2, <1>4 DEF Telegram, Post, ClearHistory, rowVars, runVars, procVars, workVars
<1>5. CASE ResumeRefused
  <2>1. UNCHANGED <<run, pc, held, mode, runs>>
    BY <1>5 DEF ResumeRefused, runVars, procVars, workVars
  <2>2. DOMAIN status' = Msgs /\ \A m \in Msgs : ~Claimed(m)'
    BY <1>1, <1>5, ResetLetsGo DEF ResumeRefused
  <2> QED BY <1>1, <2>1, <2>2, RestStep DEF Domains
<1>6. CASE CleanupFinishedRuns
  <2>1. /\ UNCHANGED <<run, pc, held, mode, status, interrupted>>
        /\ runs' = [r \in RunIDs |->
                      IF runs[r] \in {"done", "failed"} /\ \A p \in Procs : run[p] # r
                      THEN "none" ELSE runs[r]]
    BY <1>6 DEF CleanupFinishedRuns, rowVars, procVars, workVars
  <2>2. Domains'
    BY <1>1, <2>1 DEF Domains
  <2>3. \A r \in RunIDs : \/ runs'[r] = runs[r]
                          \/ /\ runs[r] \notin {"running", "parked"}
                             /\ \A p \in Procs : run[p] # r
    BY <2>1
  <2> QED BY <2>1, <2>2, <2>3, RestStep DEF Claimed
<1>7. ASSUME NEW p \in Procs,
             Start(p) \/ Resume(p) \/ Proceed(p) \/ Manage(p) \/ Drain(p) \/ Park(p)
             \/ StepFails(p) \/ Crash(p)
      PROVE  StrandInv'
  <2>1. CASE Start(p) \/ Resume(p) \/ StepFails(p) \/ Crash(p)
    BY <2>1, StrandCommand
  <2>2. CASE Manage(p) \/ Drain(p) \/ Park(p)
    BY <2>2, ManagerStep
  <2>3. CASE Window(p) \/ Walk(p) \/ PreviewRun(p) \/ Record(p) \/ LoadItems(p)
    BY <2>3, StrandWalk
  <2>4. CASE Conclude(p)
    BY <2>4, ManagerStep, StrandCommand, StrandWalk DEF Conclude
  <2> QED BY <1>7, <2>1, <2>2, <2>3, <2>4 DEF Proceed
<1> QED BY <1>3, <1>4, <1>5, <1>6, <1>7 DEF Next

\* dl_cmd.go:1025, resume_cmd.go: wherever a process dies, the rows it had claimed
\* are under a run that stays running or parked and which resume finds; however
\* many processes share the table, requeue one another's rows and delete runs.
THEOREM StrandedRowsHaveARun == Spec => []StrandedIsResumable
<1>1. Init => StrandInv
  BY StrandInit
<1>2. StrandInv /\ [Next]_vars => StrandInv'
  BY StrandStep
<1>3. StrandInv => StrandedIsResumable
  BY DEF StrandInv, StrandedIsResumable, Claimed, Orphan
<1> QED BY <1>1, <1>2, <1>3, PTL DEF Spec

-----------------------------------------------------------------------------
(* Finished rows *)

\* Only a preview stores its matches as discovered.
Carries ==
    /\ DOMAIN items = Procs /\ DOMAIN links = Procs /\ DOMAIN pc = Procs /\ DOMAIN mode = Procs
    /\ \A p \in Procs : pc[p] = "discover" => Preview(mode[p])

LEMMA CarriesStep == ASSUME Carries, [Next]_vars PROVE Carries'
<1>1. CASE UNCHANGED <<items, links, pc, mode>>
  BY <1>1 DEF Carries
<1>2. ASSUME NEW p \in Procs, Quit(p) \/ (\E ps, md, cs : Begin(p, ps, md, cs)) PROVE Carries'
  BY <1>2 DEF Quit, Begin, ForgetsWalk, Goto, Carries
<1>3. ASSUME NEW p \in Procs, UNCHANGED mode, DOMAIN items' = DOMAIN items,
             DOMAIN links' = DOMAIN links, DOMAIN pc' = DOMAIN pc,
             \A q \in Procs \ {p} : pc'[q] = pc[q],
             pc'[p] # "discover" \/ Preview(mode[p])
      PROVE  Carries'
  BY <1>3 DEF Carries
<1>4. ASSUME NEW p \in Procs,
             Start(p) \/ Resume(p) \/ PremiumPass(p) \/ ResumeNext(p) \/ Return(p)
             \/ StepFails(p) \/ Crash(p)
      PROVE  Carries'
  BY <1>2, <1>4 DEF Start, Resume, Replay, PremiumPass, ResumeNext, Return, StepFails, Crash
<1>5. ASSUME NEW p \in Procs, Window(p) PROVE Carries'
  <2>1. /\ UNCHANGED <<items, links, mode>>
        /\ pc' = pc \/ pc' = [pc EXCEPT ![p] = "page"]
    BY <1>5 DEF Window, WindowFull, WindowFresh, WindowCleared, WindowIncremental, Walks, Goto,
       workVars
  <2> QED BY <2>1, <1>1, <1>3 DEF Carries
<1>6. ASSUME NEW p \in Procs, Manage(p) \/ \E c \in Chats : Advance(p, c) PROVE Carries'
  BY <1>1, <1>6 DEF Manage, Claim, MarkDone, MarkFailed, MarkInterrupted, OnlyRows, Advance,
     walkVars, workVars
<1>7. ASSUME NEW p \in Procs, Walk(p) \/ FinishStatus(p) \/ Park(p) PROVE Carries'
  <2>1. UNCHANGED mode /\ DOMAIN items' = DOMAIN items /\ DOMAIN links' = DOMAIN links
    BY <1>7 DEF Walk, Observe, FinishStatus, Park, ForgetsWalk, walkVars, workVars
  <2>2. \E l \in {"walk", "advance", "parking"} : pc' = [pc EXCEPT ![p] = l]
    BY <1>7 DEF Walk, FinishStatus, Park, Goto
  <2> QED BY <2>1, <2>2, <1>3 DEF Carries
<1>8. ASSUME NEW p \in Procs, PreviewRun(p) PROVE Carries'
  <2>1. /\ UNCHANGED <<mode, links>> /\ DOMAIN items' = DOMAIN items /\ Preview(mode[p])
        /\ pc' = [pc EXCEPT ![p] = IF items[p] = {} THEN "advance" ELSE "discover"]
    BY <1>8 DEF PreviewRun, Previewed, Goto, workVars
  <2> QED BY <2>1, <1>3 DEF Carries
<1>9. ASSUME NEW p \in Procs, LoadItems(p) PROVE Carries'
  <2> DEFINE all == items[p] \cup UNION {PendingMedia(c) : c \in incr[p]}
             big == IF Defers(p) THEN {m \in all : FileOf[m] \in Big} ELSE {}
  <2>1. /\ UNCHANGED <<mode, links>> /\ DOMAIN items' = DOMAIN items
        /\ pc' = [pc EXCEPT ![p] = IF all \ big = {} THEN "run" ELSE "enqueue"]
    BY <1>9 DEF LoadItems, Queues, Goto, workVars
  <2> HIDE DEF all, big
  <2> QED BY <2>1, <1>3 DEF Carries
<1>10. ASSUME NEW p \in Procs, NEW m \in Msgs, Discover(p, m) PROVE Carries'
  <2>1. /\ UNCHANGED <<mode, links>> /\ DOMAIN items' = DOMAIN items /\ Preview(mode[p])
        /\ pc' = [pc EXCEPT ![p] = IF items[p] \ {m} = {} THEN "advance" ELSE "discover"]
    BY <1>10 DEF Discover, Previewed, Goto, workVars, Carries
  <2> QED BY <2>1, <1>3 DEF Carries
<1>11. ASSUME NEW p \in Procs, NEW m \in Msgs, Enqueue(p, m) PROVE Carries'
  <2>1. /\ UNCHANGED mode /\ DOMAIN items' = DOMAIN items /\ DOMAIN links' = DOMAIN links
        /\ pc' = [pc EXCEPT ![p] = IF items[p] \ {m} = {} THEN "run" ELSE "enqueue"]
    BY <1>11 DEF Enqueue, PutsAside, Queues, Goto
  <2> QED BY <2>1, <1>3 DEF Carries
<1>12. ASSUME NEW p \in Procs, Drain(p) PROVE Carries'
  <2>1. PICK m \in Msgs : Drains(p, m)
    BY <1>12 DEF Drain, LinkSkipped, LinkDone, LinkFailed, LinkInterrupted
  <2>2. /\ UNCHANGED <<mode, items>> /\ DOMAIN links' = DOMAIN links
        /\ \E l \in {"drain", "broken"} : pc' = [pc EXCEPT ![p] = l]
    BY <2>1 DEF Drains, Goto, walkVars
  <2> QED BY <2>2, <1>3 DEF Carries
<1>13. CASE UNCHANGED vars \/ ResumeRefused \/ CleanupFinishedRuns \/ \E c \in Chats : Telegram(c)
  BY <1>1, <1>13 DEF vars, ResumeRefused, CleanupFinishedRuns, Telegram, Post, ClearHistory,
     procVars, walkVars, workVars
<1> QED BY <1>4, <1>5, <1>6, <1>7, <1>8, <1>9, <1>10, <1>11, <1>12, <1>13
        DEF Next, Proceed, Conclude, Record

\* media.go:366, blob.go:311: however many processes share the table, a finished
\* row is taken back only by a preview that met its message, by a process that
\* still works on it although it was requeued, and by the drain of a process that
\* met its message when the file was known.
THEOREM FinishedRowsStay == Spec => OnlyRevisitsReopen
<1> DEFINE Reopen ==
             \A m \in Msgs : status[m] = "done" /\ status'[m] # "done" =>
                \E p \in Procs :
                   \/ m \in items[p] \ items'[p] /\ Preview(mode[p]) /\ status'[m] = "discovered"
                   \/ m \in held[p] \ held'[p] /\ status'[m] \in {"failed", "downloading"}
                   \/ m \in links[p] \ links'[p] /\ status'[m] \in {"failed", "downloading"}
<1>1. StrandInv /\ Carries /\ [Next]_vars => Reopen
  <2> SUFFICES ASSUME StrandInv, Carries, [Next]_vars, NEW m \in Msgs,
                      status[m] = "done", status'[m] # "done"
               PROVE  \E p \in Procs :
                         \/ m \in items[p] \ items'[p] /\ Preview(mode[p]) /\ status'[m] = "discovered"
                         \/ m \in held[p] \ held'[p] /\ status'[m] \in {"failed", "downloading"}
                         \/ m \in links[p] \ links'[p] /\ status'[m] \in {"failed", "downloading"}
    OBVIOUS
  <2>1. Domains
    BY DEF StrandInv
  <2>2. status' # status
    OBVIOUS
  <2>3. ~ResetDownloading
    BY <2>1 DEF ResetDownloading, Domains
  <2>4. ASSUME NEW p \in Procs, NEW o \in Msgs, Claim(p, o) PROVE FALSE
    BY <2>1, <2>4 DEF Claim, Claimable, Domains
  <2>5. ASSUME NEW p \in Procs, NEW o \in Msgs,
               MarkDone(p, o) \/ MarkFailed(p, o) \/ MarkInterrupted(p, o)
        PROVE  m \in held[p] \ held'[p] /\ status'[m] \in {"failed", "downloading"}
    <3>1. /\ o \in held[p] /\ held' = [held EXCEPT ![p] = @ \ {o}]
          /\ \E st \in {"done", "failed", "downloading"} : status' = [status EXCEPT ![o] = st]
      BY <2>5 DEF MarkDone, MarkFailed, MarkInterrupted, Settles
    <3> QED BY <2>1, <3>1 DEF Domains
  <2>6. ASSUME NEW p \in Procs, NEW o \in Msgs, Enqueue(p, o) PROVE FALSE
    <3>1. UpsertMedia(o, "queued") /\ ~KnownDone(o)
      BY <2>2, <2>6 DEF Enqueue, rowVars
    <3>2. o # m
      BY <3>1 DEF KnownDone
    <3> QED BY <2>1, <2>2, <3>1, <3>2 DEF UpsertMedia, rowVars, Domains
  <2>7. ASSUME NEW p \in Procs, NEW o \in Msgs, Discover(p, o)
        PROVE  m \in items[p] \ items'[p] /\ Preview(mode[p]) /\ status'[m] = "discovered"
    <3>1. /\ UpsertMedia(o, "discovered") /\ o \in items[p] /\ pc[p] = "discover"
          /\ items' = [items EXCEPT ![p] = items[p] \ {o}]
      BY <2>7 DEF Discover, Previewed
    <3>2. status' = [status EXCEPT ![o] = "discovered"]
      BY <2>2, <3>1 DEF UpsertMedia, rowVars
    <3>3. o = m /\ status'[m] = "discovered"
      BY <2>1, <3>2 DEF Domains
    <3> QED BY <3>1, <3>3 DEF Carries
  <2>10. ASSUME NEW p \in Procs, NEW o \in Msgs,
                LinkSkipped(p, o) \/ LinkDone(p, o) \/ LinkFailed(p, o) \/ LinkInterrupted(p, o)
         PROVE  m \in links[p] \ links'[p] /\ status'[m] \in {"failed", "downloading"}
    <3>1. /\ o \in links[p] /\ links' = [links EXCEPT ![p] = @ \ {o}]
          /\ \E st \in {"done", "failed", "downloading"} : Writes(o, st)
      BY <2>2, <2>10 DEF LinkSkipped, LinkDone, LinkFailed, LinkInterrupted, Drains, rowVars
    <3>2. o = m /\ status'[m] \in {"failed", "downloading"}
      BY <2>1, <3>1 DEF Writes, HasRow, Domains
    <3> QED BY <3>1, <3>2 DEF Carries
  <2>8. ~UNCHANGED vars /\ ~ResumeRefused /\ ~CleanupFinishedRuns /\ \A c \in Chats : ~Telegram(c)
    BY <2>2, <2>3 DEF vars, ResumeRefused, CleanupFinishedRuns, Telegram, Post, ClearHistory, rowVars
  <2>9. ASSUME NEW p \in Procs,
               \/ Start(p) \/ Resume(p) \/ Window(p) \/ Walk(p) \/ PreviewRun(p) \/ LoadItems(p)
               \/ Conclude(p) \/ Park(p) \/ StepFails(p) \/ Crash(p)
        PROVE  FALSE
    BY <2>2, <2>3, <2>9 DEF Start, Resume, Window, WindowFull, WindowFresh, WindowCleared,
       WindowIncremental, Walk, PreviewRun, LoadItems, Conclude, FinishStatus, Return,
       PremiumPass, ResumeNext, Advance, Park, StepFails, Crash, rowVars
  <2> QED BY <2>4, <2>5, <2>6, <2>7, <2>8, <2>9, <2>10 DEF Next, Proceed, Record, Manage, Drain
<1>2. Init => StrandInv /\ Carries
  BY StrandInit DEF Init, Carries
<1>3. StrandInv /\ Carries /\ [Next]_vars => StrandInv' /\ Carries'
  BY StrandStep, CarriesStep
<1> QED BY <1>1, <1>2, <1>3, PTL DEF Spec, OnlyRevisitsReopen
=============================================================================
