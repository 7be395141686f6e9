-------------------------- MODULE FileStoreProofs --------------------------
(***************************************************************************)
(* Machine-checked facts about the downloads tree, for every number of     *)
(* rows, sightings, workers, configurations and inodes.                    *)
(***************************************************************************)
EXTENDS FileStore, TLAPS

Busy(w) == pc[w] # "idle"

\* A run comes to its sightings, one at a time, when its workers have gone home
\* (Manager.Run, drainPendingLinks); only a second process on the same tree escapes
\* this.
SightingsComeLast ==
    \A v, w \in Workers :
        v # w /\ Busy(v) /\ Busy(w) /\ item[w] \in Sightings => FileOf[item[v]] # FileOf[item[w]]

\* No two workers are busy with one file.
OneHandPerFile ==
    \A v, w \in Workers : v # w /\ Busy(v) /\ Busy(w) => FileOf[item[v]] # FileOf[item[w]]

\* The final paths a file can come to.
NamesOf(f) ==
    {n \in Names : \E i \in Items : FileOf[i] = f /\ n \in {NameOf[i], IndexOf[NameOf[i]]}}

\* Names tell files apart, and a copy that replaces a link reaches its end.
Orderly ==
    /\ \A f, g \in Rows : f # g => NamesOf(f) \cap NamesOf(g) = {}
    /\ FALSE \notin CopyAnswers

\* The entries that hold a file and nothing else: its blob, and its final paths
\* where names tell files apart.
Belongs(e, f) ==
    \/ e = Blob(f)
    \/ Orderly /\ \E n \in NamesOf(f) : e = Final(n)

Tops == Finals \cup Blobs

TypeInv ==
    /\ inode \in [Entries -> Inodes \cup {0}]
    /\ DOMAIN owner = Inodes /\ DOMAIN state = Inodes
    /\ DOMAIN status = Rows
    /\ path \in [Rows -> Finals \cup {NoEntry}]
    /\ pc \in [Workers -> {"idle", "look", "open", "fetch", "promote", "link", "mark"}]
    /\ item \in [Workers -> Items \cup {NoItem}]
    /\ cfg \in [Workers -> Configs \cup {NoConfig}]
    /\ dest \in [Workers -> Finals \cup {NoEntry}]
    /\ fd \in [Workers -> Inodes \cup {0}]
    /\ doomed \in BlobDir \cup {NoEntry}

\* What a worker has in hand where.
Step(w) ==
    /\ pc[w] # "idle" => item[w] \in Items
    /\ pc[w] \in {"idle", "look", "open"} => fd[w] = 0
    /\ pc[w] \in {"fetch", "promote"} => fd[w] # 0
    /\ pc[w] = "link" => Hardlink(w)
    /\ pc[w] \notin {"idle", "look"} =>
          /\ dest[w] \in Finals
          /\ Orderly => Belongs(dest[w], FileOf[item[w]])

\* A part file's inode has no other entry.
PartsAlone ==
    \A e \in Tops, o \in Entries :
        Present(Part(e)) /\ inode[o] = inode[Part(e)] => o = Part(e)

\* An entry of its own holds all of its file, and the part file next to it some.
OwnBytes ==
    \A e \in Tops, f \in Rows : Belongs(e, f) =>
        /\ Present(e) => owner[inode[e]] = f /\ (state[inode[e]] = "whole" \/ f \in meddled)
        /\ Present(Part(e)) =>
              owner[inode[Part(e)]] = f /\ state[inode[Part(e)]] \in {"partial", "whole"}

\* An open inode of a file is open for that file.
OwnHand(w) ==
    \A e \in Tops, f \in Rows :
        Belongs(e, f) /\ fd[w] # 0 /\ fd[w] \in {inode[e], inode[Part(e)]} =>
            FileOf[item[w]] = f

\* The part file a worker promotes is the one it has open, and fetched.
OpenIsOwn(w) ==
    \A f \in Rows :
        LET p == PromotePath(w)
        IN  fd[w] # 0 /\ Belongs(p, f) /\ Present(Part(p)) =>
               /\ fd[w] = inode[Part(p)]
               /\ pc[w] = "promote" => state[inode[Part(p)]] = "whole"

\* A row's path is one of its own, and leads to a file from the moment it is set.
OwnPaths ==
    Orderly =>
        /\ \A r \in Rows : path[r] # NoEntry => Belongs(path[r], r)
        /\ \A r \in Rows : status[r] = "done" /\ r \notin meddled =>
              path[r] # NoEntry /\ Present(path[r])
        /\ \A w \in Workers : pc[w] = "mark" /\ FileOf[item[w]] \notin meddled =>
              Present(dest[w])

\* A row at work is a claimed row, and one worker's.
RowsInHand ==
    \A w \in Workers : Busy(w) /\ item[w] \in Rows =>
        /\ status[item[w]] = "downloading"
        /\ \A v \in Workers : Busy(v) /\ item[v] = item[w] => v = w

StoreInv ==
    /\ TypeInv /\ RowsInHand /\ PartsAlone /\ OwnBytes /\ OwnPaths
    /\ \A w \in Workers : Step(w) /\ OwnHand(w) /\ OpenIsOwn(w)

-----------------------------------------------------------------------------
(* Names *)

LEMMA EntryShape ==
    /\ \A e \in Tops : e \in Entries /\ Part(e) \in Entries
    /\ \A e, o \in Tops : Part(e) # o /\ (Part(e) = Part(o) => e = o)
    /\ \A f \in Rows : Blob(f) \in Blobs /\ Blob(f) \in Tops
    /\ \A f, g \in Rows : Blob(f) = Blob(g) => f = g
    /\ \A n \in Names : Final(n) \in Finals /\ Final(n) \in Tops
    /\ \A n, m \in Names : Final(n) = Final(m) => n = m
    /\ Finals \subseteq Tops /\ Finals \cap Blobs = {}
    /\ BlobDir \subseteq Entries /\ BlobDir \cap Finals = {}
    /\ NoEntry \notin Entries
  BY DEF Tops, Finals, Blobs, Entries, BlobDir, Part, Final, Blob, NoEntry

LEMMA FileOfRow ==
    ASSUME ItemsAssumption, NEW i \in Items
    PROVE  FileOf[i] \in Rows /\ (i \in Rows => FileOf[i] = i)
  BY DEF FileOf, Items, ItemsAssumption

LEMMA BelongsToOne ==
    ASSUME NEW f \in Rows, NEW g \in Rows, NEW e, Belongs(e, f)
    PROVE  e \in Tops /\ (Belongs(e, g) => f = g)
<1>1. CASE e = Blob(f)
  <2>1. e \in Blobs /\ \A n \in NamesOf(g) : e # Final(n)
    BY <1>1, EntryShape DEF NamesOf
  <2> QED BY <2>1, <1>1, EntryShape DEF Belongs
<1>2. CASE e # Blob(f)
  <2>1. PICK n \in NamesOf(f) : Orderly /\ e = Final(n)
    BY <1>2 DEF Belongs
  <2>2. n \in Names
    BY <2>1 DEF NamesOf
  <2>3. e \in Finals /\ e \in Tops /\ e # Blob(g)
    BY <2>1, <2>2, EntryShape
  <2>4. ASSUME Belongs(e, g) PROVE f = g
    <3>1. PICK m \in NamesOf(g) : e = Final(m)
      BY <2>3, <2>4 DEF Belongs
    <3>2. m = n
      BY <2>1, <2>2, <3>1, EntryShape DEF NamesOf
    <3> QED BY <2>1, <3>1, <3>2 DEF Orderly
  <2> QED BY <2>3, <2>4
<1> QED BY <1>1, <1>2

LEMMA InodeNumbers ==
    ASSUME ModesAssumption, TypeInv
    PROVE  /\ 0 \notin Inodes
           /\ \A e \in Entries : Present(e) <=> inode[e] \in Inodes
           /\ \A w \in Workers : fd[w] # 0 <=> fd[w] \in Inodes
  BY DEF ModesAssumption, TypeInv, Present

\* A promotion's target is the file's own wherever such entries are told apart.
LEMMA OwnTarget ==
    ASSUME ItemsAssumption, NEW w \in Workers, Step(w), pc[w] \notin {"idle", "look"},
           NEW f \in Rows, Belongs(PromotePath(w), f)
    PROVE  f = FileOf[item[w]] /\ PromotePath(w) \in Tops
<1>1. FileOf[item[w]] \in Rows /\ pc[w] # "idle"
  BY FileOfRow DEF Step
<1>2. CASE Hardlink(w)
  <2>1. PromotePath(w) = Blob(FileOf[item[w]])
    BY <1>2 DEF PromotePath
  <2> QED BY <1>1, <2>1, BelongsToOne DEF Belongs
<1>3. CASE ~Hardlink(w)
  <2>1. PromotePath(w) = dest[w] /\ dest[w] \in Finals
    BY <1>3 DEF PromotePath, Step
  <2>2. \A g \in Rows : dest[w] # Blob(g)
    BY <2>1, EntryShape
  <2>3. Orderly
    BY <2>1, <2>2 DEF Belongs
  <2>4. Belongs(dest[w], FileOf[item[w]])
    BY <2>3 DEF Step
  <2> QED BY <1>1, <2>1, <2>4, BelongsToOne
<1> QED BY <1>2, <1>3

\* Nobody else is busy at the target of a worker's promotion.
LEMMA OneAtTarget ==
    ASSUME ItemsAssumption, OneHandPerFile, NEW v \in Workers, NEW w \in Workers, v # w,
           Step(v), Step(w), fd[v] # 0, pc[w] \notin {"idle", "look"},
           NEW f \in Rows, Belongs(PromotePath(v), f)
    PROVE  PromotePath(w) # PromotePath(v)
<1>1. pc[v] \notin {"idle", "look", "open"} /\ pc[w] # "idle"
  BY DEF Step
<1>2. f = FileOf[item[v]]
  BY <1>1, OwnTarget
<1>3. PromotePath(w) = PromotePath(v) => f = FileOf[item[w]]
  BY OwnTarget
<1> QED BY <1>1, <1>2, <1>3 DEF OneHandPerFile, Busy
-----------------------------------------------------------------------------
(* What a change of the tree leaves true, whoever makes it *)

DiskInv == PartsAlone /\ OwnBytes
HandInv(w) == OwnHand(w) /\ OpenIsOwn(w)

\* A worker the change does not bring forward.
Stays(w) ==
    \/ fd'[w] = 0
    \/ /\ fd'[w] = fd[w] /\ item'[w] = item[w] /\ cfg'[w] = cfg[w] /\ dest'[w] = dest[w]
       /\ pc'[w] = "promote" => pc[w] = "promote"

LEMMA StaysThere ==
    ASSUME NEW w \in Workers, Stays(w), fd'[w] # 0
    PROVE  /\ fd'[w] = fd[w] /\ item'[w] = item[w] /\ PromotePath(w)' = PromotePath(w)
           /\ pc'[w] = "promote" => pc[w] = "promote"
  BY DEF Stays, PromotePath, Hardlink

LEMMA Undisturbed ==
    ASSUME ItemsAssumption, ModesAssumption, StoreInv, UNCHANGED diskVars,
           meddled \subseteq meddled'
    PROVE  DiskInv' /\ \A w \in Workers : Stays(w) => HandInv(w)'
<1>1. DiskInv'
  BY DEF StoreInv, diskVars, DiskInv, PartsAlone, OwnBytes, Present
<1>2. ASSUME NEW w \in Workers, Stays(w) PROVE HandInv(w)'
  <2>1. CASE fd'[w] = 0
    BY <2>1 DEF HandInv, OwnHand, OpenIsOwn
  <2>2. CASE fd'[w] # 0
    <3>1. OwnHand(w)'
      BY <1>2, <2>2, StaysThere DEF StoreInv, OwnHand, diskVars
    <3>2. OpenIsOwn(w)'
      BY <1>2, <2>2, StaysThere DEF StoreInv, OpenIsOwn, diskVars, Present
    <3> QED BY <3>1, <3>2 DEF HandInv
  <2> QED BY <2>1, <2>2
<1> QED BY <1>1, <1>2

\* An entry for an inode nobody uses: a part file, or a copy of a blob.
LEMMA NewFile ==
    ASSUME ItemsAssumption, ModesAssumption, StoreInv,
           NEW e0 \in Entries, ~Present(e0), NEW n \in Inodes, Free(n),
           inode' = [inode EXCEPT ![e0] = n], meddled' = meddled,
           \A k \in Inodes : k # n => owner'[k] = owner[k] /\ state'[k] = state[k],
           \A f \in Rows : Belongs(e0, f) =>
              owner'[n] = f /\ (state'[n] = "whole" \/ f \in meddled),
           \A e \in Tops, f \in Rows :
              e0 = Part(e) /\ Belongs(e, f) => owner'[n] = f /\ state'[n] = "partial"
    PROVE  /\ DiskInv'
           /\ \A w \in Workers :
                 Stays(w) /\ (\A f \in Rows : Belongs(PromotePath(w), f) =>
                                 fd[w] = 0 \/ e0 # Part(PromotePath(w))) => HandInv(w)'
<1>1. /\ \A e \in Entries : inode'[e] = IF e = e0 THEN n ELSE inode[e]
      /\ \A e \in Entries : inode[e] # n
      /\ \A w \in Workers : fd[w] # n
      /\ n # 0 /\ inode[e0] = 0
  BY InodeNumbers DEF StoreInv, TypeInv, Free, Present
<1>2. PartsAlone'
  BY <1>1, EntryShape DEF StoreInv, PartsAlone, Present
<1>3. OwnBytes'
  <2> SUFFICES ASSUME NEW e \in Tops, NEW f \in Rows, Belongs(e, f)
               PROVE  /\ inode'[e] # 0 => owner'[inode'[e]] = f
                                          /\ (state'[inode'[e]] = "whole" \/ f \in meddled')
                      /\ inode'[Part(e)] # 0 =>
                            /\ owner'[inode'[Part(e)]] = f
                            /\ state'[inode'[Part(e)]] \in {"partial", "whole"}
    BY DEF OwnBytes, Present
  <2>1. e \in Entries /\ Part(e) \in Entries /\ \A k \in Entries : inode[k] \in Inodes \cup {0}
    BY EntryShape DEF StoreInv, TypeInv
  <2>2. \A k \in {inode[e], inode[Part(e)]} :
           k # 0 => k \in Inodes /\ owner'[k] = owner[k] /\ state'[k] = state[k]
    BY <1>1, <2>1
  <2>3. /\ inode[e] # 0 => owner[inode[e]] = f /\ (state[inode[e]] = "whole" \/ f \in meddled)
        /\ inode[Part(e)] # 0 => /\ owner[inode[Part(e)]] = f
                                 /\ state[inode[Part(e)]] \in {"partial", "whole"}
    BY DEF StoreInv, OwnBytes, Present
  <2> QED BY <1>1, <2>1, <2>2, <2>3
<1>4. ASSUME NEW w \in Workers, Stays(w),
             \A f \in Rows : Belongs(PromotePath(w), f) => fd[w] = 0 \/ e0 # Part(PromotePath(w))
      PROVE  HandInv(w)'
  <2>1. CASE fd'[w] = 0
    BY <2>1 DEF HandInv, OwnHand, OpenIsOwn
  <2>2. CASE fd'[w] # 0
    <3>1. OwnHand(w)'
      BY <1>1, <1>4, <2>2, StaysThere, EntryShape DEF StoreInv, OwnHand
    <3>2. OpenIsOwn(w)'
      <4> SUFFICES ASSUME NEW f \in Rows, Belongs(PromotePath(w), f),
                          inode'[Part(PromotePath(w))] # 0
                   PROVE  /\ fd[w] = inode'[Part(PromotePath(w))]
                          /\ pc'[w] = "promote" => state'[inode'[Part(PromotePath(w))]] = "whole"
        BY <1>4, <2>2, StaysThere DEF OpenIsOwn, Present
      <4>1. PromotePath(w) \in Tops /\ fd[w] # 0
        BY <1>4, <2>2, BelongsToOne, StaysThere
      <4>2. inode'[Part(PromotePath(w))] = inode[Part(PromotePath(w))]
            /\ inode[Part(PromotePath(w))] \in Inodes
        BY <1>1, <1>4, <4>1, EntryShape DEF StoreInv, TypeInv
      <4>3. state'[inode[Part(PromotePath(w))]] = state[inode[Part(PromotePath(w))]]
        BY <1>1, <4>1, <4>2, EntryShape
      <4> QED BY <1>4, <2>2, <4>1, <4>2, <4>3, StaysThere DEF StoreInv, OpenIsOwn, Present
    <3> QED BY <3>1, <3>2 DEF HandInv
  <2> QED BY <2>1, <2>2
<1> QED BY <1>2, <1>3, <1>4 DEF DiskInv

\* An entry that goes: the user's or the garbage collector's doing.
LEMMA EntryGone ==
    ASSUME ItemsAssumption, ModesAssumption, StoreInv, NEW e0 \in Entries,
           inode' = [inode EXCEPT ![e0] = 0], UNCHANGED <<owner, state>>,
           meddled \subseteq meddled'
    PROVE  DiskInv' /\ \A w \in Workers : Stays(w) => HandInv(w)'
<1>1. \A e \in Entries : inode'[e] = IF e = e0 THEN 0 ELSE inode[e]
  BY DEF StoreInv, TypeInv
<1>2. DiskInv'
  BY <1>1, EntryShape DEF StoreInv, DiskInv, PartsAlone, OwnBytes, Present
<1>3. ASSUME NEW w \in Workers, Stays(w) PROVE HandInv(w)'
  <2>1. CASE fd'[w] = 0
    BY <2>1 DEF HandInv, OwnHand, OpenIsOwn
  <2>2. CASE fd'[w] # 0
    <3>1. OwnHand(w)'
      BY <1>1, <1>3, <2>2, StaysThere, EntryShape DEF StoreInv, OwnHand
    <3>2. OpenIsOwn(w)'
      <4>1. \A f \in Rows : Belongs(PromotePath(w), f) => PromotePath(w) \in Tops
        BY BelongsToOne
      <4> QED BY <1>1, <1>3, <2>2, <4>1, StaysThere, EntryShape DEF StoreInv, OpenIsOwn, Present
    <3> QED BY <3>1, <3>2 DEF HandInv
  <2> QED BY <2>1, <2>2
<1> QED BY <1>2, <1>3

\* One more link of a blob, under a path of its file.
LEMMA BlobLinked ==
    ASSUME ItemsAssumption, ModesAssumption, StoreInv, NEW e0 \in Finals, NEW b \in Rows,
           Present(Blob(b)), inode' = [inode EXCEPT ![e0] = inode[Blob(b)]],
           UNCHANGED <<owner, state>>, meddled' = meddled,
           \A f \in Rows : Belongs(e0, f) => f = b
    PROVE  DiskInv' /\ \A w \in Workers : Stays(w) => HandInv(w)'
<1>1. /\ \A e \in Entries : inode'[e] = IF e = e0 THEN inode[Blob(b)] ELSE inode[e]
      /\ e0 \in Tops /\ Blob(b) \in Tops /\ Belongs(Blob(b), b) /\ inode[Blob(b)] # 0
  BY EntryShape DEF StoreInv, TypeInv, Belongs, Present
<1>2. PartsAlone'
  BY <1>1, EntryShape DEF StoreInv, PartsAlone, Present
<1>3. OwnBytes'
  BY <1>1, EntryShape DEF StoreInv, OwnBytes, Present
<1>4. ASSUME NEW w \in Workers, Stays(w) PROVE HandInv(w)'
  <2>1. CASE fd'[w] = 0
    BY <2>1 DEF HandInv, OwnHand, OpenIsOwn
  <2>2. CASE fd'[w] # 0
    <3>1. OwnHand(w)'
      BY <1>1, <1>4, <2>2, StaysThere, EntryShape DEF StoreInv, OwnHand
    <3>2. OpenIsOwn(w)'
      <4>1. \A f \in Rows : Belongs(PromotePath(w), f) => PromotePath(w) \in Tops
        BY BelongsToOne
      <4> QED BY <1>1, <1>4, <2>2, <4>1, StaysThere, EntryShape DEF StoreInv, OpenIsOwn, Present
    <3> QED BY <3>1, <3>2 DEF HandInv
  <2> QED BY <2>1, <2>2
<1> QED BY <1>2, <1>3, <1>4 DEF DiskInv

\* A copy of a blob, under a path of its file.
LEMMA BlobCopied ==
    ASSUME ItemsAssumption, ModesAssumption, StoreInv, NEW e0 \in Finals, ~Present(e0),
           NEW b \in Rows, Present(Blob(b)), NEW whole \in CopyAnswers,
           Copied(Blob(b), e0, whole), meddled' = meddled,
           \A f \in Rows : Belongs(e0, f) => f = b
    PROVE  DiskInv' /\ \A w \in Workers : Stays(w) => HandInv(w)'
<1>1. PICK n \in Inodes :
         /\ Free(n) /\ inode' = [inode EXCEPT ![e0] = n]
         /\ owner' = [owner EXCEPT ![n] = owner[inode[Blob(b)]]]
         /\ state' = [state EXCEPT ![n] = IF whole THEN state[inode[Blob(b)]] ELSE "partial"]
  BY DEF Copied, NextFree
<1>2. e0 \in Entries /\ \A e \in Tops : e0 # Part(e)
  BY EntryShape DEF Entries
<1>3. owner[inode[Blob(b)]] = b /\ (state[inode[Blob(b)]] = "whole" \/ b \in meddled)
  BY EntryShape DEF StoreInv, OwnBytes, Belongs
<1>4. \A f \in Rows : Belongs(e0, f) => Orderly
  BY EntryShape DEF Belongs
<1>5. Orderly => whole
  BY DEF Orderly, ModesAssumption
<1>6. \A f \in Rows : Belongs(e0, f) => owner'[n] = f /\ (state'[n] = "whole" \/ f \in meddled)
  BY <1>1, <1>3, <1>4, <1>5 DEF StoreInv, TypeInv
<1>7. \A w \in Workers, f \in Rows : Belongs(PromotePath(w), f) =>
         fd[w] = 0 \/ e0 # Part(PromotePath(w))
  BY <1>2, BelongsToOne
<1>8. \A k \in Inodes : k # n => owner'[k] = owner[k] /\ state'[k] = state[k]
  BY <1>1 DEF StoreInv, TypeInv
<1>9. \A e \in Tops, f \in Rows :
         e0 = Part(e) /\ Belongs(e, f) => owner'[n] = f /\ state'[n] = "partial"
  BY <1>2
<1> QED BY <1>1, <1>2, <1>6, <1>7, <1>8, <1>9, NewFile

\* A part file takes the place it was made for.
LEMMA PartPromoted ==
    ASSUME ItemsAssumption, ModesAssumption, StoreInv, NEW p \in Tops, Present(Part(p)),
           inode' = [inode EXCEPT ![p] = inode[Part(p)], ![Part(p)] = 0],
           UNCHANGED <<owner, state>>, meddled' = meddled,
           \A f \in Rows : Belongs(p, f) => state[inode[Part(p)]] = "whole"
    PROVE  DiskInv' /\ \A w \in Workers : Stays(w) => HandInv(w)'
<1>1. /\ \A e \in Entries : inode'[e] = IF e = p THEN inode[Part(p)]
                                        ELSE IF e = Part(p) THEN 0 ELSE inode[e]
      /\ p \in Entries /\ Part(p) \in Entries /\ p # Part(p) /\ inode[Part(p)] # 0
  BY EntryShape DEF StoreInv, TypeInv, Present
<1>2. PartsAlone'
  BY <1>1, EntryShape DEF StoreInv, PartsAlone, Present
<1>3. /\ inode'[p] = inode[Part(p)] /\ inode'[Part(p)] = 0
      /\ \A e \in Tops : e # p => inode'[e] = inode[e] /\ inode'[Part(e)] = inode[Part(e)]
  BY <1>1, EntryShape
<1>4. OwnBytes'
  <2> SUFFICES ASSUME NEW e \in Tops, NEW f \in Rows, Belongs(e, f)
               PROVE  /\ inode'[e] # 0 => owner[inode'[e]] = f
                                          /\ (state[inode'[e]] = "whole" \/ f \in meddled)
                      /\ inode'[Part(e)] # 0 =>
                            /\ owner[inode'[Part(e)]] = f
                            /\ state[inode'[Part(e)]] \in {"partial", "whole"}
    BY DEF OwnBytes, Present
  <2>2. CASE e = p
    BY <1>3, <2>2 DEF StoreInv, OwnBytes, Present
  <2>3. CASE e # p
    <3>1. inode'[e] = inode[e] /\ inode'[Part(e)] = inode[Part(e)]
      BY <1>3, <2>3
    <3> QED BY <3>1 DEF StoreInv, OwnBytes, Present
  <2> QED BY <2>2, <2>3
<1>5. ASSUME NEW w \in Workers, Stays(w) PROVE HandInv(w)'
  <2>1. CASE fd'[w] = 0
    BY <2>1 DEF HandInv, OwnHand, OpenIsOwn
  <2>2. CASE fd'[w] # 0
    <3>1. OwnHand(w)'
      BY <1>1, <1>5, <2>2, StaysThere, EntryShape DEF StoreInv, OwnHand
    <3>2. OpenIsOwn(w)'
      <4>1. /\ fd'[w] = fd[w] /\ PromotePath(w)' = PromotePath(w)
            /\ pc'[w] = "promote" => pc[w] = "promote"
        BY <1>5, <2>2, StaysThere
      <4> SUFFICES ASSUME NEW f \in Rows, Belongs(PromotePath(w), f),
                          inode'[Part(PromotePath(w))] # 0
                   PROVE  /\ fd[w] = inode'[Part(PromotePath(w))]
                          /\ pc'[w] = "promote" => state'[inode'[Part(PromotePath(w))]] = "whole"
        BY <4>1 DEF OpenIsOwn, Present
      <4>2. PromotePath(w) \in Tops
        BY BelongsToOne
      <4>3. inode'[Part(PromotePath(w))] = inode[Part(PromotePath(w))]
        BY <1>3, <4>2
      <4> QED BY <2>2, <4>1, <4>3 DEF StoreInv, OpenIsOwn, Present
    <3> QED BY <3>1, <3>2 DEF HandInv
  <2> QED BY <2>1, <2>2
<1> QED BY <1>2, <1>4, <1>5 DEF DiskInv

\* The transfer of a worker reaches no file but its own.
LEMMA BytesFetched ==
    ASSUME ItemsAssumption, ModesAssumption, StoreInv, NEW w \in Workers, Fetch(w)
    PROVE  DiskInv' /\ HandInv(w)' /\ \A v \in Workers : Stays(v) => HandInv(v)'
<1>1. /\ UNCHANGED <<inode, item, cfg, dest, fd, meddled>> /\ pc[w] = "fetch"
      /\ fd[w] # 0 /\ fd[w] \in Inodes /\ Step(w)
  BY InodeNumbers DEF StoreInv, Step, Fetch, userVars
<1>2. ASSUME NEW e \in Tops, NEW f \in Rows, Belongs(e, f), fd[w] \in {inode[e], inode[Part(e)]}
      PROVE  FileOf[item[w]] = f /\ owner[fd[w]] = f
  <2>1. Present(e) \/ Present(Part(e))
    BY <1>1, <1>2 DEF Present
  <2> QED BY <1>1, <1>2, <2>1 DEF StoreInv, OwnHand, OwnBytes, Present
<1>3. \A k \in Inodes :
         \/ k # fd[w] /\ owner'[k] = owner[k] /\ state'[k] = state[k]
         \/ /\ k = fd[w] /\ owner[k] = FileOf[item[w]] /\ owner'[k] = owner[k]
            /\ state'[k] = IF state[k] = "partial" THEN "whole" ELSE state[k]
         \/ k = fd[w] /\ owner[k] # FileOf[item[w]]
  BY DEF StoreInv, TypeInv, Fetch
<1>4. \A e \in Tops : inode[e] \in Inodes \cup {0} /\ inode[Part(e)] \in Inodes \cup {0}
  BY EntryShape DEF StoreInv, TypeInv
<1>5. PartsAlone'
  BY <1>1 DEF StoreInv, PartsAlone, Present
<1>6. OwnBytes'
  <2> SUFFICES ASSUME NEW e \in Tops, NEW f \in Rows, Belongs(e, f)
               PROVE  /\ inode[e] # 0 => owner'[inode[e]] = f
                                         /\ (state'[inode[e]] = "whole" \/ f \in meddled)
                      /\ inode[Part(e)] # 0 =>
                            /\ owner'[inode[Part(e)]] = f
                            /\ state'[inode[Part(e)]] \in {"partial", "whole"}
    BY <1>1 DEF OwnBytes, Present
  <2>1. \A k \in {inode[e], inode[Part(e)]} : k \in Inodes =>
           \/ owner'[k] = owner[k] /\ state'[k] = state[k]
           \/ /\ owner[k] = f /\ owner'[k] = f
              /\ state'[k] = IF state[k] = "partial" THEN "whole" ELSE state[k]
    <3> SUFFICES ASSUME NEW k \in {inode[e], inode[Part(e)]}, k \in Inodes
                 PROVE  \/ owner'[k] = owner[k] /\ state'[k] = state[k]
                        \/ /\ owner[k] = f /\ owner'[k] = f
                           /\ state'[k] = IF state[k] = "partial" THEN "whole" ELSE state[k]
      OBVIOUS
    <3>1. CASE k = fd[w]
      BY <3>1, <1>2, <1>3
    <3>2. CASE k # fd[w]
      BY <3>2, <1>3
    <3> QED BY <3>1, <3>2
  <2>2. /\ inode[e] # 0 => owner[inode[e]] = f /\ (state[inode[e]] = "whole" \/ f \in meddled)
        /\ inode[Part(e)] # 0 => /\ owner[inode[Part(e)]] = f
                                 /\ state[inode[Part(e)]] \in {"partial", "whole"}
    BY DEF StoreInv, OwnBytes, Present
  <2> QED BY <2>1, <2>2, <1>4
<1>7. \A v \in Workers : OwnHand(v)' 
  BY <1>1 DEF StoreInv, OwnHand
<1>8. ASSUME NEW v \in Workers, v = w \/ Stays(v) PROVE OpenIsOwn(v)'
  <2>1. PromotePath(v)' = PromotePath(v)
    BY <1>1 DEF PromotePath, Hardlink
  <2> SUFFICES ASSUME NEW f \in Rows, fd[v] # 0, Belongs(PromotePath(v), f),
                      inode[Part(PromotePath(v))] # 0
               PROVE  /\ fd[v] = inode[Part(PromotePath(v))]
                      /\ pc'[v] = "promote" => state'[inode[Part(PromotePath(v))]] = "whole"
    BY <1>1, <2>1 DEF OpenIsOwn, Present
  <2>2. fd[v] = inode[Part(PromotePath(v))] /\ PromotePath(v) \in Tops
        /\ (pc[v] = "promote" => state[inode[Part(PromotePath(v))]] = "whole")
    BY BelongsToOne DEF StoreInv, OpenIsOwn, Present
  <2>3. state[fd[v]] \in {"partial", "whole"} /\ fd[v] \in Inodes
    BY <2>2, <1>4 DEF StoreInv, OwnBytes, Present
  <2>4. CASE v = w
    BY <1>2, <1>3, <2>2, <2>3, <2>4
  <2>5. CASE v # w
    <3>1. pc'[v] = "promote" => pc[v] = "promote"
      BY <1>8, <2>5, <1>1 DEF Stays
    <3>2. state[fd[v]] = "whole" => state'[fd[v]] = "whole"
      BY <1>2, <1>3, <2>2, <2>3
    <3> QED BY <3>1, <3>2, <2>2
  <2> QED BY <2>4, <2>5
<1> QED BY <1>5, <1>6, <1>7, <1>8 DEF DiskInv, HandInv

\* What the user damages is nobody's part file, and no longer vouched for.
LEMMA BytesDamaged ==
    ASSUME ItemsAssumption, ModesAssumption, StoreInv, NEW n \in Names, DamageFinal(n)
    PROVE  DiskInv' /\ \A w \in Workers : Stays(w) => HandInv(w)'
<1>1. /\ UNCHANGED <<inode, owner>> /\ inode[Final(n)] # 0 /\ Final(n) \in Tops
      /\ meddled' = meddled \cup {owner[inode[Final(n)]]}
      /\ \A k \in Inodes : k # inode[Final(n)] => state'[k] = state[k]
  BY EntryShape DEF StoreInv, TypeInv, DamageFinal, Touches, Present
<1>2. /\ \A e \in Tops : inode[e] \in Inodes \cup {0} /\ inode[Part(e)] \in Inodes \cup {0}
      /\ \A e \in Tops : inode[Part(e)] # 0 => inode[Part(e)] # inode[Final(n)]
  BY <1>1, EntryShape DEF StoreInv, TypeInv, PartsAlone, Present
<1>3. PartsAlone'
  BY <1>1 DEF StoreInv, PartsAlone, Present
<1>4. OwnBytes'
  <2> SUFFICES ASSUME NEW e \in Tops, NEW f \in Rows, Belongs(e, f)
               PROVE  /\ inode[e] # 0 => owner[inode[e]] = f
                                         /\ (state'[inode[e]] = "whole" \/ f \in meddled')
                      /\ inode[Part(e)] # 0 =>
                            /\ owner[inode[Part(e)]] = f
                            /\ state'[inode[Part(e)]] \in {"partial", "whole"}
    BY <1>1 DEF OwnBytes, Present
  <2> QED BY <1>1, <1>2 DEF StoreInv, OwnBytes, Present
<1>5. ASSUME NEW w \in Workers, Stays(w) PROVE HandInv(w)'
  <2>1. CASE fd'[w] = 0
    BY <2>1 DEF HandInv, OwnHand, OpenIsOwn
  <2>2. CASE fd'[w] # 0
    <3>1. OwnHand(w)'
      BY <1>1, <1>5, <2>2, StaysThere DEF StoreInv, OwnHand
    <3>2. OpenIsOwn(w)'
      <4>1. /\ fd'[w] = fd[w] /\ PromotePath(w)' = PromotePath(w)
            /\ pc'[w] = "promote" => pc[w] = "promote"
        BY <1>5, <2>2, StaysThere
      <4> SUFFICES ASSUME NEW f \in Rows, Belongs(PromotePath(w), f),
                          inode[Part(PromotePath(w))] # 0
                   PROVE  /\ fd[w] = inode[Part(PromotePath(w))]
                          /\ pc'[w] = "promote" => state'[inode[Part(PromotePath(w))]] = "whole"
        BY <1>1, <4>1 DEF OpenIsOwn, Present
      <4>2. PromotePath(w) \in Tops
        BY BelongsToOne
      <4> QED BY <1>1, <1>2, <2>2, <4>1, <4>2 DEF StoreInv, OpenIsOwn, Present
    <3> QED BY <3>1, <3>2 DEF HandInv
  <2> QED BY <2>1, <2>2
<1> QED BY <1>3, <1>4, <1>5 DEF DiskInv
-----------------------------------------------------------------------------
(* What the actions come to *)

\* However a look at the disk ends, the path it names is one of the file's.
LEMMA LookShape ==
    ASSUME ItemsAssumption, NEW w \in Workers, LookRow(w) \/ LookSighting(w)
    PROVE  /\ pc[w] = "look" /\ item[w] \in Items
           /\ \/ \E n \in NamesOf(FileOf[item[w]]) :
                    Serve(w, Final(n)) \/ (Present(Final(n)) /\ SkipItem(w, Final(n)))
              \/ Fail(w)
              \/ Leaves(w) /\ UNCHANGED <<diskVars, doomed, userVars>>
<1>1. pc[w] = "look" /\ item[w] \in Items
  BY DEF LookRow, LookSighting, Items
<1>2. LET n == NameOf[item[w]]
      IN  /\ n \in NamesOf(FileOf[item[w]])
          /\ IndexOf[n] # NoName => IndexOf[n] \in NamesOf(FileOf[item[w]])
  BY <1>1 DEF NamesOf, ItemsAssumption
<1>3. CASE LookRow(w)
  <2>1. CASE AlreadyThere(w, Final(NameOf[item[w]]))
    BY <1>1, <1>2, <1>3, <2>1 DEF LookRow, AlreadyThere, SameFile
  <2>2. CASE FinalPathFor(w, NameOf[item[w]])
    BY <1>1, <1>2, <2>2 DEF FinalPathFor
  <2> QED BY <1>3, <2>1, <2>2 DEF LookRow
<1>4. CASE LookSighting(w)
  BY <1>1, <1>2, <1>4 DEF LookSighting
<1> QED BY <1>3, <1>4

\* A step of one worker leaves the others where they are.
LEMMA OthersStay ==
    ASSUME ItemsAssumption, TypeInv, NEW w \in Workers,
           \/ \E i \in Items, c \in Configs : Take(w, i, c)
           \/ LookRow(w) \/ LookSighting(w) \/ Ladder(w) \/ Stop(w) \/ Interrupt(w),
           NEW v \in Workers, v # w
    PROVE  /\ pc'[v] = pc[v] /\ item'[v] = item[v] /\ cfg'[v] = cfg[v]
           /\ dest'[v] = dest[v] /\ fd'[v] = fd[v] /\ Stays(v)
<1>1. CASE \E i \in Items, c \in Configs : Take(w, i, c)
  BY <1>1 DEF Take, Goto, TypeInv, Stays
<1>2. CASE LookRow(w) \/ LookSighting(w)
  BY <1>2, LookShape DEF Serve, SkipItem, Fail, Settles, Leaves, Idle, Goto, TypeInv, Stays
<1>3. CASE OpenPart(w)
  BY <1>3 DEF OpenPart, Goto, TypeInv, Stays
<1>4. CASE Fetch(w) \/ Promote(w)
  BY <1>4 DEF Fetch, Promote, Goto, TypeInv, Stays
<1>5. CASE LadderFails(w) \/ Mark(w) \/ Stop(w) \/ Interrupt(w)
  BY <1>5 DEF LadderFails, Mark, Stop, Interrupt, Fail, Settles, Leaves, Idle, TypeInv, Stays
<1>6. CASE LinkOrCopy(w)
  <2>1. LinkFails(w) \/ (Goto(w, "mark") /\ UNCHANGED <<item, cfg, dest, fd>>)
    BY <1>6 DEF LinkOrCopy
  <2> QED BY <2>1 DEF LinkFails, Settles, Leaves, Idle, Goto, TypeInv, Stays
<1> QED BY <1>1, <1>2, <1>3, <1>4, <1>5, <1>6 DEF Ladder

\* What linkOrCopy does to the tree, and where it leaves its worker.
LEMMA LinkShape ==
    ASSUME TypeInv, ModesAssumption, NEW w \in Workers, LinkOrCopy(w)
    PROVE  LET b == Blob(FileOf[item[w]]) IN
           /\ pc[w] = "link" /\ meddled' = meddled
           /\ \/ UNCHANGED diskVars
              \/ /\ Present(b) /\ ~Present(dest[w])
                 /\ inode' = [inode EXCEPT ![dest[w]] = inode[b]] /\ UNCHANGED <<owner, state>>
              \/ /\ Present(b) /\ ~Present(dest[w])
                 /\ \E whole \in CopyAnswers : Copied(b, dest[w], whole)
           /\ \/ pc'[w] = "mark" /\ UNCHANGED <<rowVars, item, cfg, dest, fd>>
                 /\ (Present(dest[w]) \/ inode'[dest[w]] # 0 \/ dest[w] \notin Entries)
              \/ pc'[w] = "fetch" /\ UNCHANGED <<rowVars, item, cfg, dest, fd>> /\ fd[w] # 0
              \/ item[w] \in Rows /\ Settles(w, "failed", NoEntry)
              \/ Leaves(w)
<1>1. pc' = [pc EXCEPT ![w] = "mark"] => pc'[w] = "mark"
  BY DEF TypeInv
<1>2. LinkFails(w) => \/ pc'[w] = "fetch" /\ UNCHANGED <<rowVars, item, cfg, dest, fd>> /\ fd[w] # 0
                      \/ item[w] \in Rows /\ Settles(w, "failed", NoEntry)
                      \/ Leaves(w)
  BY DEF LinkFails, Goto, TypeInv
<1>3. dest[w] \in Entries => \A n : [inode EXCEPT ![dest[w]] = n][dest[w]] = n
  BY DEF TypeInv
<1>4. 0 \notin Inodes
  BY DEF ModesAssumption
<1> DEFINE b == Blob(FileOf[item[w]])
<1>5. pc[w] = "link" /\ meddled' = meddled
  BY DEF LinkOrCopy, userVars
<1>6. CASE Present(dest[w]) /\ Present(b)
  BY <1>1, <1>5, <1>6 DEF LinkOrCopy, Goto
<1>7. CASE ~Present(b)
  BY <1>2, <1>5, <1>7 DEF LinkOrCopy
<1>8. CASE ~Present(dest[w]) /\ Present(b)
  <2>1. CASE /\ inode' = [inode EXCEPT ![dest[w]] = inode[b]] /\ Goto(w, "mark")
             /\ UNCHANGED <<owner, state, rowVars, item, cfg, dest, fd>>
    <3>1. inode[b] # 0 /\ pc'[w] = "mark"
      BY <1>1, <1>8, <2>1 DEF Goto, Present
    <3> QED BY <1>3, <1>5, <1>8, <2>1, <3>1
  <2>2. ASSUME NEW whole \in CopyAnswers, Copied(b, dest[w], whole),
               IF whole THEN Goto(w, "mark") /\ UNCHANGED <<rowVars, item, cfg, dest, fd>>
               ELSE LinkFails(w)
        PROVE  \/ pc'[w] = "mark" /\ UNCHANGED <<rowVars, item, cfg, dest, fd>>
                  /\ (inode'[dest[w]] # 0 \/ dest[w] \notin Entries)
               \/ pc'[w] = "fetch" /\ UNCHANGED <<rowVars, item, cfg, dest, fd>> /\ fd[w] # 0
               \/ item[w] \in Rows /\ Settles(w, "failed", NoEntry)
               \/ Leaves(w)
    <3>1. inode'[dest[w]] # 0 \/ dest[w] \notin Entries
      BY <1>3, <1>4, <2>2 DEF Copied
    <3> QED BY <1>1, <1>2, <2>2, <3>1 DEF Goto
  <2> QED BY <1>5, <1>8, <2>1, <2>2 DEF LinkOrCopy
<1> QED BY <1>6, <1>7, <1>8

\* The tree, and what the workers have open in it.
LEMMA TreeStep ==
    ASSUME ItemsAssumption, ModesAssumption, OneHandPerFile, StoreInv, [Next]_vars
    PROVE  DiskInv' /\ \A w \in Workers : HandInv(w)'
<1>1. ASSUME NEW w \in Workers, NEW i \in Items, NEW c \in Configs, Take(w, i, c)
      PROVE  DiskInv' /\ \A v \in Workers : HandInv(v)'
  <2>1. Stays(w) /\ UNCHANGED <<diskVars, meddled>>
    BY <1>1 DEF Take, StoreInv, Step, Stays, userVars
  <2> QED BY <1>1, <2>1, OthersStay, Undisturbed DEF StoreInv
<1>2. ASSUME NEW w \in Workers, LookRow(w) \/ LookSighting(w)
      PROVE  DiskInv' /\ \A v \in Workers : HandInv(v)'
  <2>1. Stays(w) /\ UNCHANGED <<diskVars, meddled>>
    <3>1. pc[w] = "look" /\ fd[w] = 0
      BY <1>2, LookShape DEF StoreInv, Step
    <3> QED BY <1>2, <3>1, LookShape
            DEF Serve, SkipItem, Fail, Settles, Leaves, Idle, StoreInv, TypeInv, Stays, userVars
  <2> QED BY <1>2, <2>1, OthersStay, Undisturbed DEF StoreInv
<1>3. ASSUME NEW w \in Workers, OpenPart(w)
      PROVE  DiskInv' /\ \A v \in Workers : HandInv(v)'
  <2> DEFINE p == PromotePath(w)
  <2>1. /\ pc[w] = "open" /\ fd[w] = 0 /\ Step(w) /\ pc'[w] = "fetch"
        /\ UNCHANGED <<item, cfg, dest, meddled>> /\ PromotePath(w)' = p
    BY <1>3 DEF OpenPart, Goto, StoreInv, TypeInv, Step, PromotePath, Hardlink, userVars
  <2>2. \A f \in Rows : Belongs(p, f) => f = FileOf[item[w]]
    BY <2>1, OwnTarget
  <2>3. p \in Tops
    BY <2>1, FileOfRow, EntryShape DEF PromotePath, Step
  <2>4. \A v \in Workers : v # w => Stays(v)
    BY <1>3, OthersStay DEF StoreInv, Ladder
  <2>5. CASE Present(Part(p))
    <3>1. fd'[w] = inode[Part(p)] /\ UNCHANGED diskVars
      BY <1>3, <2>5 DEF OpenPart, StoreInv, TypeInv
    <3>2. OwnHand(w)'
      <4> SUFFICES ASSUME NEW e \in Tops, NEW f \in Rows, Belongs(e, f),
                          inode[Part(p)] \in {inode[e], inode[Part(e)]}
                   PROVE  FileOf[item[w]] = f
        BY <2>1, <3>1 DEF OwnHand, diskVars
      <4>1. e \in Entries /\ Part(e) \in Entries /\ e # Part(p)
        BY <2>3, EntryShape
      <4>2. e = p
        BY <4>1, <2>3, <2>5, EntryShape DEF StoreInv, PartsAlone
      <4> QED BY <4>2, <2>2
    <3>3. OpenIsOwn(w)'
      BY <2>1, <3>1 DEF OpenIsOwn, diskVars
    <3> QED BY <2>1, <2>4, <3>1, <3>2, <3>3, Undisturbed DEF HandInv
  <2>6. CASE ~Present(Part(p))
    <3>1. PICK n \in Inodes :
             /\ Free(n) /\ inode' = [inode EXCEPT ![Part(p)] = n]
             /\ \A k \in Inodes : k # n => owner'[k] = owner[k] /\ state'[k] = state[k]
             /\ owner'[n] = FileOf[item[w]] /\ state'[n] = "partial"
             /\ fd' = [fd EXCEPT ![w] = n]
      BY <1>3, <2>6 DEF OpenPart, NextFree, StoreInv, TypeInv
    <3>2. Part(p) \in Entries /\ fd'[w] = n /\ n # 0
          /\ (\A e \in Entries : inode[e] # n)
          /\ (\A e \in Entries : inode'[e] = IF e = Part(p) THEN n ELSE inode[e])
      BY <2>3, <3>1, EntryShape, InodeNumbers DEF StoreInv, TypeInv, Free
    <3>3. \A f \in Rows : ~Belongs(Part(p), f)
      BY <2>3, BelongsToOne, EntryShape
    <3>4. \A e \in Tops, f \in Rows : Part(p) = Part(e) /\ Belongs(e, f) => f = FileOf[item[w]]
      BY <2>2, <2>3, EntryShape
    <3>5. \A v \in Workers, f \in Rows :
             v # w /\ Belongs(PromotePath(v), f) => fd[v] = 0 \/ Part(p) # Part(PromotePath(v))
      <4> SUFFICES ASSUME NEW v \in Workers, NEW f \in Rows, v # w,
                          Belongs(PromotePath(v), f), fd[v] # 0
                   PROVE  Part(p) # Part(PromotePath(v))
        OBVIOUS
      <4>1. Step(v)
        BY DEF StoreInv
      <4>2. PromotePath(w) # PromotePath(v)
        BY <2>1, <4>1, OneAtTarget
      <4>3. PromotePath(v) \in Tops
        BY BelongsToOne
      <4> QED BY <2>3, <4>2, <4>3, EntryShape
    <3>6. DiskInv' /\ \A v \in Workers : v # w => HandInv(v)'
      BY <2>1, <2>4, <2>6, <3>1, <3>2, <3>3, <3>4, <3>5, NewFile
    <3>7. OwnHand(w)'
      <4> SUFFICES ASSUME NEW e \in Tops, NEW f \in Rows, Belongs(e, f),
                          n \in {inode'[e], inode'[Part(e)]}
                   PROVE  FileOf[item[w]] = f
        BY <2>1, <3>2 DEF OwnHand
      <4>1. e \in Entries /\ Part(e) \in Entries /\ e # Part(p)
        BY <2>3, EntryShape
      <4>2. e = p
        BY <4>1, <2>3, <3>2, EntryShape
      <4> QED BY <4>2, <2>2
    <3>8. OpenIsOwn(w)'
      BY <2>1, <3>2 DEF OpenIsOwn
    <3> QED BY <3>6, <3>7, <3>8 DEF HandInv
  <2> QED BY <2>5, <2>6
<1>4. ASSUME NEW w \in Workers, Fetch(w)
      PROVE  DiskInv' /\ \A v \in Workers : HandInv(v)'
  BY <1>4, OthersStay, BytesFetched DEF StoreInv, Ladder
<1>5. ASSUME NEW w \in Workers, Promote(w)
      PROVE  DiskInv' /\ \A v \in Workers : HandInv(v)'
  <2> DEFINE p == PromotePath(w)
  <2>1. /\ pc[w] = "promote" /\ pc'[w] # "promote" /\ fd[w] # 0 /\ Step(w)
        /\ UNCHANGED <<owner, state, item, cfg, dest, fd, meddled>>
    BY <1>5 DEF Promote, Goto, StoreInv, TypeInv, Step, userVars
  <2>2. \A v \in Workers : Stays(v)
    BY <1>5, <2>1, OthersStay DEF StoreInv, Ladder, Stays
  <2>3. CASE ~Present(Part(p))
    BY <1>5, <2>1, <2>2, <2>3, Undisturbed DEF Promote, diskVars
  <2>4. CASE Present(Part(p))
    <3>1. p \in Tops
      BY <2>1, FileOfRow, EntryShape DEF PromotePath, Step
    <3>2. inode' = [inode EXCEPT ![p] = inode[Part(p)], ![Part(p)] = 0]
      BY <1>5, <2>4 DEF Promote
    <3>3. \A f \in Rows : Belongs(p, f) => state[inode[Part(p)]] = "whole"
      BY <2>1, <2>4 DEF StoreInv, OpenIsOwn
    <3> QED BY <2>1, <2>2, <2>4, <3>1, <3>2, <3>3, PartPromoted
  <2> QED BY <2>3, <2>4
<1>6. ASSUME NEW w \in Workers, LadderFails(w) \/ Mark(w) \/ Stop(w) \/ Interrupt(w)
      PROVE  DiskInv' /\ \A v \in Workers : HandInv(v)'
  <2>1. Stays(w) /\ UNCHANGED <<diskVars, meddled>>
    BY <1>6 DEF LadderFails, Mark, Stop, Interrupt, Fail, Settles, Leaves, Idle, StoreInv, TypeInv,
                Stays, userVars
  <2> QED BY <1>6, <2>1, OthersStay, Undisturbed DEF StoreInv, Ladder
<1>7. ASSUME NEW w \in Workers, LinkOrCopy(w)
      PROVE  DiskInv' /\ \A v \in Workers : HandInv(v)'
  <2> DEFINE f0 == FileOf[item[w]]
  <2>1. /\ pc[w] = "link" /\ meddled' = meddled /\ Stays(w) /\ Step(w)
    BY <1>7, LinkShape DEF Settles, Leaves, Idle, StoreInv, TypeInv, Stays
  <2>2. \A v \in Workers : Stays(v)
    BY <1>7, <2>1, OthersStay DEF StoreInv, Ladder
  <2>3. /\ f0 \in Rows /\ dest[w] \in Finals
        /\ \A f \in Rows : Belongs(dest[w], f) => f = f0 /\ Orderly
    <3>1. f0 \in Rows /\ dest[w] \in Finals
      BY <2>1, FileOfRow DEF Step
    <3>2. \A f \in Rows : Belongs(dest[w], f) => Orderly
      BY <3>1, EntryShape DEF Belongs
    <3> QED BY <2>1, <3>1, <3>2, BelongsToOne DEF Step
  <2>4. CASE UNCHANGED diskVars
    BY <2>1, <2>2, <2>4, Undisturbed
  <2>5. CASE /\ Present(Blob(f0)) /\ UNCHANGED <<owner, state>>
             /\ inode' = [inode EXCEPT ![dest[w]] = inode[Blob(f0)]]
    <3>1. \A f \in Rows : Belongs(dest[w], f) => f = f0
      BY <2>3
    <3> HIDE DEF f0
    <3> QED BY <2>1, <2>2, <2>3, <2>5, <3>1, BlobLinked
  <2>6. ASSUME NEW whole \in CopyAnswers, Present(Blob(f0)), ~Present(dest[w]),
               Copied(Blob(f0), dest[w], whole)
        PROVE  DiskInv' /\ \A v \in Workers : HandInv(v)'
    <3>1. \A f \in Rows : Belongs(dest[w], f) => f = f0
      BY <2>3
    <3> HIDE DEF f0
    <3> QED BY <2>1, <2>2, <2>3, <2>6, <3>1, BlobCopied
  <2> QED BY <1>7, <2>4, <2>5, <2>6, LinkShape DEF StoreInv
<1>8. ASSUME NEW r \in Rows, Requeue(r) \/ RequeueMedia(r)
      PROVE  DiskInv' /\ \A v \in Workers : HandInv(v)'
  BY <1>8, Undisturbed DEF Requeue, RequeueMedia, workVars, userVars, Stays
<1>9. ASSUME NEW r \in Rows, RelinkBlob(r)
      PROVE  DiskInv' /\ \A v \in Workers : HandInv(v)'
  <2>1. /\ Present(Blob(r)) /\ ~Present(path[r]) /\ meddled' = meddled
        /\ \A v \in Workers : Stays(v)
        /\ \/ /\ inode' = [inode EXCEPT ![path[r]] = inode[Blob(r)]]
              /\ UNCHANGED <<owner, state>>
           \/ \E whole \in CopyAnswers : Copied(Blob(r), path[r], whole)
    BY <1>9 DEF RelinkBlob, OnlyBlobAlive, workVars, userVars, Stays
  <2>2. path[r] \in Finals /\ path[r] # NoEntry
    BY <1>9 DEF RelinkBlob, OnlyBlobAlive, Verified, StoreInv, TypeInv
  <2>3. \A f \in Rows : Belongs(path[r], f) => f = r
    <3>1. \A f \in Rows : Belongs(path[r], f) => Orderly
      BY <2>2, EntryShape DEF Belongs
    <3> QED BY <2>2, <3>1, BelongsToOne DEF StoreInv, OwnPaths
  <2> QED BY <2>1, <2>2, <2>3, BlobLinked, BlobCopied
<1>10. ASSUME NEW n \in Names, DeleteFinal(n)
       PROVE  DiskInv' /\ \A v \in Workers : HandInv(v)'
  <2>1. Final(n) \in Entries
    BY EntryShape
  <2>2. \A v \in Workers : Stays(v)
    BY <1>10 DEF DeleteFinal, workVars, Stays
  <2> QED BY <1>10, <2>1, <2>2, EntryGone DEF DeleteFinal, Touches
<1>11. ASSUME NEW n \in Names, DamageFinal(n)
       PROVE  DiskInv' /\ \A v \in Workers : HandInv(v)'
  BY <1>11, BytesDamaged DEF DamageFinal, workVars, Stays
<1>12. ASSUME NEW e \in BlobDir, GcStat(e)
       PROVE  DiskInv' /\ \A v \in Workers : HandInv(v)'
  BY <1>12, Undisturbed DEF GcStat, workVars, userVars, Stays
<1>13. CASE GcRemove
  <2>1. doomed \in Entries
    BY <1>13, EntryShape DEF GcRemove, StoreInv, TypeInv
  <2> QED BY <1>13, <2>1, EntryGone DEF GcRemove, workVars, userVars, Stays
<1>14. ASSUME NEW s \in Own, Remember(s)
       PROVE  DiskInv' /\ \A v \in Workers : HandInv(v)'
  BY <1>14, Undisturbed DEF Remember, workVars, userVars, Stays
<1>15. CASE UNCHANGED vars
  BY <1>15, Undisturbed DEF vars, workVars, userVars, Stays
<1> QED BY <1>1, <1>2, <1>3, <1>4, <1>5, <1>6, <1>7, <1>8, <1>9, <1>10, <1>11, <1>12, <1>13,
           <1>14, <1>15 DEF Next, Work, Ladder, Verify, Meddle

LEMMA SettlesTypes ==
    ASSUME ItemsAssumption, TypeInv, NEW w \in Workers, NEW st,
           NEW e \in Finals \cup {NoEntry}, Settles(w, st, e)
    PROVE  /\ DOMAIN status' = Rows /\ path' \in [Rows -> Finals \cup {NoEntry}]
           /\ pc' \in [Workers -> {"idle", "look", "open", "fetch", "promote", "link", "mark"}]
           /\ item' \in [Workers -> Items \cup {NoItem}]
           /\ cfg' \in [Workers -> Configs \cup {NoConfig}]
           /\ dest' \in [Workers -> Finals \cup {NoEntry}]
           /\ fd' \in [Workers -> Inodes \cup {0}]
           /\ pc'[w] = "idle" /\ fd'[w] = 0
  BY DEF TypeInv, Settles, Idle

LEMMA TypeStep ==
    ASSUME ItemsAssumption, ModesAssumption, StoreInv, [Next]_vars
    PROVE  TypeInv'
<1> USE DEF StoreInv
<1>1. ASSUME NEW w \in Workers, NEW i \in Items, NEW c \in Configs, Take(w, i, c)
      PROVE  TypeInv'
  BY <1>1 DEF TypeInv, Take, Goto, diskVars, userVars
<1>2. ASSUME NEW w \in Workers, LookRow(w) \/ LookSighting(w) PROVE TypeInv'
  <2>1. ASSUME NEW e \in Finals, Serve(w, e) PROVE TypeInv'
    BY <2>1 DEF TypeInv, Serve, Goto, diskVars, rowVars, userVars
  <2>2. ASSUME NEW e \in Finals, SkipItem(w, e) PROVE TypeInv'
    BY <2>2, SettlesTypes DEF TypeInv, SkipItem, diskVars
  <2>3. CASE Fail(w)
    BY <2>3, SettlesTypes DEF TypeInv, Fail, diskVars
  <2>4. CASE Leaves(w) /\ UNCHANGED <<diskVars, doomed, userVars>>
    BY <2>4 DEF TypeInv, Leaves, Idle, diskVars, rowVars, userVars
  <2>5. \A n \in NamesOf(FileOf[item[w]]) : Final(n) \in Finals
    BY EntryShape DEF NamesOf
  <2> QED BY <1>2, <2>1, <2>2, <2>3, <2>4, <2>5, LookShape
<1>3. ASSUME NEW w \in Workers, OpenPart(w) PROVE TypeInv'
  <2>1. Part(PromotePath(w)) \in Entries
    <3>1. PromotePath(w) \in Tops
      BY <1>3, FileOfRow, EntryShape DEF OpenPart, PromotePath, Step
    <3> QED BY <3>1, EntryShape
  <2> QED BY <1>3, <2>1 DEF TypeInv, OpenPart, Goto, diskVars, rowVars, userVars
<1>4. ASSUME NEW w \in Workers, Fetch(w) PROVE TypeInv'
  BY <1>4 DEF TypeInv, Fetch, Goto, rowVars, userVars
<1>5. ASSUME NEW w \in Workers, Promote(w) PROVE TypeInv'
  <2> DEFINE p == PromotePath(w)
  <2>1. p \in Entries /\ Part(p) \in Entries
    <3>1. p \in Tops
      BY <1>5, FileOfRow, EntryShape DEF Promote, Step, PromotePath
    <3> QED BY <3>1, EntryShape
  <2>2. inode' \in [Entries -> Inodes \cup {0}]
    BY <1>5, <2>1 DEF Promote, TypeInv
  <2>3. pc' \in [Workers -> {"idle", "look", "open", "fetch", "promote", "link", "mark"}]
    BY <1>5 DEF Promote, Goto, TypeInv
  <2> QED BY <1>5, <2>2, <2>3 DEF TypeInv, Promote, rowVars, userVars
<1>6. ASSUME NEW w \in Workers, LadderFails(w) \/ Interrupt(w) PROVE TypeInv'
  BY <1>6, SettlesTypes DEF TypeInv, LadderFails, Interrupt, Fail, diskVars
<1>7. ASSUME NEW w \in Workers, Mark(w) PROVE TypeInv'
  BY <1>7, SettlesTypes DEF TypeInv, Mark, diskVars
<1>8. ASSUME NEW w \in Workers, Stop(w) PROVE TypeInv'
  BY <1>8 DEF TypeInv, Stop, Leaves, Idle, diskVars, rowVars, userVars
<1>9. ASSUME NEW w \in Workers, LinkOrCopy(w) PROVE TypeInv'
  <2> DEFINE b == Blob(FileOf[item[w]])
  <2>1. dest[w] \in Entries /\ b \in Entries
    BY <1>9, FileOfRow, EntryShape DEF LinkOrCopy, Step
  <2>2. inode' \in [Entries -> Inodes \cup {0}] /\ DOMAIN owner' = Inodes /\ DOMAIN state' = Inodes
    BY <1>9, <2>1, LinkShape DEF TypeInv, diskVars, Copied
  <2>3. /\ DOMAIN status' = Rows /\ path' \in [Rows -> Finals \cup {NoEntry}]
        /\ pc' \in [Workers -> {"idle", "look", "open", "fetch", "promote", "link", "mark"}]
        /\ item' \in [Workers -> Items \cup {NoItem}] /\ cfg' \in [Workers -> Configs \cup {NoConfig}]
        /\ dest' \in [Workers -> Finals \cup {NoEntry}] /\ fd' \in [Workers -> Inodes \cup {0}]
    <3>1. CASE Settles(w, "failed", NoEntry)
      BY <3>1, SettlesTypes
    <3>2. CASE UNCHANGED <<rowVars, item, cfg, dest, fd>>
               /\ pc' \in {[pc EXCEPT ![w] = "mark"], [pc EXCEPT ![w] = "fetch"]}
      BY <3>2 DEF TypeInv, rowVars
    <3>3. CASE Leaves(w)
      BY <3>3 DEF TypeInv, Leaves, Idle, rowVars
    <3> QED BY <1>9, <3>1, <3>2, <3>3 DEF LinkOrCopy, LinkFails, Goto
  <2> QED BY <1>9, <2>2, <2>3 DEF TypeInv, LinkOrCopy
<1>10. ASSUME NEW r \in Rows, Requeue(r) \/ RequeueMedia(r) PROVE TypeInv'
  BY <1>10 DEF TypeInv, Requeue, RequeueMedia, diskVars, workVars
<1>11. ASSUME NEW r \in Rows, RelinkBlob(r) PROVE TypeInv'
  <2>1. path[r] \in Entries /\ inode[Blob(r)] \in Inodes \cup {0}
    BY <1>11, EntryShape DEF TypeInv, RelinkBlob, OnlyBlobAlive, Verified
  <2>2. inode' \in [Entries -> Inodes \cup {0}] /\ DOMAIN owner' = Inodes /\ DOMAIN state' = Inodes
    BY <1>11, <2>1 DEF TypeInv, RelinkBlob, Copied
  <2> QED BY <1>11, <2>2 DEF TypeInv, RelinkBlob, rowVars, workVars
<1>12. ASSUME NEW n \in Names, DeleteFinal(n) \/ DamageFinal(n) PROVE TypeInv'
  BY <1>12 DEF TypeInv, DeleteFinal, DamageFinal, rowVars, workVars
<1>13. ASSUME NEW e \in BlobDir, GcStat(e) PROVE TypeInv'
  BY <1>13 DEF TypeInv, GcStat, diskVars, rowVars, workVars
<1>14. CASE GcRemove
  BY <1>14 DEF TypeInv, GcRemove, rowVars, workVars
<1>15. ASSUME NEW s \in Own, Remember(s) PROVE TypeInv'
  BY <1>15 DEF TypeInv, Remember, diskVars, workVars
<1>16. CASE UNCHANGED vars
  BY <1>16 DEF TypeInv, vars, diskVars, rowVars, workVars
<1> QED BY <1>1, <1>2, <1>3, <1>4, <1>5, <1>6, <1>7, <1>8, <1>9, <1>10, <1>11, <1>12, <1>13,
           <1>14, <1>15, <1>16 DEF Next, Work, Ladder, Verify, Meddle

LEMMA StepStep ==
    ASSUME ItemsAssumption, ModesAssumption, StoreInv, [Next]_vars, NEW v \in Workers
    PROVE  Step(v)'
<1> USE DEF StoreInv
<1>1. ASSUME UNCHANGED <<pc[v], item[v], cfg[v], dest[v], fd[v]>> PROVE Step(v)'
  BY <1>1 DEF Step, Hardlink
<1>2. ASSUME NEW w \in Workers, w # v, Work(w) PROVE Step(v)'
  BY <1>1, <1>2, OthersStay DEF Work
<1>3. ASSUME NEW i \in Items, NEW c \in Configs, Take(v, i, c) PROVE Step(v)'
  BY <1>3 DEF Take, Goto, TypeInv, Step
<1>4. CASE LookRow(v) \/ LookSighting(v)
  <2>1. pc[v] = "look" /\ item[v] \in Items /\ fd[v] = 0
    BY <1>4, LookShape DEF Step
  <2>2. ASSUME NEW n \in NamesOf(FileOf[item[v]]), Serve(v, Final(n)) PROVE Step(v)'
    <3>1. Final(n) \in Finals /\ (Orderly => Belongs(Final(n), FileOf[item[v]]))
      BY EntryShape DEF NamesOf, Belongs
    <3> QED BY <2>1, <2>2, <3>1 DEF Serve, Goto, TypeInv, Step, Hardlink
  <2>3. pc'[v] = "idle" /\ fd'[v] = 0 => Step(v)'
    BY DEF Step
  <2>4. Fail(v) \/ Leaves(v) \/ (\E n \in NamesOf(FileOf[item[v]]) : SkipItem(v, Final(n)))
           => pc'[v] = "idle" /\ fd'[v] = 0
    BY DEF Fail, SkipItem, Settles, Leaves, Idle, TypeInv
  <2> QED BY <1>4, <2>2, <2>3, <2>4, LookShape
<1>5. CASE OpenPart(v)
  <2>1. pc'[v] = "fetch" /\ UNCHANGED <<item, cfg, dest>> /\ pc[v] = "open" /\ fd'[v] # 0
    BY <1>5, InodeNumbers DEF OpenPart, Goto, TypeInv, Present
  <2> QED BY <2>1 DEF Step, Hardlink
<1>6. CASE Fetch(v) \/ Promote(v)
  <2>1. /\ UNCHANGED <<item, cfg, dest, fd>> /\ pc[v] \in {"fetch", "promote"}
        /\ pc'[v] \in {"promote", "mark", "fetch"} \/ (pc'[v] = "link" /\ Hardlink(v))
    BY <1>6 DEF Fetch, Promote, Goto, TypeInv
  <2> QED BY <2>1 DEF Step, Hardlink
<1>7. CASE LadderFails(v) \/ Mark(v) \/ Stop(v) \/ Interrupt(v)
  <2>1. pc'[v] = "idle" /\ fd'[v] = 0
    BY <1>7 DEF LadderFails, Mark, Stop, Interrupt, Fail, Settles, Leaves, Idle, TypeInv
  <2> QED BY <2>1 DEF Step
<1>8. CASE LinkOrCopy(v)
  <2>1. CASE Settles(v, "failed", NoEntry) \/ Leaves(v)
    BY <2>1 DEF Settles, Leaves, Idle, TypeInv, Step
  <2>2. CASE /\ UNCHANGED <<item, cfg, dest, fd>> /\ pc[v] = "link"
             /\ pc'[v] = "mark" \/ (pc'[v] = "fetch" /\ fd[v] # 0)
    BY <2>2 DEF Step, Hardlink
  <2> QED BY <1>8, <2>1, <2>2, LinkShape
<1>9. ASSUME UNCHANGED workVars PROVE Step(v)'
  BY <1>1, <1>9 DEF workVars
<1>10. (\E w \in Workers : Work(w)) \/ UNCHANGED workVars
  BY DEF Next, Verify, Meddle, Remember, Requeue, RequeueMedia, RelinkBlob, DeleteFinal,
         DamageFinal, GcStat, GcRemove, vars
<1>11. CASE Work(v)
  BY <1>3, <1>4, <1>5, <1>6, <1>7, <1>8, <1>11 DEF Work, Ladder
<1> QED BY <1>2, <1>9, <1>10, <1>11

\* An outcome written at a path of the row's own that leads to a file.
LEMMA SettlesPaths ==
    ASSUME ItemsAssumption, TypeInv, OwnPaths, Orderly, NEW w \in Workers, NEW st,
           NEW e \in Finals \cup {NoEntry}, Settles(w, st, e), item[w] \in Items,
           UNCHANGED <<inode, meddled>>,
           st = "done" => /\ Belongs(e, FileOf[item[w]])
                          /\ e # NoEntry /\ (Present(e) \/ FileOf[item[w]] \in meddled),
           \A v \in Workers : v # w => UNCHANGED <<pc[v], item[v], dest[v]>>
    PROVE  OwnPaths'
<1>1. pc'[w] # "mark"
  BY DEF Settles, Idle, TypeInv
<1>2. \A v \in Workers : pc'[v] = "mark" /\ FileOf[item'[v]] \notin meddled' => inode'[dest'[v]] # 0
  BY <1>1 DEF OwnPaths, Present
<1>3. \A r \in Rows : /\ path'[r] # NoEntry => Belongs(path'[r], r)
                      /\ status'[r] = "done" /\ r \notin meddled =>
                            path'[r] # NoEntry /\ inode[path'[r]] # 0
  <2>1. CASE item[w] \in Rows \cup Own
    <3>1. FileOf[item[w]] \in Rows
      BY FileOfRow
    <3>2. \A r \in Rows :
             /\ status'[r] = IF r = FileOf[item[w]] THEN st ELSE status[r]
             /\ path'[r] = IF r = FileOf[item[w]] /\ st = "done" THEN e ELSE path[r]
      BY <2>1 DEF Settles, TypeInv
    <3>3. \A r \in Rows : /\ path[r] # NoEntry => Belongs(path[r], r)
                          /\ status[r] = "done" /\ r \notin meddled =>
                                path[r] # NoEntry /\ inode[path[r]] # 0
      BY DEF OwnPaths, Present
    <3> QED BY <3>1, <3>2, <3>3 DEF Present
  <2>2. CASE item[w] \notin Rows \cup Own
    BY <2>2 DEF Settles, OwnPaths, Present
  <2> QED BY <2>1, <2>2
<1> QED BY <1>2, <1>3 DEF OwnPaths, Present

\* A change of the tree that takes no final path away from a row in good standing.
LEMMA TreePaths ==
    ASSUME TypeInv, OwnPaths, UNCHANGED <<status, path>>, meddled \subseteq meddled',
           \A w \in Workers : pc'[w] = "mark" => /\ item'[w] = item[w] /\ dest'[w] = dest[w]
                                                 /\ pc[w] = "mark" \/ inode'[dest[w]] # 0,
           \A e \in Finals, f \in Rows : Belongs(e, f) /\ Present(e) /\ f \notin meddled' =>
              inode'[e] # 0,
           ItemsAssumption, \A w \in Workers : Step(w)
    PROVE  OwnPaths'
<1> SUFFICES ASSUME Orderly PROVE OwnPaths'
  BY DEF OwnPaths
<1>1. ASSUME NEW w \in Workers, pc'[w] = "mark", FileOf[item'[w]] \notin meddled'
      PROVE  inode'[dest'[w]] # 0
  <2>1. CASE pc[w] = "mark"
    <3>1. dest[w] \in Finals /\ FileOf[item[w]] \in Rows /\ Belongs(dest[w], FileOf[item[w]])
      BY <2>1, FileOfRow DEF Step
    <3>2. Present(dest[w])
      BY <1>1, <2>1 DEF OwnPaths
    <3> QED BY <1>1, <3>1, <3>2
  <2> QED BY <1>1, <2>1
<1>2. ASSUME NEW r \in Rows
      PROVE  /\ path[r] # NoEntry => Belongs(path[r], r)
             /\ status[r] = "done" /\ r \notin meddled' => path[r] # NoEntry /\ inode'[path[r]] # 0
  <2>1. path[r] # NoEntry => Belongs(path[r], r) /\ path[r] \in Finals
    BY DEF OwnPaths, TypeInv
  <2>2. status[r] = "done" /\ r \notin meddled => path[r] # NoEntry /\ Present(path[r])
    BY DEF OwnPaths
  <2> QED BY <2>1, <2>2
<1> QED BY <1>1, <1>2 DEF OwnPaths, Present

LEMMA PathStep ==
    ASSUME ItemsAssumption, ModesAssumption, StoreInv, [Next]_vars
    PROVE  OwnPaths'
<1> USE DEF StoreInv
<1>1. ASSUME NEW w \in Workers, NEW i \in Items, NEW c \in Configs, Take(w, i, c)
      PROVE  OwnPaths'
  BY <1>1 DEF Take, Goto, TypeInv, OwnPaths, diskVars, userVars, Present
<1>2. ASSUME NEW w \in Workers, LookRow(w) \/ LookSighting(w) PROVE OwnPaths'
  <2> SUFFICES ASSUME Orderly PROVE OwnPaths'
    BY DEF OwnPaths
  <2>1. /\ pc[w] = "look" /\ item[w] \in Items /\ NoEntry \in Finals \cup {NoEntry}
        /\ \A v \in Workers : v # w => UNCHANGED <<pc[v], item[v], dest[v]>>
    BY <1>2, LookShape, OthersStay
  <2>2. \A n \in NamesOf(FileOf[item[w]]) :
           /\ Final(n) \in Finals /\ Final(n) # NoEntry /\ Belongs(Final(n), FileOf[item[w]])
    BY EntryShape DEF NamesOf, Belongs, Finals, Entries
  <2>3. ASSUME NEW n \in NamesOf(FileOf[item[w]]), Serve(w, Final(n)) PROVE OwnPaths'
    <3>1. pc'[w] # "mark" /\ UNCHANGED <<inode, rowVars, meddled>>
      BY <2>3 DEF Serve, Goto, TypeInv, diskVars, userVars
    <3> QED BY <2>1, <3>1 DEF OwnPaths, rowVars, Present
  <2>4. ASSUME NEW n \in NamesOf(FileOf[item[w]]), Present(Final(n)), SkipItem(w, Final(n))
        PROVE  OwnPaths'
    BY <2>1, <2>2, <2>4, SettlesPaths DEF SkipItem, diskVars, userVars
  <2>5. CASE Fail(w)
    BY <2>1, <2>5, SettlesPaths DEF Fail, diskVars, userVars
  <2>6. CASE Leaves(w) /\ UNCHANGED <<diskVars, doomed, userVars>>
    <3>1. pc'[w] # "mark" /\ UNCHANGED <<inode, status, path, meddled>>
      BY <2>6 DEF Leaves, Idle, TypeInv, diskVars, rowVars, userVars
    <3> QED BY <2>1, <3>1 DEF OwnPaths, Present
  <2> QED BY <1>2, <2>3, <2>4, <2>5, <2>6, LookShape
<1>3. ASSUME NEW w \in Workers, OpenPart(w) PROVE OwnPaths'
  <2>1. \A v \in Workers : pc'[v] = "mark" => pc[v] = "mark"
    BY <1>3 DEF OpenPart, Goto, TypeInv
  <2>2. UNCHANGED <<status, path, item, dest, meddled>>
    BY <1>3 DEF OpenPart, rowVars, userVars
  <2>3. \A e \in Entries : Present(e) => inode'[e] # 0
    BY <1>3, InodeNumbers DEF OpenPart, TypeInv, diskVars, Present
  <2> QED BY <2>1, <2>2, <2>3, TreePaths, EntryShape DEF Tops
<1>4. ASSUME NEW w \in Workers, Fetch(w) PROVE OwnPaths'
  BY <1>4 DEF Fetch, Goto, TypeInv, OwnPaths, rowVars, userVars, Present
<1>5. ASSUME NEW w \in Workers, Promote(w) PROVE OwnPaths'
  <2> DEFINE p == PromotePath(w)
  <2>1. /\ pc[w] = "promote" /\ UNCHANGED <<status, path, item, cfg, dest, fd, meddled>>
        /\ \A v \in Workers : v # w => pc'[v] = pc[v]
    BY <1>5 DEF Promote, Goto, TypeInv, rowVars, userVars
  <2>2. p \in Tops
    BY <2>1, FileOfRow, EntryShape DEF PromotePath, Step
  <2>3. CASE ~Present(Part(p))
    <3>1. pc'[w] = "fetch" /\ UNCHANGED inode
      BY <1>5, <2>3 DEF Promote, Goto, TypeInv
    <3> QED BY <2>1, <3>1, TreePaths DEF Present
  <2>4. CASE Present(Part(p))
    <3>1. \A e \in Tops : inode'[e] = IF e = p THEN inode[Part(p)] ELSE inode[e]
      BY <1>5, <2>2, <2>4, EntryShape DEF Promote, TypeInv
    <3>2. pc'[w] = "mark" => p = dest[w]
      BY <1>5, <2>4 DEF Promote, Goto, TypeInv, PromotePath
    <3>3. inode'[p] # 0
      BY <2>2, <2>4, <3>1 DEF Present
    <3>4. \A e \in Finals : e \in Tops
      BY EntryShape
    <3>5. \A e \in Finals, f \in Rows : Belongs(e, f) /\ Present(e) /\ f \notin meddled' =>
             inode'[e] # 0
      BY <3>1, <3>3, <3>4 DEF Present
    <3>6. \A v \in Workers : pc'[v] = "mark" => /\ item'[v] = item[v] /\ dest'[v] = dest[v]
                                                /\ pc[v] = "mark" \/ inode'[dest[v]] # 0
      BY <2>1, <3>2, <3>3
    <3> QED BY <2>1, <3>5, <3>6, TreePaths
  <2> QED BY <2>3, <2>4
<1>6. ASSUME NEW w \in Workers, LadderFails(w) \/ Interrupt(w) PROVE OwnPaths'
  <2> SUFFICES ASSUME Orderly PROVE OwnPaths'
    BY DEF OwnPaths
  <2>1. item[w] \in Items /\ NoEntry \in Finals \cup {NoEntry}
        /\ \A v \in Workers : v # w => UNCHANGED <<pc[v], item[v], dest[v]>>
    BY <1>6, OthersStay DEF LadderFails, Interrupt, Step, Ladder
  <2> QED BY <1>6, <2>1, SettlesPaths DEF LadderFails, Interrupt, Fail, diskVars, userVars
<1>7. ASSUME NEW w \in Workers, Mark(w) PROVE OwnPaths'
  <2> SUFFICES ASSUME Orderly PROVE OwnPaths'
    BY DEF OwnPaths
  <2>1. /\ item[w] \in Items /\ dest[w] \in Finals \cup {NoEntry} /\ dest[w] # NoEntry
        /\ Belongs(dest[w], FileOf[item[w]])
        /\ Present(dest[w]) \/ FileOf[item[w]] \in meddled
        /\ \A v \in Workers : v # w => UNCHANGED <<pc[v], item[v], dest[v]>>
    BY <1>7, OthersStay, EntryShape DEF Mark, Step, Ladder, OwnPaths, Entries
  <2> QED BY <1>7, <2>1, SettlesPaths DEF Mark, diskVars, userVars
<1>8. ASSUME NEW w \in Workers, Stop(w) PROVE OwnPaths'
  BY <1>8 DEF Stop, Leaves, Idle, TypeInv, OwnPaths, diskVars, rowVars, userVars, Present
<1>9. ASSUME NEW w \in Workers, LinkOrCopy(w) PROVE OwnPaths'
  <2>1. /\ item[w] \in Items /\ NoEntry \in Finals \cup {NoEntry} /\ dest[w] \in Entries
        /\ \A v \in Workers : v # w => UNCHANGED <<pc[v], item[v], dest[v]>>
        /\ UNCHANGED meddled
    BY <1>9, OthersStay, EntryShape DEF LinkOrCopy, Step, Ladder, Entries, userVars
  <2>2. \A e \in Entries : Present(e) => inode'[e] # 0
    <3>1. inode[Blob(FileOf[item[w]])] # 0 => inode[Blob(FileOf[item[w]])] \in Inodes
      BY <2>1, FileOfRow, EntryShape DEF TypeInv
    <3>2. UNCHANGED inode \/ \E n \in Inodes : inode' = [inode EXCEPT ![dest[w]] = n]
      BY <1>9, <3>1, LinkShape DEF diskVars, Copied, Present
    <3> QED BY <3>2, InodeNumbers DEF TypeInv, Present
  <2>3. CASE (item[w] \in Rows /\ Settles(w, "failed", NoEntry)) \/ Leaves(w)
    <3> SUFFICES ASSUME Orderly PROVE OwnPaths'
      BY DEF OwnPaths
    <3>1. pc'[w] # "mark" /\ (item[w] \in Rows => FileOf[item[w]] = item[w])
      BY <2>1, <2>3, FileOfRow DEF Settles, Leaves, Idle, TypeInv
    <3>2. \A r \in Rows : path'[r] = path[r] /\ (status'[r] = "done" => status[r] = "done")
      BY <2>3, <3>1 DEF Settles, Leaves, TypeInv, rowVars
    <3>3. ASSUME NEW r \in Rows
          PROVE  /\ path[r] # NoEntry => Belongs(path[r], r) /\ path[r] \in Entries
                 /\ status[r] = "done" /\ r \notin meddled => path[r] # NoEntry /\ Present(path[r])
      BY DEF OwnPaths, TypeInv, Entries
    <3>4. ASSUME NEW v \in Workers, pc'[v] = "mark", FileOf[item'[v]] \notin meddled'
          PROVE  inode'[dest'[v]] # 0
      <4>1. v # w /\ pc[v] = "mark" /\ item'[v] = item[v] /\ dest'[v] = dest[v]
        BY <2>1, <3>1, <3>4
      <4>2. dest[v] \in Entries /\ Present(dest[v])
        BY <2>1, <3>4, <4>1 DEF Step, OwnPaths, Entries
      <4> QED BY <2>2, <4>1, <4>2
    <3> QED BY <2>1, <2>2, <3>2, <3>3, <3>4 DEF OwnPaths, Present
  <2>4. CASE UNCHANGED <<rowVars, item, cfg, dest, fd>> /\ pc'[w] = "fetch"
    BY <2>1, <2>2, <2>4, TreePaths DEF rowVars, Entries
  <2>5. CASE /\ UNCHANGED <<rowVars, item, cfg, dest, fd>> /\ pc'[w] = "mark"
             /\ Present(dest[w]) \/ inode'[dest[w]] # 0 \/ dest[w] \notin Entries
    BY <2>1, <2>2, <2>5, TreePaths DEF rowVars, Entries
  <2> QED BY <1>9, <2>3, <2>4, <2>5, LinkShape
<1>10. ASSUME NEW r \in Rows, Requeue(r) \/ RequeueMedia(r) PROVE OwnPaths'
  BY <1>10 DEF Requeue, RequeueMedia, OwnPaths, TypeInv, diskVars, workVars, userVars, Present
<1>11. ASSUME NEW r \in Rows, RelinkBlob(r) PROVE OwnPaths'
  <2>1. \A e \in Entries : Present(e) => inode'[e] # 0
    <3>1. \/ inode' = [inode EXCEPT ![path[r]] = inode[Blob(r)]] /\ inode[Blob(r)] # 0
          \/ \E n \in Inodes : inode' = [inode EXCEPT ![path[r]] = n]
      BY <1>11 DEF RelinkBlob, OnlyBlobAlive, Copied, Present
    <3> QED BY <3>1, InodeNumbers DEF TypeInv, Present
  <2> QED BY <1>11, <2>1, TreePaths DEF RelinkBlob, rowVars, workVars, userVars, Entries
<1>12. ASSUME NEW n \in Names, DeleteFinal(n) PROVE OwnPaths'
  <2>1. \A e \in Finals : e # Final(n) => inode'[e] = inode[e]
    BY <1>12, EntryShape DEF DeleteFinal, TypeInv, Entries
  <2>2. \A f \in Rows : Belongs(Final(n), f) => f \in meddled'
    BY <1>12, EntryShape DEF DeleteFinal, Touches, OwnBytes
  <2> QED BY <1>12, <2>1, <2>2, TreePaths DEF DeleteFinal, Touches, rowVars, workVars, Present
<1>13. ASSUME NEW n \in Names, DamageFinal(n) PROVE OwnPaths'
  BY <1>13, TreePaths DEF DamageFinal, Touches, rowVars, workVars, Present
<1>14. ASSUME NEW e \in BlobDir, GcStat(e) PROVE OwnPaths'
  BY <1>14, TreePaths DEF GcStat, diskVars, rowVars, workVars, userVars, Present
<1>15. CASE GcRemove
  <2>1. \A e \in Finals : inode'[e] = inode[e]
    BY <1>15, EntryShape DEF GcRemove, TypeInv, Entries
  <2> QED BY <1>15, <2>1, TreePaths DEF GcRemove, rowVars, workVars, userVars, Present
<1>16. ASSUME NEW s \in Own, Remember(s) PROVE OwnPaths'
  BY <1>16, TreePaths DEF Remember, diskVars, workVars, userVars, Present
<1>17. CASE UNCHANGED vars
  BY <1>17, TreePaths DEF vars, diskVars, rowVars, workVars, userVars, Present
<1> QED BY <1>1, <1>2, <1>3, <1>4, <1>5, <1>6, <1>7, <1>8, <1>9, <1>10, <1>11, <1>12, <1>13,
           <1>14, <1>15, <1>16, <1>17 DEF Next, Work, Ladder, Verify, Meddle

\* Who claims a row is alone with it until its outcome is written; a message met
\* again writes its row's when nobody has it.
LEMMA RowsStep ==
    ASSUME ItemsAssumption, ModesAssumption, OneHandPerFile, StoreInv, [Next]_vars
    PROVE  RowsInHand'
<1> USE DEF StoreInv
<1>1. ASSUME NEW w \in Workers, NEW i \in Items, NEW c \in Configs, Take(w, i, c)
      PROVE  RowsInHand'
  <2>1. /\ item'[w] = i /\ Busy(w)' /\ ~Busy(w)
        /\ \A v \in Workers : v # w => item'[v] = item[v] /\ (Busy(v)' <=> Busy(v))
    BY <1>1 DEF Take, Goto, TypeInv, Busy
  <2>2. CASE i \in Rows
    <3>1. /\ status[i] = "queued" /\ status'[i] = "downloading"
          /\ \A r \in Rows : r # i => status'[r] = status[r]
      BY <1>1, <2>2 DEF Take, TypeInv
    <3>2. \A v \in Workers : Busy(v) => item[v] # i
      BY <2>2, <3>1 DEF RowsInHand
    <3> QED BY <2>1, <3>1, <3>2 DEF RowsInHand
  <2>3. CASE i \notin Rows
    BY <1>1, <2>1, <2>3 DEF Take, RowsInHand
  <2> QED BY <2>2, <2>3
<1>2. ASSUME NEW w \in Workers, UNCHANGED rowVars,
             \A v \in Workers : Busy(v)' => Busy(v) /\ item'[v] = item[v]
      PROVE  RowsInHand'
  BY <1>2 DEF RowsInHand, rowVars
<1>3. ASSUME NEW w \in Workers, NEW st, NEW e, Settles(w, st, e), Busy(w) PROVE RowsInHand'
  <2>1. ~Busy(w)' /\ \A v \in Workers : v # w => item'[v] = item[v] /\ (Busy(v)' <=> Busy(v))
    BY <1>3 DEF Settles, Idle, TypeInv, Busy
  <2>2. \A r \in Rows : r # FileOf[item[w]] => status'[r] = status[r]
    BY <1>3 DEF Settles, TypeInv
  <2>3. \A v \in Workers : v # w /\ Busy(v) /\ item[v] \in Rows => item[v] # FileOf[item[w]]
    BY <1>3, FileOfRow DEF OneHandPerFile, Items
  <2> QED BY <1>3, <2>1, <2>2, <2>3 DEF RowsInHand
<1>4. ASSUME NEW w \in Workers, LookRow(w) \/ LookSighting(w) PROVE RowsInHand'
  <2>1. Busy(w)
    BY <1>4, LookShape DEF Busy
  <2>2. ASSUME NEW e, Serve(w, e) PROVE RowsInHand'
    BY <1>2, <2>1, <2>2 DEF Serve, Goto, TypeInv, Busy
  <2>3. Leaves(w) => RowsInHand'
    BY <1>2 DEF Leaves, Idle, TypeInv, Busy
  <2>4. Fail(w) => RowsInHand'
    BY <1>3, <2>1 DEF Fail
  <2>5. ASSUME NEW e, SkipItem(w, e) PROVE RowsInHand'
    BY <1>3, <2>1, <2>5 DEF SkipItem
  <2> QED BY <1>4, <2>2, <2>3, <2>4, <2>5, LookShape
<1>5. ASSUME NEW w \in Workers, OpenPart(w) \/ Fetch(w) \/ Promote(w) PROVE RowsInHand'
  <2>1. Busy(w) /\ UNCHANGED <<rowVars, item>> /\ \A v \in Workers : v # w => pc'[v] = pc[v]
    BY <1>5 DEF OpenPart, Fetch, Promote, Goto, TypeInv, Busy, rowVars
  <2> QED BY <1>2, <2>1 DEF Busy
<1>6. ASSUME NEW w \in Workers, LadderFails(w) \/ Mark(w) \/ Interrupt(w) PROVE RowsInHand'
  BY <1>3, <1>6 DEF LadderFails, Mark, Interrupt, Fail, Busy
<1>7. ASSUME NEW w \in Workers, LinkOrCopy(w) PROVE RowsInHand'
  <2>1. Busy(w) /\ \A v \in Workers : v # w => UNCHANGED <<pc[v], item[v]>>
    BY <1>7, OthersStay DEF LinkOrCopy, Ladder, Busy
  <2>2. CASE UNCHANGED <<rowVars, item, cfg, dest, fd>>
    BY <1>2, <2>1, <2>2 DEF Busy
  <2>3. Settles(w, "failed", NoEntry) => RowsInHand'
    BY <1>3, <2>1
  <2>4. Leaves(w) => RowsInHand'
    BY <1>2 DEF Leaves, Idle, TypeInv, Busy
  <2> QED BY <1>7, <2>2, <2>3, <2>4, LinkShape
<1>8. ASSUME NEW w \in Workers, Stop(w) PROVE RowsInHand'
  BY <1>2, <1>8 DEF Stop, Leaves, Idle, TypeInv, Busy
<1>9. ASSUME NEW r \in Rows, Requeue(r) \/ RequeueMedia(r) PROVE RowsInHand'
  <2>1. /\ UNCHANGED workVars /\ \A q \in Rows : q # r => status'[q] = status[q]
    BY <1>9 DEF Requeue, RequeueMedia, TypeInv
  <2>2. \A w \in Workers : Busy(w) => item[w] # r
    BY <1>9 DEF Requeue, RequeueMedia, Broken, Verified, RowsInHand
  <2> QED BY <2>1, <2>2 DEF RowsInHand, workVars, Busy
<1>10. ASSUME UNCHANGED <<status, path, workVars>> PROVE RowsInHand'
  BY <1>10 DEF RowsInHand, workVars, Busy
<1>11. \/ \E w \in Workers : Work(w)
       \/ \E r \in Rows : Requeue(r) \/ RequeueMedia(r)
       \/ UNCHANGED <<status, path, workVars>>
  BY DEF Next, Verify, Meddle, Remember, RelinkBlob, DeleteFinal, DamageFinal, GcStat, GcRemove,
         vars, rowVars, workVars
<1> QED BY <1>1, <1>4, <1>5, <1>6, <1>7, <1>8, <1>9, <1>10, <1>11 DEF Work, Ladder

\* Rows are apart by their claims, sightings by coming last.
LEMMA HandsApart ==
    ASSUME ItemsAssumption, StoreInv, SightingsComeLast PROVE OneHandPerFile
<1> SUFFICES ASSUME NEW v \in Workers, NEW w \in Workers, v # w, Busy(v), Busy(w)
             PROVE  FileOf[item[v]] # FileOf[item[w]]
  BY DEF OneHandPerFile
<1>1. item[v] \in Items /\ item[w] \in Items
  BY DEF StoreInv, Step, Busy
<1>2. CASE item[v] \in Rows /\ item[w] \in Rows
  <2>1. item[v] # item[w]
    BY <1>2 DEF StoreInv, RowsInHand
  <2> QED BY <1>1, <1>2, <2>1, FileOfRow
<1>3. CASE item[v] \in Sightings \/ item[w] \in Sightings
  BY <1>3 DEF SightingsComeLast
<1> QED BY <1>1, <1>2, <1>3 DEF Items

-----------------------------------------------------------------------------
(* Theorems *)

LEMMA StoreInit == ASSUME ItemsAssumption, ModesAssumption, Init PROVE StoreInv
<1>1. /\ \A e \in Entries : inode[e] = 0
      /\ \A e \in Tops : e \in Entries /\ Part(e) \in Entries
      /\ \A w \in Workers : fd[w] = 0 /\ pc[w] = "idle"
      /\ \A r \in Rows : status[r] = "queued" /\ path[r] = NoEntry
  BY EntryShape DEF Init
<1>2. TypeInv
  BY DEF Init, TypeInv
<1>3. PartsAlone /\ OwnBytes /\ OwnPaths
  BY <1>1 DEF PartsAlone, OwnBytes, OwnPaths, Present
<1>4. \A w \in Workers : Step(w) /\ OwnHand(w) /\ OpenIsOwn(w) /\ ~Busy(w)
  BY <1>1 DEF Step, OwnHand, OpenIsOwn, Busy
<1> QED BY <1>2, <1>3, <1>4 DEF StoreInv, RowsInHand

\* Whoever runs, stops and restarts, the tree stays in order as long as a sighting's
\* worker has its file to itself: for rows the claim sees to that.
THEOREM StoreInOrder ==
    ASSUME ItemsAssumption, ModesAssumption PROVE Spec /\ []SightingsComeLast => []StoreInv
<1>1. Init => StoreInv
  BY StoreInit
<1>2. SightingsComeLast /\ StoreInv /\ [Next]_vars => StoreInv'
  BY HandsApart, TreeStep, TypeStep, RowsStep, StepStep, PathStep DEF StoreInv, DiskInv, HandInv
<1> QED BY <1>1, <1>2, PTL DEF Spec

\* README.md:237: for any number of files, sightings, workers and kinds of run, and
\* however names collide, a blob is whole and its own file's, until the user damages
\* one of its links; a sighting is not served while another worker has its file.
THEOREM BlobsStayWhole ==
    ASSUME ItemsAssumption, ModesAssumption PROVE Spec /\ []SightingsComeLast => []BlobsAreWhole
<1>1. StoreInv => BlobsAreWhole
  BY EntryShape DEF StoreInv, OwnBytes, Belongs, BlobsAreWhole
<1> QED BY <1>1, StoreInOrder, PTL

\* Where names tell files apart and a copy reaches its end, a done row's path holds
\* all of the row's own bytes until the user deletes or damages them.
THEOREM DoneRowsHoldTheirData ==
    ASSUME ItemsAssumption, ModesAssumption, Orderly
    PROVE  Spec /\ []SightingsComeLast => []DoneHoldsItsData
<1>1. ASSUME StoreInv, NEW r \in Rows, status[r] = "done", r \notin meddled
      PROVE  /\ Present(path[r])
             /\ owner[inode[path[r]]] = r /\ state[inode[path[r]]] = "whole"
  <2>1. path[r] # NoEntry /\ Present(path[r]) /\ Belongs(path[r], r)
    BY <1>1 DEF StoreInv, OwnPaths
  <2>2. path[r] \in Tops
    BY <2>1, BelongsToOne
  <2> QED BY <1>1, <2>1, <2>2 DEF StoreInv, OwnBytes
<1>2. StoreInv => DoneHoldsItsData
  BY <1>1 DEF DoneHoldsItsData
<1> QED BY <1>2, StoreInOrder, PTL
=============================================================================
