---------------------------- MODULE TransferProofs ----------------------------
(* Theorems about how bytes travel. Transfer, for files of any size, any         *)
(* alignment and chunk size and any number of retries: a part file is always a   *)
(* prefix of its file, and the message cache keeps its bound. HttpsCarrier, for  *)
(* sequence numbers of any width and any retry budget: the relay holds every     *)
(* uplink batch once and in order, as the queue of the session does with every   *)
(* downlink batch.                                                               *)
EXTENDS Transfer, HttpsCarrier, SequenceTheorems, FiniteSetTheorems, FunctionTheorems,
        WellFoundedInduction, TLAPS

\* The first n cells of any file.
Prefix(n) == [k \in 1..n |-> k - 1]

LEMMA PrefixShape ==
    ASSUME NEW n \in Nat
    PROVE  /\ Prefix(n) \in Seq(Nat) /\ Len(Prefix(n)) = n /\ DOMAIN Prefix(n) = 1..n
           /\ \A k \in 1..n : Prefix(n)[k] = k - 1
BY DEF Prefix

LEMMA SubSeqShape ==
    ASSUME NEW s \in Seq(Int), NEW m \in Nat, NEW n \in Nat, m <= n, n <= Len(s)
    PROVE  SubSeq(s, m + 1, n) = [k \in 1..(n - m) |-> s[k + m]]
<1>1. SubSeq(s, m + 1, n) \in Seq(Int) /\ Len(SubSeq(s, m + 1, n)) = n - m
  OBVIOUS
<1>2. \A k \in 1..(n - m) : SubSeq(s, m + 1, n)[k] = s[k + m]
  OBVIOUS
<1> QED BY <1>1, <1>2

-----------------------------------------------------------------------------
(* The part file *)

Fetching == {"asking", "refetching", "seeding"}
Stages == Fetching \cup {"waiting", "ready", "failed", "done"}

\* An item's part file holds n cells; a fetch under way stands behind them, and a
\* finished one has left all of them.
Holds(i, n) ==
    /\ part[i] = Prefix(n)
    /\ stage[i] \in Fetching => pos[i] = n
    /\ stage[i] = "done" => n = Whole(i)

PartInv ==
    /\ stage \in [Items -> Stages] /\ pos \in [Items -> Nat] /\ part \in [Items -> Seq(Int)]
    /\ \A i \in Items : \E n \in 0..Whole(i) : Holds(i, n)

LEMMA WholeType == ASSUME TransferAssumption, NEW i \in Items PROVE Whole(i) \in Nat \ {0}
BY DEF TransferAssumption, Whole

\* The offset of a request is at most one alignment below the position.
LEMMA Offset ==
    ASSUME TransferAssumption, NEW i \in Items, pos[i] \in Nat
    PROVE  /\ RequestOffset(i) \in Nat /\ RequestOffset(i) <= pos[i]
           /\ pos[i] - RequestOffset(i) < Align
<1>1. Align \in Nat \ {0}
  BY DEF TransferAssumption
<1>2. pos[i] % Align \in 0..(Align - 1)
  BY <1>1, SMT
<1>3. pos[i] % Align <= pos[i]
  BY <1>1, SMT
<1> QED BY <1>1, <1>2, <1>3 DEF RequestOffset

\* The answer to a request: cells of the file from the request's offset on; of a
\* file of unknown size, all the range has.
LEMMA SizesShape ==
    ASSUME TransferAssumption, NEW i \in Items, pos[i] \in Nat, NEW n \in Sizes(i)
    PROVE  /\ n \in 0..Chunk
           /\ n > 0 => RequestOffset(i) + n <= SizeOf[i]
           /\ TotalOf[i] = 0 /\ n < Chunk => RequestOffset(i) + n >= SizeOf[i]
<1>1. SizeOf[i] \in Nat /\ Chunk \in Nat /\ TotalOf[i] \in Nat
  BY DEF TransferAssumption
<1>2. RequestOffset(i) \in Nat
  BY Offset
<1>3. /\ InRange(i) \in 0..Chunk
      /\ InRange(i) > 0 => RequestOffset(i) + InRange(i) <= SizeOf[i]
      /\ InRange(i) < Chunk => RequestOffset(i) + InRange(i) >= SizeOf[i]
  BY <1>1, <1>2 DEF InRange
<1>4. n \in 0..InRange(i) /\ (TotalOf[i] = 0 => n = InRange(i))
  BY <1>1, <1>3 DEF Sizes
<1> QED BY <1>1, <1>2, <1>3, <1>4

\* What is written of it: cells of the file from the position on, no further than
\* the whole file, and all that is left of it when the fetch is over.
LEMMA FreshShape ==
    ASSUME TransferAssumption, NEW i \in Items, pos[i] \in 0..Whole(i),
           NEW a \in Sizes(i), BringsMore(i, a)
    PROVE  \E f \in 0..(Whole(i) - pos[i]) :
              /\ Fresh(i, a) = [k \in 1..f |-> pos[i] + k - 1]
              /\ Len(Fresh(i, a)) = f
              /\ Complete(i, a) => pos[i] + f = Whole(i)
<1>1. /\ SizeOf[i] \in Nat /\ TotalOf[i] \in Nat /\ Chunk \in Nat /\ Whole(i) \in Nat
      /\ pos[i] \in Nat
  BY WholeType DEF TransferAssumption
<1>2. RequestOffset(i) \in Nat /\ RequestOffset(i) <= pos[i]
  BY <1>1, Offset
<1>0. /\ a \in 0..Chunk
      /\ a > 0 => RequestOffset(i) + a <= SizeOf[i]
      /\ TotalOf[i] = 0 /\ a < Chunk => RequestOffset(i) + a >= SizeOf[i]
  BY <1>1, SizesShape
<1>3. /\ Answer(i, a) = [k \in 1..a |-> RequestOffset(i) + k - 1]
      /\ Len(Answer(i, a)) = a
  BY <1>0 DEF Answer
<1> DEFINE skip == pos[i] - RequestOffset(i)
           d == a - skip
           data == SubSeq(Answer(i, a), skip + 1, a)
<1>4. d \in Nat /\ d > 0 /\ skip \in Nat /\ pos[i] + d <= SizeOf[i]
      /\ (TotalOf[i] = 0 /\ a < Chunk => pos[i] + d >= SizeOf[i])
  BY <1>1, <1>2, <1>0 DEF BringsMore
<1>a. a \in Nat /\ d = a - skip /\ skip = pos[i] - RequestOffset(i)
  BY <1>1, <1>0
<1>b. data = SubSeq(Answer(i, a), skip + 1, a)
  OBVIOUS
<1>c. data = SubSeq(Answer(i, a), pos[i] - RequestOffset(i) + 1, a)
  OBVIOUS
<1> HIDE DEF skip, d, data
<1>5. data = [k \in 1..d |-> pos[i] + k - 1]
  <2>1. data = [k \in 1..d |-> Answer(i, a)[k + skip]]
    <3>1. Answer(i, a) \in Seq(Int)
      BY <1>1, <1>2, <1>3, <1>0
    <3>2. Len(Answer(i, a)) = a
      BY <1>3
    <3>3. skip <= a
      BY <1>a, <1>4
    <3>4. a \in Nat /\ skip \in Nat
      BY <1>a, <1>4
    <3>5. SubSeq(Answer(i, a), skip + 1, a) = [k \in 1..(a - skip) |-> Answer(i, a)[k + skip]]
      BY <3>1, <3>2, <3>3, <3>4, SubSeqShape
    <3> QED BY <3>5, <1>a, <1>b
  <2>2. \A k \in 1..d : k + skip \in 1..a
    BY <1>a, <1>4
  <2>3. ASSUME NEW k \in 1..d PROVE Answer(i, a)[k + skip] = pos[i] + k - 1
    <3>1. k + skip \in 1..a
      BY <2>2
    <3>2. Answer(i, a)[k + skip] = RequestOffset(i) + (k + skip) - 1
      BY <3>1, <1>3
    <3> QED BY <3>2, <1>a, <1>1, <1>2, <1>4
  <2> QED BY <2>1, <2>3
<1>6. Len(data) = d
  BY <1>5, <1>4
<1>7. Fresh(i, a) = IF TotalOf[i] > 0 /\ pos[i] + Len(data) > TotalOf[i]
                 THEN SubSeq(data, 1, TotalOf[i] - pos[i]) ELSE data
  BY <1>c DEF Fresh
<1>8. CASE TotalOf[i] > 0 /\ pos[i] + d > TotalOf[i]
  <2> DEFINE f == TotalOf[i] - pos[i]
  <2>1. f \in 0..(Whole(i) - pos[i]) /\ f <= d /\ f \in Nat
    BY <1>8, <1>1, <1>4 DEF Whole
  <2>2. Fresh(i, a) = [k \in 1..f |-> pos[i] + k - 1]
    <3>1. Fresh(i, a) = SubSeq(data, 1, f)
      BY <1>6, <1>7, <1>8
    <3>2. data \in Seq(Int)
      <4>1. [k \in 1..d |-> pos[i] + k - 1] \in Seq(Int)
        BY <1>1, <1>4
      <4> QED BY <4>1, <1>5
    <3> HIDE DEF data
    <3>3. SubSeq(data, 1, f) = [k \in 1..f |-> data[k]]
      BY <3>2, <2>1, <1>6, <1>4
    <3> QED BY <3>1, <3>3, <1>5, <2>1, <1>4
  <2>3. Len(Fresh(i, a)) = f
    BY <2>1, <2>2
  <2>4. pos[i] + f = Whole(i)
    BY <1>8, <1>1 DEF Whole
  <2> QED BY <2>1, <2>2, <2>3, <2>4
<1>9. CASE ~(TotalOf[i] > 0 /\ pos[i] + d > TotalOf[i])
  <2>1. Fresh(i, a) = data
    BY <1>6, <1>7, <1>9
  <2>2. d \in 0..(Whole(i) - pos[i])
    BY <1>9, <1>1, <1>4 DEF Whole
  <2>3. Complete(i, a) => pos[i] + d = Whole(i)
    <3>1. Complete(i, a) => IF TotalOf[i] > 0 THEN pos[i] + d >= TotalOf[i] ELSE a < Chunk
      BY <2>1, <1>6 DEF Complete
    <3> HIDE DEF data
    <3> QED BY <3>1, <1>9, <1>1, <1>4 DEF Whole
  <2> QED BY <2>1, <2>2, <2>3, <1>5, <1>6
<1> QED BY <1>8, <1>9

\* Nothing behind the position: the file is over.
LEMMA NothingLeft ==
    ASSUME TransferAssumption, NEW i \in Items, pos[i] \in 0..Whole(i),
           NEW a \in Sizes(i), ~BringsMore(i, a), ~(TotalOf[i] > 0 /\ pos[i] < TotalOf[i])
    PROVE  pos[i] = Whole(i)
<1>1. /\ SizeOf[i] \in Nat /\ TotalOf[i] \in Nat /\ Chunk \in Nat \ {0} /\ Whole(i) \in Nat
      /\ pos[i] \in Nat /\ Align \in Nat /\ Align <= Chunk
  <2>1. Chunk \in Nat \ {0} /\ Align \in Nat \ {0} /\ Chunk % Align = 0
    BY DEF TransferAssumption
  <2>2. Align <= Chunk
    BY <2>1, SMT
  <2> QED BY <2>1, <2>2, WholeType DEF TransferAssumption
<1>2. RequestOffset(i) \in Nat /\ pos[i] - RequestOffset(i) < Align
  BY <1>1, Offset
<1>3. a \in 0..Chunk /\ (TotalOf[i] = 0 /\ a < Chunk => RequestOffset(i) + a >= SizeOf[i])
  BY <1>1, SizesShape
<1> QED BY <1>1, <1>2, <1>3 DEF BringsMore, Whole

\* Writing the first n new cells at the end of a prefix makes a longer prefix.
LEMMA WrittenShape ==
    ASSUME TransferAssumption, NEW i \in Items, part \in [Items -> Seq(Int)],
           pos[i] \in Nat, part[i] = Prefix(pos[i]),
           NEW f \in Nat, NEW data, data = [k \in 1..f |-> pos[i] + k - 1],
           NEW n \in 0..f, Written(i, data, n)
    PROVE  /\ part' \in [Items -> Seq(Int)]
           /\ part'[i] = Prefix(pos[i] + n)
           /\ \A j \in Items \ {i} : part'[j] = part[j]
<1> DEFINE p == pos[i]
           cells == [k \in 1..(IF p + n > Len(part[i]) THEN p + n ELSE Len(part[i])) |->
                        IF k \in p + 1 .. p + n THEN data[k - p]
                        ELSE IF k <= Len(part[i]) THEN part[i][k] ELSE Hole]
<1>1. part' = [part EXCEPT ![i] = cells]
  BY DEF Written
<1>2. p \in Nat /\ n \in Nat /\ n <= f
  OBVIOUS
<1>3. Len(part[i]) = p /\ \A k \in 1..p : part[i][k] = k - 1
  BY <1>2, PrefixShape
<1>4. \A k \in p + 1 .. p + n : data[k - p] = k - 1
  <2> SUFFICES ASSUME NEW k \in p + 1 .. p + n PROVE data[k - p] = k - 1
    OBVIOUS
  <2>1. k - p \in 1..f /\ k \in Int
    BY <1>2
  <2>2. data[k - p] = pos[i] + (k - p) - 1
    BY <2>1
  <2> QED BY <2>1, <2>2, <1>2
<1>5. (IF p + n > Len(part[i]) THEN p + n ELSE Len(part[i])) = p + n
  BY <1>2, <1>3
<1>6. cells = [k \in 1..(p + n) |->
                  IF k \in p + 1 .. p + n THEN data[k - p]
                  ELSE IF k <= Len(part[i]) THEN part[i][k] ELSE Hole]
  BY <1>5
<1> HIDE DEF cells
<1>7. ASSUME NEW k \in 1..(p + n)
      PROVE  (IF k \in p + 1 .. p + n THEN data[k - p]
              ELSE IF k <= Len(part[i]) THEN part[i][k] ELSE Hole) = k - 1
  <2>1. CASE k \in p + 1 .. p + n
    BY <2>1, <1>4
  <2>2. CASE k \notin p + 1 .. p + n
    <3>1. k \in 1..p
      BY <2>2, <1>2
    <3>2. k <= Len(part[i])
      BY <3>1, <1>2, <1>3
    <3> QED BY <2>2, <3>1, <3>2, <1>3
  <2> QED BY <2>1, <2>2
<1>8. cells = Prefix(p + n)
  BY <1>6, <1>7 DEF Prefix
<1>9. Prefix(p + n) \in Seq(Nat) /\ p + n \in Nat
  BY <1>2, PrefixShape
<1>10. cells \in Seq(Int)
  <2>1. \A s \in Seq(Nat) : s \in Seq(Int)
    OBVIOUS
  <2> QED BY <2>1, <1>8, <1>9
<1> QED BY <1>1, <1>8, <1>10

\* A step of one item's keeps the invariant when it keeps that item's part of it.
LEMMA StepOf ==
    ASSUME PartInv, NEW i \in Items,
           stage' \in [Items -> Stages], pos' \in [Items -> Nat], part' \in [Items -> Seq(Int)],
           \A j \in Items \ {i} : part'[j] = part[j] /\ stage'[j] = stage[j] /\ pos'[j] = pos[j],
           NEW n \in 0..Whole(i), part'[i] = Prefix(n),
           stage'[i] \in Fetching => pos'[i] = n, stage'[i] = "done" => n = Whole(i)
    PROVE  PartInv'
<1>1. ASSUME NEW j \in Items PROVE \E m \in 0..Whole(j) : Holds(j, m)'
  <2>1. CASE j = i
    BY <2>1 DEF Holds, Whole
  <2>2. CASE j # i
    <3>1. PICK m \in 0..Whole(j) : Holds(j, m)
      BY DEF PartInv
    <3>2. Holds(j, m)'
      BY <2>2, <3>1 DEF Holds, Whole
    <3> QED BY <3>2
  <2> QED BY <2>1, <2>2
<1> QED BY <1>1 DEF PartInv, Whole

\* What the two ways of moving an item on do to stage and position.
LEMMA GotoShape ==
    ASSUME PartInv, NEW i \in Items, NEW s \in Stages, Goto(i, s)
    PROVE  /\ stage' \in [Items -> Stages] /\ stage'[i] = s
           /\ \A j \in Items \ {i} : stage'[j] = stage[j]
BY DEF PartInv, Goto

LEMMA LeaveShape ==
    ASSUME PartInv, NEW i \in Items, NEW s \in Stages, Leave(i, s)
    PROVE  /\ stage' \in [Items -> Stages] /\ stage'[i] = s
           /\ pos' \in [Items -> Nat]
           /\ \A j \in Items \ {i} : stage'[j] = stage[j] /\ pos'[j] = pos[j]
<1>1. Goto(i, s) /\ pos' = [pos EXCEPT ![i] = 0] /\ pos \in [Items -> Nat]
  BY DEF Leave, PartInv
<1> QED BY <1>1, GotoShape

\* An end of a fetch that leaves the part file alone.
LEMMA LeaveKeeps ==
    ASSUME PartInv, NEW i \in Items, NEW s \in {"ready", "failed"}, Leave(i, s), part' = part
    PROVE  PartInv'
<1>1. s \in Stages /\ s \notin Fetching /\ s # "done"
  BY DEF Stages, Fetching
<1>2. PICK n \in 0..Whole(i) : Holds(i, n)
  BY DEF PartInv
<1>3. part'[i] = Prefix(n) /\ part' \in [Items -> Seq(Int)]
  BY <1>2 DEF Holds, PartInv
<1>4. /\ stage' \in [Items -> Stages] /\ stage'[i] = s /\ pos' \in [Items -> Nat]
      /\ \A j \in Items \ {i} : stage'[j] = stage[j] /\ pos'[j] = pos[j]
  BY <1>1, LeaveShape
<1> QED BY <1>1, <1>3, <1>4, StepOf

\* A move between two stages that leaves part file and position alone.
LEMMA GotoKeeps ==
    ASSUME PartInv, NEW i \in Items, NEW s \in Stages \ {"done"}, Goto(i, s),
           part' = part, pos' = pos, s \in Fetching => stage[i] \in Fetching
    PROVE  PartInv'
<1>1. PICK n \in 0..Whole(i) : Holds(i, n)
  BY DEF PartInv
<1>2. part'[i] = Prefix(n) /\ part' \in [Items -> Seq(Int)] /\ pos' \in [Items -> Nat]
  BY <1>1 DEF Holds, PartInv
<1>3. /\ stage' \in [Items -> Stages] /\ stage'[i] = s
      /\ \A j \in Items \ {i} : stage'[j] = stage[j]
  BY GotoShape
<1>4. stage'[i] \in Fetching => pos'[i] = n
  BY <1>1, <1>3 DEF Holds
<1> QED BY <1>2, <1>3, <1>4, StepOf

LEMMA StartAttemptKeeps ==
    ASSUME TransferAssumption, PartInv, NEW i \in Items, StartAttempt(i) PROVE PartInv'
<1>1. PICK n \in 0..Whole(i) : Holds(i, n)
  BY DEF PartInv
<1>2. n \in Nat
  BY WholeType
<1>3. Len(part[i]) = n
  BY <1>1, <1>2, PrefixShape DEF Holds
<1> DEFINE s == IF location[i] = None THEN "refetching" ELSE "asking"
<1>4. s \in Stages /\ s # "done"
  BY DEF Stages, Fetching
<1>5. /\ Goto(i, s) /\ pos' = [pos EXCEPT ![i] = Len(part[i])] /\ part' = part
  BY DEF StartAttempt
<1> HIDE DEF s
<1>6. /\ stage' \in [Items -> Stages] /\ stage'[i] = s
      /\ \A j \in Items \ {i} : stage'[j] = stage[j]
  BY <1>4, <1>5, GotoShape
<1>7. /\ part' \in [Items -> Seq(Int)] /\ part'[i] = Prefix(n)
      /\ pos' \in [Items -> Nat] /\ pos'[i] = n
      /\ \A j \in Items \ {i} : pos'[j] = pos[j]
  BY <1>1, <1>2, <1>3, <1>5 DEF PartInv, Holds
<1> QED BY <1>4, <1>5, <1>6, <1>7, StepOf

\* An answer that brings new cells: a longer prefix, and all of it at the end.
LEMMA ChunkKeeps ==
    ASSUME TransferAssumption, PartInv, NEW i \in Items, ChunkArrives(i) PROVE PartInv'
<1>1. PICK n \in 0..Whole(i) : Holds(i, n)
  BY DEF PartInv
<1>2. n \in Nat /\ Whole(i) \in Nat
  BY WholeType
<1>0. PICK a \in Sizes(i) :
         /\ BringsMore(i, a)
         /\ Written(i, Fresh(i, a), Len(Fresh(i, a)))
         /\ IF Complete(i, a) THEN Leave(i, "done")
            ELSE /\ pos' = [pos EXCEPT ![i] = @ + Len(Fresh(i, a))]
                 /\ retries' = [retries EXCEPT ![i] = 0] /\ UNCHANGED <<stage, ref, there>>
  BY DEF ChunkArrives
<1>3. stage[i] = "asking"
  BY DEF ChunkArrives, Answered
<1>4. pos[i] = n /\ part[i] = Prefix(pos[i])
  BY <1>1, <1>3 DEF Holds, Fetching
<1>5. PICK f \in 0..(Whole(i) - pos[i]) :
         /\ Fresh(i, a) = [k \in 1..f |-> pos[i] + k - 1]
         /\ Len(Fresh(i, a)) = f
         /\ Complete(i, a) => pos[i] + f = Whole(i)
  BY <1>1, <1>0, <1>4, FreshShape
<1>6. f \in Nat /\ n + f \in 0..Whole(i) /\ f \in 0..f
  BY <1>2, <1>4
<1>7. Written(i, Fresh(i, a), f)
  <2>1. Len(Fresh(i, a)) = f
    BY <1>5
  <2> QED BY <2>1, <1>0
<1>8. /\ part' \in [Items -> Seq(Int)] /\ part'[i] = Prefix(n + f)
      /\ \A j \in Items \ {i} : part'[j] = part[j]
  <2>1. part \in [Items -> Seq(Int)] /\ pos[i] \in Nat
    BY <1>2, <1>4 DEF PartInv
  <2>2. Fresh(i, a) = [k \in 1..f |-> pos[i] + k - 1]
    BY <1>5
  <2> QED BY <2>1, <2>2, <1>4, <1>6, <1>7, WrittenShape
<1>9. CASE Complete(i, a)
  <2>1. Leave(i, "done") /\ "done" \in Stages
    BY <1>9, <1>0 DEF Stages
  <2>2. /\ stage' \in [Items -> Stages] /\ stage'[i] = "done" /\ pos' \in [Items -> Nat]
        /\ \A j \in Items \ {i} : stage'[j] = stage[j] /\ pos'[j] = pos[j]
    BY <2>1, LeaveShape
  <2>3. n + f = Whole(i) /\ "done" \notin Fetching
    BY <1>4, <1>5, <1>9 DEF Fetching
  <2> QED BY <2>2, <2>3, <1>6, <1>8, StepOf
<1>10. CASE ~Complete(i, a)
  <2>1. pos' = [pos EXCEPT ![i] = @ + Len(Fresh(i, a))] /\ stage' = stage
    BY <1>10, <1>0
  <2>2. pos' = [pos EXCEPT ![i] = pos[i] + f]
    <3>1. Len(Fresh(i, a)) = f
      BY <1>5
    <3> QED BY <2>1, <3>1
  <2>3. /\ pos' \in [Items -> Nat] /\ pos'[i] = n + f
        /\ \A j \in Items \ {i} : pos'[j] = pos[j]
    BY <2>2, <1>2, <1>4, <1>6 DEF PartInv
  <2>4. stage' \in [Items -> Stages] /\ stage'[i] # "done"
    BY <2>1, <1>3 DEF PartInv
  <2> QED BY <2>1, <2>3, <2>4, <1>6, <1>8, StepOf
<1> QED BY <1>9, <1>10

LEMMA NothingKeeps ==
    ASSUME TransferAssumption, PartInv, NEW i \in Items, NothingArrives(i) PROVE PartInv'
<1>1. PICK n \in 0..Whole(i) : Holds(i, n)
  BY DEF PartInv
<1>0. PICK a \in Sizes(i) : ~BringsMore(i, a)
  BY DEF NothingArrives
<1>2. stage[i] = "asking" /\ part' = part
  BY DEF NothingArrives, Answered
<1>3. pos[i] = n
  BY <1>1, <1>2 DEF Holds, Fetching
<1>4. CASE TotalOf[i] > 0 /\ pos[i] < TotalOf[i]
  <2>1. Leave(i, "failed")
    BY <1>4 DEF NothingArrives
  <2> QED BY <2>1, <1>2, LeaveKeeps
<1>5. CASE ~(TotalOf[i] > 0 /\ pos[i] < TotalOf[i])
  <2>1. Leave(i, "done") /\ "done" \in Stages /\ "done" \notin Fetching
    BY <1>5 DEF NothingArrives, Stages, Fetching
  <2>2. /\ stage' \in [Items -> Stages] /\ stage'[i] = "done" /\ pos' \in [Items -> Nat]
        /\ \A j \in Items \ {i} : stage'[j] = stage[j] /\ pos'[j] = pos[j]
    BY <2>1, LeaveShape
  <2>3. n = Whole(i)
    BY <1>1, <1>3, <1>5, <1>0, NothingLeft
  <2>4. part'[i] = Prefix(n) /\ part' \in [Items -> Seq(Int)]
    BY <1>1, <1>2 DEF Holds, PartInv
  <2> QED BY <2>1, <2>2, <2>3, <2>4, <1>2, StepOf
<1> QED BY <1>4, <1>5

\* A write that stops midway leaves a shorter prefix, never a hole.
LEMMA WriteBreaksKeeps ==
    ASSUME TransferAssumption, PartInv, NEW i \in Items, WriteBreaks(i) PROVE PartInv'
<1>1. PICK n \in 0..Whole(i) : Holds(i, n)
  BY DEF PartInv
<1>2. n \in Nat /\ Whole(i) \in Nat
  BY WholeType
<1>0. PICK a \in Sizes(i) :
         BringsMore(i, a) /\ \E m \in 0..(Len(Fresh(i, a)) - 1) : Written(i, Fresh(i, a), m)
  BY DEF WriteBreaks
<1>3. stage[i] = "asking"
  BY DEF WriteBreaks, Answered
<1>4. pos[i] = n /\ part[i] = Prefix(pos[i])
  BY <1>1, <1>3 DEF Holds, Fetching
<1>5. PICK f \in 0..(Whole(i) - pos[i]) :
         /\ Fresh(i, a) = [k \in 1..f |-> pos[i] + k - 1]
         /\ Len(Fresh(i, a)) = f
  BY <1>1, <1>0, <1>4, FreshShape
<1>6. PICK m \in 0..(Len(Fresh(i, a)) - 1) : Written(i, Fresh(i, a), m)
  BY <1>0
<1>7. f \in Nat /\ m \in 0..f /\ n + m \in 0..Whole(i)
  <2>1. Len(Fresh(i, a)) = f
    BY <1>5
  <2>2. m \in 0..(f - 1)
    BY <2>1, <1>6
  <2> QED BY <2>2, <1>2, <1>4
<1>8. /\ part' \in [Items -> Seq(Int)] /\ part'[i] = Prefix(n + m)
      /\ \A j \in Items \ {i} : part'[j] = part[j]
  <2>1. part \in [Items -> Seq(Int)] /\ pos[i] \in Nat
    BY <1>2, <1>4 DEF PartInv
  <2>2. Fresh(i, a) = [k \in 1..f |-> pos[i] + k - 1]
    BY <1>5
  <2> QED BY <2>1, <2>2, <1>4, <1>6, <1>7, WrittenShape
<1>9. Leave(i, "ready") /\ "ready" \in Stages /\ "ready" \notin Fetching
  BY DEF WriteBreaks, Stages, Fetching
<1>10. /\ stage' \in [Items -> Stages] /\ stage'[i] = "ready" /\ pos' \in [Items -> Nat]
       /\ \A j \in Items \ {i} : stage'[j] = stage[j] /\ pos'[j] = pos[j]
  BY <1>9, LeaveShape
<1> QED BY <1>7, <1>8, <1>9, <1>10, StepOf

LEMMA RestartKeeps == ASSUME TransferAssumption, PartInv, Restart PROVE PartInv'
<1>1. stage' \in [Items -> Stages] /\ pos' \in [Items -> Nat] /\ part' = part
  BY DEF PartInv, Restart, Stages
<1>2. ASSUME NEW j \in Items PROVE \E n \in 0..Whole(j) : Holds(j, n)'
  <2>1. PICK n \in 0..Whole(j) : Holds(j, n)
    BY DEF PartInv
  <2>2. stage'[j] \notin Fetching /\ (stage'[j] = "done" => stage[j] = "done")
    <3>1. stage'[j] = IF stage[j] \in {"done", "failed"} THEN stage[j] ELSE "waiting"
      BY DEF Restart
    <3> QED BY <3>1 DEF Fetching
  <2>3. Holds(j, n)'
    BY <2>1, <2>2, <1>1 DEF Holds, Whole
  <2> QED BY <2>3
<1> QED BY <1>1, <1>2 DEF PartInv, Whole

LEMMA PartInit == ASSUME TransferAssumption, Init PROVE PartInv
<1>1. \A i \in Items : part[i] = <<>> /\ stage[i] = "waiting" /\ pos[i] = 0
  BY DEF Init
<1>2. stage \in [Items -> Stages] /\ pos \in [Items -> Nat]
  BY DEF Init, Stages
<1>3. part \in [Items -> Seq(Int)]
  BY DEF Init
<1>4. Prefix(0) = <<>>
  BY DEF Prefix
<1>5. ASSUME NEW i \in Items PROVE Holds(i, 0) /\ 0 \in 0..Whole(i)
  BY <1>1, <1>4, WholeType DEF Holds, Fetching
<1> QED BY <1>2, <1>3, <1>5 DEF PartInv

LEMMA PartStep == ASSUME TransferAssumption, PartInv, [Next]_vars PROVE PartInv'
<1>1. CASE Restart
  BY <1>1, RestartKeeps
<1>2. ASSUME NEW i \in Items, Resolve(i) PROVE PartInv'
  <2>1. Goto(i, "ready") /\ part' = part /\ pos' = pos
    BY <1>2 DEF Resolve, fetchVars
  <2> QED BY <2>1, GotoKeeps DEF Stages, Fetching
<1>3. ASSUME NEW i \in Items, StartAttempt(i) PROVE PartInv'
  BY <1>3, StartAttemptKeeps
<1>4. ASSUME NEW i \in Items, LadderEnds(i) PROVE PartInv'
  <2>1. Goto(i, "failed") /\ part' = part /\ pos' = pos
    BY <1>4 DEF LadderEnds, fetchVars
  <2> QED BY <2>1, GotoKeeps DEF Stages, Fetching
<1>5. ASSUME NEW i \in Items, Refetched(i) PROVE PartInv'
  <2>1. Goto(i, "seeding") /\ part' = part /\ pos' = pos /\ stage[i] = "refetching"
    BY <1>5 DEF Refetched
  <2> QED BY <2>1, GotoKeeps DEF Stages, Fetching
<1>6. ASSUME NEW i \in Items, SeedCache(i) PROVE PartInv'
  <2>1. Goto(i, "asking") /\ part' = part /\ pos' = pos /\ stage[i] = "seeding"
    BY <1>6 DEF SeedCache, fetchVars
  <2> QED BY <2>1, GotoKeeps DEF Stages, Fetching
<1>7. ASSUME NEW i \in Items, RefetchFails(i) PROVE PartInv'
  BY <1>7, LeaveKeeps DEF RefetchFails
<1>8. ASSUME NEW i \in Items, Expired(i) PROVE PartInv'
  <2>1. Goto(i, "refetching") /\ part' = part /\ pos' = pos /\ stage[i] = "asking"
    BY <1>8 DEF Expired, fetchVars
  <2> QED BY <2>1, GotoKeeps DEF Stages, Fetching
<1>9. ASSUME NEW i \in Items, Migrated(i) PROVE PartInv'
  <2>1. CASE Pooled
    BY <1>9, <2>1 DEF Migrated, PartInv, Holds, Whole
  <2>2. CASE ~Pooled
    BY <1>9, <2>2, LeaveKeeps DEF Migrated
  <2> QED BY <2>1, <2>2
<1>10. ASSUME NEW i \in Items, Transient(i) PROVE PartInv'
  <2>1. CASE retries[i] < ChunkRetries
    BY <1>10, <2>1 DEF Transient, PartInv, Holds, Whole
  <2>2. CASE ~(retries[i] < ChunkRetries)
    BY <1>10, <2>2, LeaveKeeps DEF Transient
  <2> QED BY <2>1, <2>2
<1>11. ASSUME NEW i \in Items, Fatal(i) PROVE PartInv'
  BY <1>11, LeaveKeeps DEF Fatal
<1>12. ASSUME NEW i \in Items, ChunkArrives(i) PROVE PartInv'
  BY <1>12, ChunkKeeps
<1>13. ASSUME NEW i \in Items, NothingArrives(i) PROVE PartInv'
  BY <1>13, NothingKeeps
<1>14. ASSUME NEW i \in Items, WriteBreaks(i) PROVE PartInv'
  BY <1>14, WriteBreaksKeeps
<1>15. ASSUME NEW i \in Items, Expire(i) PROVE PartInv'
  BY <1>15 DEF Expire, fetchVars, PartInv, Holds, Whole
<1>16. CASE UNCHANGED vars
  BY <1>16 DEF vars, fetchVars, PartInv, Holds, Whole
<1> QED BY <1>1, <1>2, <1>3, <1>4, <1>5, <1>6, <1>7, <1>8, <1>9, <1>10, <1>11,
           <1>12, <1>13, <1>14, <1>15, <1>16 DEF Next

LEMMA PartSafe == ASSUME TransferAssumption, PartInv PROVE PartIsPrefix
<1> SUFFICES ASSUME NEW i \in Items
             PROVE  /\ \A k \in DOMAIN part[i] : part[i][k] = k - 1
                    /\ stage[i] = "done" => Len(part[i]) = Whole(i)
  BY DEF PartIsPrefix
<1>1. PICK n \in 0..Whole(i) : Holds(i, n)
  BY DEF PartInv
<1>2. n \in Nat
  BY WholeType
<1> QED BY <1>1, <1>2, PrefixShape DEF Holds

\* ranged.go:188: for files of every size, every alignment and chunk size, and
\* however often a fetch is interrupted, retried, refetched or migrated, a part
\* file holds the first cells of its file, and all of them when the fetch reports
\* success.
THEOREM PartsArePrefixes == ASSUME TransferAssumption PROVE Spec => []PartIsPrefix
<1>1. Init => PartInv
  BY PartInit
<1>2. PartInv /\ [Next]_vars => PartInv'
  BY PartStep
<1>3. PartInv => PartIsPrefix
  BY PartSafe
<1> QED BY <1>1, <1>2, <1>3, PTL DEF Spec

-----------------------------------------------------------------------------
(* The message cache *)

\* The eviction order names every cached message once.
CacheInv ==
    /\ order \in Seq(Items) /\ IsInjective(order) /\ Len(order) <= CacheLimit
    /\ DOMAIN entries = ToSet(order)

LEMMA OrderCounts ==
    ASSUME NEW s \in Seq(Items), IsInjective(s) PROVE Cardinality(ToSet(s)) = Len(s)
<1>1. DOMAIN s = 1..Len(s) /\ s \in [1..Len(s) -> ToSet(s)] /\ Len(s) \in Nat
  BY DEF ToSet
<1>2. s \in Bijection(1..Len(s), ToSet(s))
  BY <1>1 DEF ToSet, Bijection, Injection, Surjection
<1> QED BY <1>1, <1>2, FS_CountingElements DEF ExistsBijection

\* A message that was not cached takes the last place.
LEMMA AppendOrder ==
    ASSUME NEW s \in Seq(Items), IsInjective(s), NEW i \in Items \ ToSet(s)
    PROVE  /\ Append(s, i) \in Seq(Items) /\ IsInjective(Append(s, i))
           /\ ToSet(Append(s, i)) = ToSet(s) \cup {i}
           /\ Len(Append(s, i)) = Len(s) + 1
<1> DEFINE q == Append(s, i)
<1>1. /\ Len(s) \in Nat /\ q \in Seq(Items) /\ Len(q) = Len(s) + 1
      /\ DOMAIN q = 1..(Len(s) + 1) /\ DOMAIN s = 1..Len(s)
  OBVIOUS
<1>2. \A k \in 1..Len(s) : q[k] = s[k] /\ s[k] # i
  BY DEF ToSet
<1>3. q[Len(s) + 1] = i
  OBVIOUS
<1> HIDE DEF q
<1>4. IsInjective(q)
  <2> SUFFICES ASSUME NEW a \in 1..(Len(s) + 1), NEW b \in 1..(Len(s) + 1), q[a] = q[b]
               PROVE  a = b
    BY <1>1 DEF IsInjective
  <2>1. CASE a = Len(s) + 1 \/ b = Len(s) + 1
    BY <2>1, <1>1, <1>2, <1>3
  <2>2. CASE a # Len(s) + 1 /\ b # Len(s) + 1
    <3>1. a \in 1..Len(s) /\ b \in 1..Len(s)
      BY <2>2, <1>1
    <3> QED BY <3>1, <1>1, <1>2 DEF IsInjective
  <2> QED BY <2>1, <2>2
<1>5. ToSet(q) = ToSet(s) \cup {i}
  <2>1. 1..(Len(s) + 1) = 1..Len(s) \cup {Len(s) + 1}
    BY <1>1
  <2> QED BY <2>1, <1>1, <1>2, <1>3, Zenon DEF ToSet
<1> QED BY <1>1, <1>4, <1>5 DEF q

\* The message with the first place leaves, and only that one.
LEMMA TailOrder ==
    ASSUME NEW q \in Seq(Items), IsInjective(q), q # <<>>
    PROVE  /\ Tail(q) \in Seq(Items) /\ IsInjective(Tail(q))
           /\ ToSet(Tail(q)) = ToSet(q) \ {Head(q)}
           /\ Len(Tail(q)) = Len(q) - 1
<1> DEFINE t == Tail(q)
<1>1. /\ Len(q) \in Nat \ {0} /\ t \in Seq(Items) /\ Len(t) = Len(q) - 1
      /\ DOMAIN t = 1..(Len(q) - 1) /\ DOMAIN q = 1..Len(q) /\ Head(q) = q[1]
  OBVIOUS
<1>2. \A k \in 1..(Len(q) - 1) : t[k] = q[k + 1]
  OBVIOUS
<1> HIDE DEF t
<1>3. IsInjective(t)
  <2> SUFFICES ASSUME NEW a \in 1..(Len(q) - 1), NEW b \in 1..(Len(q) - 1), t[a] = t[b]
               PROVE  a = b
    BY <1>1 DEF IsInjective
  <2>1. a + 1 \in 1..Len(q) /\ b + 1 \in 1..Len(q)
    BY <1>1
  <2>2. q[a + 1] = q[b + 1]
    BY <1>2
  <2>3. a + 1 = b + 1
    BY <2>1, <2>2, <1>1 DEF IsInjective
  <2> QED BY <2>3
<1>4. ToSet(t) \subseteq ToSet(q) \ {Head(q)}
  <2> SUFFICES ASSUME NEW k \in 1..(Len(q) - 1) PROVE t[k] \in ToSet(q) /\ t[k] # Head(q)
    BY <1>1 DEF ToSet
  <2>1. k + 1 \in 1..Len(q) /\ 1 \in 1..Len(q) /\ k + 1 # 1
    BY <1>1
  <2>2. q[k + 1] # q[1]
    BY <2>1, <1>1 DEF IsInjective
  <2> QED BY <2>1, <2>2, <1>1, <1>2 DEF ToSet
<1>5. ToSet(q) \ {Head(q)} \subseteq ToSet(t)
  <2> SUFFICES ASSUME NEW k \in 1..Len(q), q[k] # q[1] PROVE q[k] \in ToSet(t)
    BY <1>1 DEF ToSet
  <2>1. k - 1 \in 1..(Len(q) - 1) /\ (k - 1) + 1 = k
    BY <1>1
  <2>2. t[k - 1] = q[k]
    BY <2>1, <1>2
  <2> QED BY <2>1, <2>2, <1>1 DEF ToSet
<1> QED BY <1>1, <1>3, <1>4, <1>5 DEF t

LEMMA PutKeeps ==
    ASSUME TransferAssumption, CacheInv, NEW i \in Items, NEW e, Put(i, e) PROVE CacheInv'
<1> DEFINE queue == IF i \in DOMAIN entries THEN order ELSE Append(order, i)
           gone == IF Len(queue) > CacheLimit THEN {Head(queue)} ELSE {}
<1>1. order' = IF gone = {} THEN queue ELSE Tail(queue)
  BY DEF Put
<1>2. DOMAIN entries' = (DOMAIN entries \cup {i}) \ gone
  BY DEF Put
<1>3. /\ queue \in Seq(Items) /\ IsInjective(queue) /\ Len(queue) <= CacheLimit + 1
      /\ ToSet(queue) = DOMAIN entries \cup {i} /\ CacheLimit \in Nat \ {0}
  <2>1. CacheLimit \in Nat \ {0} /\ Len(order) \in Nat
    BY DEF TransferAssumption, CacheInv
  <2>2. CASE i \in DOMAIN entries
    BY <2>1, <2>2 DEF CacheInv
  <2>3. CASE i \notin DOMAIN entries
    <3>1. i \in Items \ ToSet(order) /\ queue = Append(order, i)
      BY <2>3 DEF CacheInv
    <3> HIDE DEF queue
    <3> QED BY <2>1, <3>1, AppendOrder DEF CacheInv
  <2> QED BY <2>2, <2>3
<1> HIDE DEF queue
<1>4. CASE Len(queue) > CacheLimit
  <2>1. gone = {Head(queue)} /\ order' = Tail(queue) /\ queue # <<>>
    BY <1>1, <1>3, <1>4
  <2>2. /\ Tail(queue) \in Seq(Items) /\ IsInjective(Tail(queue))
        /\ ToSet(Tail(queue)) = ToSet(queue) \ {Head(queue)}
        /\ Len(Tail(queue)) = Len(queue) - 1
    BY <2>1, <1>3, TailOrder
  <2>3. Len(queue) - 1 <= CacheLimit
    BY <1>3
  <2> QED BY <2>1, <2>2, <2>3, <1>2, <1>3 DEF CacheInv
<1>5. CASE ~(Len(queue) > CacheLimit)
  <2>1. gone = {} /\ order' = queue
    BY <1>1, <1>5
  <2>2. Len(queue) <= CacheLimit
    BY <1>3, <1>5
  <2> QED BY <2>1, <2>2, <1>2, <1>3 DEF CacheInv
<1> QED BY <1>4, <1>5

\* A walk leaves the last messages it saw, no more than the limit.
LEMMA WalkedShape ==
    ASSUME TransferAssumption, NEW o \in Orders
    PROVE  o \in Seq(Items) /\ IsInjective(o) /\ Len(o) <= CacheLimit
<1>1. PICK q \in WalkOrders : IsInjective(q) /\ o = Walked(q)
  BY DEF Orders
<1>2. CacheLimit \in Nat \ {0} /\ Cardinality(Items) \in Nat
  BY FS_CardinalityType DEF TransferAssumption
<1>3. PICK n \in 0..Cardinality(Items) : q \in [1..n -> Items]
  BY <1>1 DEF WalkOrders
<1>4. n \in Nat /\ q \in Seq(Items) /\ Len(q) = n /\ DOMAIN q = 1..n
  BY <1>2, <1>3
<1> DEFINE m == IF n > CacheLimit THEN n - CacheLimit + 1 ELSE 1
<1>5. o = SubSeq(q, m, n)
  BY <1>1, <1>4 DEF Walked
<1>6. m \in Nat \ {0} /\ m <= n + 1 /\ n + 1 - m <= CacheLimit
  BY <1>2, <1>4
<1> HIDE DEF m
<1>7. /\ o \in Seq(Items) /\ Len(o) = n + 1 - m /\ DOMAIN o = 1..(n + 1 - m)
      /\ \A k \in 1..(n + 1 - m) : o[k] = q[k + m - 1]
  BY <1>4, <1>5, <1>6
<1>8. IsInjective(o)
  <2> SUFFICES ASSUME NEW a \in 1..(n + 1 - m), NEW b \in 1..(n + 1 - m), o[a] = o[b]
               PROVE  a = b
    BY <1>7 DEF IsInjective
  <2>1. a + m - 1 \in 1..n /\ b + m - 1 \in 1..n
    BY <1>4, <1>6
  <2>2. q[a + m - 1] = q[b + m - 1]
    BY <1>7
  <2>3. a + m - 1 = b + m - 1
    BY <2>1, <2>2, <1>1, <1>4 DEF IsInjective
  <2> QED BY <2>3, <1>6
<1> QED BY <1>6, <1>7, <1>8

LEMMA CacheInit == ASSUME TransferAssumption, Init PROVE CacheInv
<1>1. order \in Orders /\ DOMAIN entries = ToSet(order)
  BY DEF Init, EntriesOf
<1> QED BY <1>1, WalkedShape DEF CacheInv

LEMMA CacheStep == ASSUME TransferAssumption, CacheInv, [Next]_vars PROVE CacheInv'
<1>1. CASE Restart
  <2>1. order' \in Orders /\ DOMAIN entries' = ToSet(order')
    BY <1>1 DEF Restart
  <2> QED BY <2>1, WalkedShape DEF CacheInv
<1>2. ASSUME NEW i \in Items, SeedCache(i) PROVE CacheInv'
  BY <1>2, PutKeeps DEF SeedCache
<1>3. ASSUME NEW i \in Items,
             \/ Resolve(i) \/ StartAttempt(i) \/ LadderEnds(i) \/ Refetched(i)
             \/ RefetchFails(i) \/ Expired(i) \/ Migrated(i) \/ Transient(i) \/ Fatal(i)
             \/ ChunkArrives(i) \/ NothingArrives(i) \/ WriteBreaks(i) \/ Expire(i)
      PROVE  UNCHANGED cacheVars
  BY <1>3 DEF Resolve, StartAttempt, LadderEnds, Refetched, RefetchFails, Expired, Migrated,
     Transient, Fatal, ChunkArrives, NothingArrives, WriteBreaks, Expire
<1>4. CASE UNCHANGED cacheVars
  BY <1>4 DEF cacheVars, CacheInv
<1>5. UNCHANGED vars => UNCHANGED cacheVars
  BY DEF vars
<1> QED BY <1>1, <1>2, <1>3, <1>4, <1>5 DEF Next

\* itemctx.go:60: whoever puts and refreshes messages, and whatever the limit: the
\* order and the entries of the cache name the same messages, each once, and never
\* more than the limit.
THEOREM CacheStaysBounded == ASSUME TransferAssumption PROVE Spec => []CacheBounded
<1>1. Init => CacheInv
  BY CacheInit
<1>2. CacheInv /\ [Next]_vars => CacheInv'
  BY CacheStep
<1>3. CacheInv => CacheBounded
  BY OrderCounts DEF CacheInv, CacheBounded
<1> QED BY <1>1, <1>2, <1>3, PTL DEF Spec

-----------------------------------------------------------------------------
(* The uplink of the carrier *)

\* The relay holds the first n batches; the number of the next request is that of
\* the batch it carries, and 0 once the numbers have wrapped.
UpInv ==
    /\ sent \in Nat /\ seq \in 0..(SeqModulus - 1)
    /\ \E n \in Nat :
          /\ taken = Upto(n)
          /\ n \in {sent - 1, sent}
          /\ upState = "idle" => n = sent /\ (seq = 0 \/ seq = sent + 1)
          /\ upState = "asking" => seq = sent

LEMMA UptoShape ==
    ASSUME NEW n \in Nat
    PROVE  /\ Len(Upto(n)) = n /\ Upto(n) \in Seq(Nat)
           /\ Append(Upto(n), n + 1) = Upto(n + 1)
<1>1. Len(Upto(n)) = n /\ Upto(n) \in Seq(Nat) /\ Upto(n + 1) \in Seq(Nat)
      /\ Len(Upto(n + 1)) = n + 1
  BY DEF Upto
<1>2. Append(Upto(n), n + 1) = [k \in 1..(n + 1) |-> IF k = n + 1 THEN n + 1 ELSE Upto(n)[k]]
  BY <1>1
<1>3. \A k \in 1..n : Upto(n)[k] = k
  BY DEF Upto
<1>4. \A k \in 1..(n + 1) : (IF k = n + 1 THEN n + 1 ELSE Upto(n)[k]) = k
  BY <1>3
<1> QED BY <1>1, <1>2, <1>4 DEF Upto

\* What the relay holds after one more look at the batch under way.
LEMMA TakesShape ==
    ASSUME UpInv, upState = "asking", taken' \in {taken, RelayTakes(seq)}
    PROVE  \E n \in Nat : n \in {sent - 1, sent} /\ taken' = Upto(n) /\ Len(taken') = n
<1>1. PICK n \in Nat : taken = Upto(n) /\ n \in {sent - 1, sent}
  BY DEF UpInv
<1>2. Len(taken) = n /\ seq = sent /\ sent \in Nat
  BY <1>1, UptoShape DEF UpInv
<1>3. CASE taken' = taken
  BY <1>1, <1>2, <1>3
<1>4. CASE taken' # taken
  <2>1. taken' = Append(taken, sent) /\ seq = Len(taken) + 1
    BY <1>4 DEF RelayTakes
  <2>2. sent = n + 1
    BY <2>1, <1>2
  <2>3. taken' = Upto(n + 1)
    BY <2>1, <2>2, <1>1, UptoShape
  <2>4. Len(taken') = n + 1 /\ n + 1 \in Nat
    BY <2>3, UptoShape
  <2> QED BY <2>2, <2>3, <2>4
<1> QED BY <1>3, <1>4

LEMMA UpInit == ASSUME CarrierAssumption, CarrierInit PROVE UpInv
<1>1. sent = 0 /\ seq = 1 /\ taken = <<>> /\ upState = "idle"
  BY DEF CarrierInit
<1>2. SeqModulus \in Nat \ {0, 1}
  BY DEF CarrierAssumption
<1>3. Upto(0) = <<>>
  BY DEF Upto
<1> QED BY <1>1, <1>2, <1>3 DEF UpInv

LEMMA UpStep == ASSUME CarrierAssumption, UpInv, [CarrierNext]_carrierVars PROVE UpInv'
<1>1. PICK n \in Nat :
         /\ taken = Upto(n)
         /\ n \in {sent - 1, sent}
         /\ upState = "idle" => n = sent /\ (seq = 0 \/ seq = sent + 1)
         /\ upState = "asking" => seq = sent
  BY DEF UpInv
<1>2. sent \in Nat /\ seq \in 0..(SeqModulus - 1) /\ SeqModulus \in Nat \ {0, 1}
  BY DEF UpInv, CarrierAssumption
<1>3. CASE Send
  <2>1. upState = "idle" /\ taken' = taken /\ seq' = seq
    BY <1>3 DEF Send
  <2>2. CASE seq = 0
    BY <2>1, <2>2, <1>1, <1>2, <1>3 DEF Send, UpInv, Upto
  <2>3. CASE seq # 0
    <3>1. upState' = "asking" /\ sent' = sent + 1
      BY <2>3, <1>3 DEF Send
    <3> QED BY <3>1, <2>1, <2>3, <1>1, <1>2 DEF UpInv, Upto
  <2> QED BY <2>2, <2>3
<1>4. CASE UpLost
  <2>1. PICK m \in Nat : m \in {sent - 1, sent} /\ taken' = Upto(m)
    BY <1>4, TakesShape DEF UpLost
  <2>2. upState = "asking" /\ upState' \in {"asking", "failed"} /\ sent' = sent /\ seq' = seq
    BY <1>4 DEF UpLost
  <2> QED BY <2>1, <2>2, <1>1, <1>2 DEF UpInv, Upto
<1>5. CASE UpRefused
  BY <1>1, <1>2, <1>5 DEF UpRefused, UpInv, Upto
<1>6. CASE UpAcknowledged
  <2>1. /\ upState = "asking" /\ upState' = "idle" /\ sent' = sent
        /\ seq' = (seq + 1) % SeqModulus /\ seq <= Len(taken') /\ taken' = RelayTakes(seq)
    BY <1>6 DEF UpAcknowledged, Acknowledges
  <2>2. PICK m \in Nat : m \in {sent - 1, sent} /\ taken' = Upto(m) /\ Len(taken') = m
    BY <2>1, TakesShape
  <2>3. m = sent
    <3>1. seq = sent /\ sent <= m
      BY <2>1, <2>2, <1>1
    <3> QED BY <3>1, <2>2, <1>2
  <2>4. seq' \in 0..(SeqModulus - 1) /\ (seq' = 0 \/ seq' = sent + 1)
    <3>1. seq = sent
      BY <2>1, <1>1
    <3>2. CASE seq + 1 = SeqModulus
      <4>1. SeqModulus % SeqModulus = 0
        BY <1>2
      <4> QED BY <4>1, <3>2, <2>1, <1>2
    <3>3. CASE seq + 1 # SeqModulus
      <4>1. seq + 1 \in 0..(SeqModulus - 1)
        BY <3>3, <1>2
      <4>2. (seq + 1) % SeqModulus = seq + 1
        BY <4>1, <1>2
      <4> QED BY <4>1, <4>2, <3>1, <2>1
    <3> QED BY <3>2, <3>3
  <2> QED BY <2>1, <2>2, <2>3, <2>4, <1>2 DEF UpInv, Upto
<1>7. ASSUME \/ FetchBridgePage \/ PostSession \/ RelayProduces \/ PollLost \/ PollRefused
             \/ PollBatch \/ PollEmpty \/ Deliver \/ RecordTerminal \/ Recv \/ RecvDelivery
             \/ RecvClosed \/ Close
      PROVE  UNCHANGED upVars
  BY <1>7 DEF FetchBridgePage, PostSession, RelayProduces, PollLost, PollRefused, PollBatch,
     PollEmpty, Deliver, RecordTerminal, Recv, RecvDelivery, RecvClosed, Close
<1>8. CASE UNCHANGED upVars
  BY <1>1, <1>2, <1>8 DEF upVars, UpInv, Upto
<1>9. UNCHANGED carrierVars => UNCHANGED upVars
  BY DEF carrierVars
<1> QED BY <1>3, <1>4, <1>5, <1>6, <1>7, <1>8, <1>9 DEF CarrierNext

\* bootstrap.go:271: for sequence numbers of any width and any number of repeated
\* requests and lost answers, the relay holds the batches the writer sent, each once
\* and in order, and after an acknowledgement all of them.
THEOREM UplinkIsTakenOnce == ASSUME CarrierAssumption PROVE CarrierSpec => []UplinkOnce
<1>1. CarrierInit => UpInv
  BY UpInit
<1>2. UpInv /\ [CarrierNext]_carrierVars => UpInv'
  BY UpStep
<1>3. UpInv => UplinkOnce
  BY UptoShape DEF UpInv, UplinkOnce
<1> QED BY <1>1, <1>2, <1>3, PTL DEF CarrierSpec
-----------------------------------------------------------------------------
(* The downlink *)

\* The batches of the inbox, and the whole way of the downlink from the reader back
\* to the cursor.
Batches == IF inbox # <<>> /\ Last(inbox) = Err THEN Front(inbox) ELSE inbox
OnTheWay == IF poller = "delivering" THEN <<cursor>> ELSE <<>>
Handed == received \o Batches \o OnTheWay

Rising(s) == \A i, j \in DOMAIN s : i < j => s[i] < s[j]

DownTypes ==
    /\ cursor \in Nat /\ produced \in Nat /\ cursor <= produced /\ blank \subseteq 1..produced
    /\ inbox \in Seq(0..cursor) /\ received \in Seq(1..cursor)
    /\ closed \in BOOLEAN

\* Only the last delivery of a poller that has ended carries an error; nothing on
\* the way is ahead of the cursor, and all of it is there unless the carrier is closed.
DownInv ==
    /\ DownTypes
    /\ poller = "delivering" => cursor > 0
    /\ \A i \in DOMAIN inbox : inbox[i] = Err => i = Len(inbox) /\ poller = "ended"
    /\ Rising(Handed)
    /\ ~closed => ToSet(Handed) = (1..cursor) \ blank

LEMMA LastFront ==
    ASSUME NEW S, NEW s \in Seq(S), Len(s) > 0
    PROVE  /\ Last(s) = s[Len(s)] /\ Last(s) \in S
           /\ Front(s) \in Seq(S) /\ Len(Front(s)) = Len(s) - 1
           /\ \A i \in 1..(Len(s) - 1) : Front(s)[i] = s[i]
<1>1. Len(s) \in Nat \ {0} /\ \A i \in 1..Len(s) : s[i] \in S
  BY LenProperties, ElementOfSeq
<1>2. Front(s) = SubSeq(s, 1, Len(s) - 1)
  BY DEF Front
<1>3. \A i \in 1..(Len(s) - 1) : s[i] \in S
  BY <1>1
<1>4. 1 \in Int /\ Len(s) - 1 \in Int
  BY <1>1
<1>5. /\ Front(s) \in Seq(S) /\ Len(Front(s)) = (IF 1 <= Len(s) - 1 THEN Len(s) - 1 - 1 + 1 ELSE 0)
      /\ \A i \in 1..(Len(s) - 1 - 1 + 1) : Front(s)[i] = s[1 + i - 1]
  BY <1>2, <1>3, <1>4, SubSeqProperties
<1>6. Len(s) - 1 - 1 + 1 = Len(s) - 1 /\ (~(1 <= Len(s) - 1) => Len(s) - 1 = 0)
  <2>1. \A n \in Nat : n > 0 => n - 1 - 1 + 1 = n - 1 /\ (~(1 <= n - 1) => n - 1 = 0)
    OBVIOUS
  <2> QED BY <2>1, <1>1
<1>7. Len(Front(s)) = Len(s) - 1
  BY <1>5, <1>6
<1>8. \A i \in 1..(Len(s) - 1) : Front(s)[i] = s[i]
  <2> SUFFICES ASSUME NEW i \in 1..(Len(s) - 1) PROVE Front(s)[i] = s[i]
    OBVIOUS
  <2>1. 1 + i - 1 = i
    BY <1>1
  <2> QED BY <2>1, <1>5, <1>6
<1>9. Last(s) = s[Len(s)] /\ Last(s) \in S
  BY <1>1 DEF Last
<1> QED BY <1>5, <1>7, <1>8, <1>9

LEMMA FrontOfAppend ==
    ASSUME NEW S, NEW s \in Seq(S), NEW e \in S
    PROVE  Last(Append(s, e)) = e /\ Front(Append(s, e)) = s
<1>1. /\ Append(s, e) \in Seq(S) /\ Append(s, e) # <<>> /\ Len(Append(s, e)) = Len(s) + 1
      /\ \A i \in 1..Len(s) : Append(s, e)[i] = s[i]
      /\ Append(s, e)[Len(s) + 1] = e /\ Len(s) \in Nat
  BY AppendProperties, LenProperties
<1> DEFINE t == Append(s, e)
<1>a. /\ Last(t) = t[Len(t)] /\ Front(t) \in Seq(S) /\ Len(Front(t)) = Len(t) - 1
      /\ \A i \in 1..(Len(t) - 1) : Front(t)[i] = t[i]
  <2> HIDE DEF t
  <2>1. t \in Seq(S) /\ Len(t) > 0
    BY <1>1 DEF t
  <2> QED BY <2>1, LastFront
<1>2. /\ Front(t) \in Seq(S) /\ Len(Front(t)) = Len(s)
      /\ \A i \in 1..Len(s) : Front(t)[i] = s[i]
      /\ Last(t) = e
  BY <1>1, <1>a
<1> QED BY <1>2, SeqEqual

LEMMA OtherElements ==
    ASSUME NEW S, NEW T, NEW s \in Seq(S), \A i \in 1..Len(s) : s[i] \in T
    PROVE  s \in Seq(T)
<1>1. s \in [1..Len(s) -> S] /\ Len(s) \in Nat
  BY LenProperties
<1>2. s \in [1..Len(s) -> T]
  BY <1>1
<1> QED BY <1>1, <1>2

\* Without its error the inbox holds batches only.
LEMMA BatchesShape ==
    ASSUME DownInv
    PROVE  /\ Batches \in Seq(1..cursor) /\ OnTheWay \in Seq(1..cursor)
           /\ Len(Batches) <= Len(inbox) /\ Len(Batches) >= Len(inbox) - 1
           /\ \A i \in 1..Len(Batches) : Batches[i] = inbox[i]
           /\ inbox = <<>> \/ Last(inbox) # Err => Batches = inbox
           /\ inbox # <<>> /\ Last(inbox) = Err => Len(Batches) = Len(inbox) - 1
<1>1. /\ cursor \in Nat /\ inbox \in Seq(0..cursor) /\ Len(inbox) \in Nat
      /\ \A i \in 1..Len(inbox) : inbox[i] \in 0..cursor
      /\ DOMAIN inbox = 1..Len(inbox)
      /\ \A i \in 1..Len(inbox) : inbox[i] = Err => i = Len(inbox)
  BY LenProperties, ElementOfSeq DEF DownInv, DownTypes
<1>a. cursor \in Nat /\ Len(inbox) \in Nat /\ Len(inbox) - 1 <= Len(inbox)
      /\ (inbox # <<>> => Len(inbox) > 0)
  <2>1. cursor \in Nat /\ Len(inbox) \in Nat
    BY <1>1
  <2>2. inbox # <<>> => Len(inbox) # 0
    BY <1>1, EmptySeq
  <2> QED BY <2>1, <2>2
<1>2. OnTheWay \in Seq(1..cursor)
  <2>1. poller = "delivering" => cursor > 0
    BY DEF DownInv
  <2>2. cursor > 0 => cursor \in 1..cursor
    BY <1>a
  <2>3. cursor > 0 => <<cursor>> \in Seq(1..cursor)
    BY <2>2
  <2> QED BY <2>1, <2>3, EmptySeq DEF OnTheWay
<1>3. CASE inbox # <<>> /\ Last(inbox) = Err
  <2>1. /\ Batches = Front(inbox) /\ Batches \in Seq(0..cursor) /\ Len(Batches) = Len(inbox) - 1
        /\ \A i \in 1..(Len(inbox) - 1) : Batches[i] = inbox[i]
    BY <1>3, <1>1, <1>a, LastFront DEF Batches
  <2>2. \A i \in 1..Len(Batches) : Batches[i] \in 1..cursor
    BY <2>1, <1>1 DEF Err
  <2>3. Batches \in Seq(1..cursor)
    BY <2>1, <2>2, OtherElements
  <2> QED BY <1>a, <1>2, <1>3, <2>1, <2>3
<1>4. CASE inbox = <<>> \/ Last(inbox) # Err
  <2>1. Batches = inbox
    BY <1>4 DEF Batches
  <2>2. \A i \in 1..Len(inbox) : inbox[i] \in 1..cursor
    <3> SUFFICES ASSUME NEW i \in 1..Len(inbox) PROVE inbox[i] \in 1..cursor
      OBVIOUS
    <3>1. inbox # <<>> /\ Len(inbox) > 0
      BY <1>a, EmptySeq
    <3>2. Last(inbox) = inbox[Len(inbox)] /\ Last(inbox) # Err
      BY <3>1, <1>1, <1>4, LastFront
    <3>3. inbox[i] # Err /\ inbox[i] \in 0..cursor
      BY <3>2, <1>1
    <3> QED BY <3>3, <1>a DEF Err
  <2>3. inbox \in Seq(1..cursor)
    BY <2>2, <1>1, OtherElements
  <2>4. Len(inbox) <= Len(inbox) /\ \A i \in 1..Len(inbox) : Batches[i] = inbox[i]
    BY <2>1, <1>a
  <2> QED BY <1>a, <1>2, <1>4, <2>1, <2>3, <2>4
<1> QED BY <1>3, <1>4

LEMMA HandedShape ==
    ASSUME DownInv
    PROVE  /\ Handed \in Seq(1..cursor)
           /\ Handed = received \o (Batches \o OnTheWay)
<1>1. received \in Seq(1..cursor) /\ Batches \in Seq(1..cursor) /\ OnTheWay \in Seq(1..cursor)
  BY BatchesShape DEF DownInv, DownTypes
<1>2. received \o Batches \in Seq(1..cursor) /\ (received \o Batches) \o OnTheWay \in Seq(1..cursor)
  BY <1>1, ConcatProperties
<1>3. (received \o Batches) \o OnTheWay = received \o (Batches \o OnTheWay)
  BY <1>1, ConcatAssociative
<1>4. Handed = (received \o Batches) \o OnTheWay
  BY DEF Handed
<1> QED BY <1>2, <1>3, <1>4

\* What moves no batch keeps the invariant.
LEMMA NothingMoves ==
    ASSUME DownInv, UNCHANGED <<inbox, received, cursor, produced, blank>>,
           closed' \in BOOLEAN, closed => closed',
           \/ poller' = poller
           \/ poller \notin {"delivering", "ended"} /\ poller' \notin {"delivering", "ended"}
    PROVE  DownInv'
<1>1. OnTheWay' = OnTheWay /\ Batches' = Batches
  BY DEF OnTheWay, Batches
<1>2. Handed' = Handed
  BY <1>1 DEF Handed
<1> QED BY <1>2 DEF DownInv, DownTypes, Rising, ToSet

\* A batch at the end of the way, with a number above all others.
LEMMA RisingAppend ==
    ASSUME NEW n \in Nat, NEW s \in Seq(1..n), Rising(s), NEW m \in Nat, m > n
    PROVE  Rising(Append(s, m)) /\ ToSet(Append(s, m)) = ToSet(s) \cup {m}
<1>1. /\ Len(s) \in Nat /\ DOMAIN s = 1..Len(s) /\ s \in Seq(1..m)
      /\ \A i \in 1..Len(s) : s[i] \in 1..n
  <2>1. 1..n \subseteq 1..m
    OBVIOUS
  <2> QED BY <2>1, LenProperties, ElementOfSeq, SeqMonotonic
<1> DEFINE t == Append(s, m)
<1>2. /\ t \in Seq(1..m) /\ Len(t) = Len(s) + 1 /\ t[Len(s) + 1] = m
      /\ \A i \in 1..Len(s) : t[i] = s[i]
  <2>1. m \in 1..m
    OBVIOUS
  <2> QED BY <2>1, <1>1, AppendProperties
<1>3. DOMAIN t = 1..(Len(s) + 1)
  BY <1>2, LenProperties
<1> HIDE DEF t
<1>4. ASSUME NEW i \in DOMAIN t, NEW j \in DOMAIN t, i < j PROVE t[i] < t[j]
  <2>1. i \in 1..Len(s) /\ t[i] = s[i]
    BY <1>1, <1>2, <1>3, <1>4
  <2>2. CASE j = Len(s) + 1
    BY <2>1, <2>2, <1>1, <1>2
  <2>3. CASE j # Len(s) + 1
    <3>1. j \in 1..Len(s) /\ t[j] = s[j]
      BY <2>3, <1>1, <1>2, <1>3
    <3> QED BY <3>1, <2>1, <1>1, <1>4 DEF Rising
  <2> QED BY <2>2, <2>3
<1>5. DOMAIN t = DOMAIN s \cup {Len(s) + 1}
  BY <1>1, <1>3
<1>6. ToSet(t) = ToSet(s) \cup {m}
  BY <1>1, <1>2, <1>5 DEF ToSet
<1> QED BY <1>4, <1>6 DEF Rising, t

LEMMA PollBatchStep == ASSUME DownInv, PollBatch PROVE DownInv'
<1> DEFINE next == cursor'
<1>1. /\ poller = "asking" /\ poller' = "delivering"
      /\ next \in (cursor + 1)..produced \ blank /\ (cursor + 1)..(next - 1) \subseteq blank
      /\ UNCHANGED <<inbox, received, produced, blank, closed>>
  BY DEF PollBatch, relayVars, readVars
<1>2. cursor \in Nat /\ produced \in Nat /\ inbox \in Seq(0..cursor) /\ received \in Seq(1..cursor)
  BY DEF DownInv, DownTypes
<1>a. next \in Nat /\ next > cursor /\ next <= produced /\ next \in 1..next
  BY <1>1, <1>2
<1>3. DownTypes'
  <2>1. 0..cursor \subseteq 0..next /\ 1..cursor \subseteq 1..next
    BY <1>2, <1>a
  <2>2. inbox \in Seq(0..next) /\ received \in Seq(1..next)
    BY <2>1, <1>2, SeqMonotonic
  <2> QED BY <2>2, <1>1, <1>2, <1>a DEF DownInv, DownTypes
<1>4. Batches' = Batches /\ OnTheWay = <<>> /\ OnTheWay' = <<next>>
  BY <1>1 DEF Batches, OnTheWay
<1>5. received \o Batches \in Seq(1..cursor) /\ Handed = received \o Batches
  <2>1. received \o Batches \in Seq(1..cursor)
    BY <1>2, BatchesShape, ConcatProperties
  <2> QED BY <2>1, <1>4, ConcatEmptySeq DEF Handed
<1>6. Handed' = Append(Handed, next)
  <2>1. Handed' = (received \o Batches) \o <<next>>
    BY <1>1, <1>4 DEF Handed
  <2>2. received \o Batches \in Seq(1..next)
    <3>1. 1..cursor \subseteq 1..next
      BY <1>2, <1>a
    <3> QED BY <3>1, <1>5, SeqMonotonic
  <2>3. Append(received \o Batches, next) = (received \o Batches) \o <<next>>
    BY <2>2, <1>a, AppendIsConcat
  <2> QED BY <2>1, <2>3, <1>5
<1>7. Rising(Handed') /\ ToSet(Handed') = ToSet(Handed) \cup {next}
  <2>1. Handed \in Seq(1..cursor) /\ Rising(Handed)
    BY HandedShape DEF DownInv
  <2> HIDE DEF next
  <2> QED BY <2>1, <1>6, <1>2, <1>a, RisingAppend
<1>8. ~closed' => ToSet(Handed') = (1..next) \ blank
  <2>1. (1..next) \ blank = ((1..cursor) \ blank) \cup {next}
    <3>1. 1..next = 1..cursor \cup (cursor + 1)..(next - 1) \cup {next}
      BY <1>2, <1>a
    <3> QED BY <3>1, <1>1
  <2> QED BY <2>1, <1>1, <1>7 DEF DownInv
<1>9. \A i \in DOMAIN inbox' : inbox'[i] # Err
  BY <1>1 DEF DownInv
<1> QED BY <1>1, <1>3, <1>7, <1>8, <1>9, <1>a DEF DownInv, Rising, ToSet

\* An empty answer moves the cursor over positions that hold no batch.
LEMMA PollEmptyStep == ASSUME DownInv, PollEmpty PROVE DownInv'
<1> DEFINE next == cursor'
<1>1. /\ poller = "asking" /\ poller' \in {"asking", "failing"}
      /\ (cursor + 1)..produced \subseteq blank
      /\ UNCHANGED <<inbox, received, produced, blank, closed>>
      /\ next = cursor \/ next \in cursor..produced
  BY DEF PollEmpty, PollFails, relayVars, readVars
<1>2. /\ cursor \in Nat /\ produced \in Nat /\ cursor <= produced
      /\ inbox \in Seq(0..cursor) /\ received \in Seq(1..cursor)
  BY DEF DownInv, DownTypes
<1>3. next \in Nat /\ next >= cursor /\ next <= produced
  BY <1>1, <1>2
<1>4. DownTypes'
  <2>1. 0..cursor \subseteq 0..next /\ 1..cursor \subseteq 1..next
    BY <1>2, <1>3
  <2>2. inbox \in Seq(0..next) /\ received \in Seq(1..next)
    BY <2>1, <1>2, SeqMonotonic
  <2> QED BY <2>2, <1>1, <1>2, <1>3 DEF DownInv, DownTypes
<1>5. Handed' = Handed
  <2>1. OnTheWay' = OnTheWay /\ Batches' = Batches
    BY <1>1 DEF OnTheWay, Batches
  <2> QED BY <2>1, <1>1 DEF Handed
<1>6. (1..next) \ blank = (1..cursor) \ blank
  BY <1>1, <1>2, <1>3
<1> QED BY <1>1, <1>4, <1>5, <1>6 DEF DownInv, Rising, ToSet

\* The last batch is dropped from the way: only a closed carrier does it.
LEMMA RisingPrefix ==
    ASSUME NEW S, NEW s \in Seq(S), NEW t \in Seq(S), Rising(s \o t)
    PROVE  Rising(s)
<1>1. /\ Len(s) \in Nat /\ Len(t) \in Nat /\ DOMAIN s = 1..Len(s)
      /\ s \o t \in Seq(S) /\ Len(s \o t) = Len(s) + Len(t)
      /\ \A i \in 1..(Len(s) + Len(t)) : (s \o t)[i] = IF i <= Len(s) THEN s[i] ELSE t[i - Len(s)]
  BY LenProperties, ConcatProperties
<1>2. DOMAIN (s \o t) = 1..(Len(s) + Len(t))
  BY <1>1, LenProperties
<1>3. \A i \in DOMAIN s : i \in DOMAIN (s \o t) /\ (s \o t)[i] = s[i]
  BY <1>1, <1>2
<1> QED BY <1>3 DEF Rising

LEMMA DeliverStep == ASSUME DownInv, Deliver PROVE DownInv'
<1>1. UNCHANGED <<cursor, received, produced, blank, closed>>
  BY DEF Deliver, relayVars, readVars
<1>2. /\ cursor \in Nat /\ inbox \in Seq(0..cursor) /\ received \in Seq(1..cursor)
      /\ Batches \in Seq(1..cursor) /\ DOMAIN inbox = 1..Len(inbox) /\ Len(inbox) \in Nat
  BY BatchesShape, LenProperties DEF DownInv, DownTypes
<1>3. poller \in {"delivering", "failing"} /\ poller' \in {"asking", "ended"}
  BY DEF Deliver
<1>4. \A i \in DOMAIN inbox : inbox[i] # Err
  BY <1>3 DEF DownInv
<1>5. Batches = inbox
  <2>1. ASSUME inbox # <<>>
        PROVE  Last(inbox) = inbox[Len(inbox)] /\ Len(inbox) \in DOMAIN inbox
    <3>1. Len(inbox) \in Nat \ {0}
      BY <2>1, <1>2, EmptySeq
    <3>2. Len(inbox) > 0 /\ Len(inbox) \in 1..Len(inbox)
      BY <3>1
    <3>3. Last(inbox) = inbox[Len(inbox)]
      BY <3>2, <1>2, LastFront
    <3> QED BY <3>2, <3>3, <1>2
  <2> QED BY <2>1, <1>4 DEF Batches
<1>6. OnTheWay' = <<>>
  BY <1>3 DEF OnTheWay
<1>7. CASE inbox' = Append(inbox, cursor) /\ poller = "delivering"
  <2>1. cursor \in 1..cursor /\ cursor # Err /\ 1..cursor \subseteq 0..cursor
    BY <1>7, <1>2 DEF DownInv, Err
  <2>2. /\ inbox' \in Seq(0..cursor) /\ inbox' # <<>> /\ Len(inbox') = Len(inbox) + 1
        /\ \A i \in 1..Len(inbox) : inbox'[i] = inbox[i]
        /\ inbox'[Len(inbox) + 1] = cursor
    <3>1. cursor \in 0..cursor /\ inbox \in Seq(0..cursor) /\ inbox' = Append(inbox, cursor)
      BY <2>1, <1>2, <1>7
    <3> DEFINE longer == Append(inbox, cursor)
    <3>2. /\ longer \in Seq(0..cursor) /\ longer # <<>> /\ Len(longer) = Len(inbox) + 1
          /\ \A i \in 1..Len(inbox) : longer[i] = inbox[i]
          /\ longer[Len(inbox) + 1] = cursor
      BY <3>1, AppendProperties
    <3> QED BY <3>1, <3>2, Zenon
  <2>3. DOMAIN inbox' = 1..(Len(inbox) + 1)
    BY <2>2, LenProperties
  <2>4. ASSUME NEW i \in DOMAIN inbox' PROVE inbox'[i] # Err
    <3>1. i = Len(inbox) + 1 \/ i \in 1..Len(inbox)
      BY <2>3, <1>2
    <3> QED BY <3>1, <2>1, <2>2, <1>2, <1>4
  <2>5. Last(inbox') = cursor
    BY <2>1, <1>2, <1>7, FrontOfAppend
  <2>6. Batches' = inbox'
    BY <2>5, <2>1 DEF Batches, Err
  <2>7. Handed' = Handed
    <3>1. OnTheWay = <<cursor>> /\ inbox \in Seq(1..cursor)
      BY <1>7, <1>2, <1>5 DEF OnTheWay
    <3>2. inbox' = inbox \o <<cursor>>
      BY <3>1, <2>1, <1>7, AppendIsConcat
    <3>3. <<cursor>> \in Seq(1..cursor) /\ inbox \o <<cursor>> \in Seq(1..cursor)
      BY <3>1, <2>1, ConcatProperties
    <3>4. Handed' = received \o (inbox \o <<cursor>>)
      <4>1. Handed' = (received \o inbox') \o <<>>
        BY <1>1, <1>6, <2>6 DEF Handed
      <4>2. received \o (inbox \o <<cursor>>) \in Seq(1..cursor)
        BY <1>2, <3>3, ConcatProperties
      <4> QED BY <4>1, <4>2, <3>2, ConcatEmptySeq
    <3>5. Handed = received \o (inbox \o <<cursor>>)
      BY <3>1, <1>5, HandedShape
    <3> QED BY <3>4, <3>5
  <2> QED BY <1>1, <1>2, <1>3, <2>2, <2>4, <2>7 DEF DownInv, DownTypes, Rising, ToSet
<1>8. CASE inbox' = Append(inbox, Err) /\ poller = "failing"
  <2>1. Err \in 0..cursor /\ poller' = "ended"
    <3>1. poller' = "ended"
      BY <1>8 DEF Deliver
    <3>2. Err \in 0..cursor
      BY <1>2 DEF Err
    <3> QED BY <3>1, <3>2
  <2>2. /\ inbox' \in Seq(0..cursor) /\ inbox' # <<>> /\ Len(inbox') = Len(inbox) + 1
        /\ \A i \in 1..Len(inbox) : inbox'[i] = inbox[i]
    <3>1. Err \in 0..cursor /\ inbox \in Seq(0..cursor) /\ inbox' = Append(inbox, Err)
      BY <2>1, <1>2, <1>8
    <3> QED BY <3>1, AppendProperties
  <2>3. DOMAIN inbox' = 1..(Len(inbox) + 1)
    BY <2>2, LenProperties
  <2>4. ASSUME NEW i \in DOMAIN inbox', inbox'[i] = Err PROVE i = Len(inbox')
    <3>1. i = Len(inbox) + 1 \/ i \in 1..Len(inbox)
      BY <2>3, <1>2
    <3> QED BY <3>1, <2>2, <2>4, <1>2, <1>4
  <2>5. Last(inbox') = Err /\ Front(inbox') = inbox
    BY <2>1, <1>2, <1>8, FrontOfAppend
  <2>6. Batches' = Batches /\ OnTheWay = <<>>
    BY <2>5, <2>2, <1>5, <1>8 DEF Batches, OnTheWay
  <2>7. Handed' = Handed
    BY <2>6, <1>1, <1>6 DEF Handed
  <2> QED BY <1>1, <1>2, <2>1, <2>2, <2>4, <2>7 DEF DownInv, DownTypes, Rising, ToSet
<1>9. CASE closed /\ inbox' = inbox
  <2>1. Batches' = Batches
    BY <1>9 DEF Batches
  <2>2. received \o Batches \in Seq(1..cursor) /\ OnTheWay \in Seq(1..cursor)
    BY <1>2, BatchesShape, ConcatProperties
  <2>3. Handed' = received \o Batches
    <3>1. Handed' = (received \o Batches) \o <<>>
      BY <2>1, <1>1, <1>6 DEF Handed
    <3> QED BY <3>1, <2>2, ConcatEmptySeq
  <2>4. Rising(received \o Batches)
    <3>1. Rising((received \o Batches) \o OnTheWay)
      BY DEF DownInv, Handed
    <3> QED BY <3>1, <2>2, RisingPrefix
  <2> QED BY <1>1, <1>3, <1>4, <1>9, <2>3, <2>4 DEF DownInv, DownTypes, Rising, ToSet
<1>10. \/ inbox' = Append(inbox, cursor) /\ poller = "delivering"
       \/ inbox' = Append(inbox, Err) /\ poller = "failing"
       \/ closed /\ inbox' = inbox
  BY <1>3 DEF Deliver
<1> QED BY <1>7, <1>8, <1>9, <1>10

LEMMA RecvDeliveryStep == ASSUME DownInv, RecvDelivery PROVE DownInv'
<1>1. /\ inbox # <<>> /\ inbox' = Tail(inbox)
      /\ UNCHANGED <<cursor, produced, blank, closed, poller>>
  BY DEF RecvDelivery, relayVars, pollVars
<1>2. /\ cursor \in Nat /\ inbox \in Seq(0..cursor) /\ received \in Seq(1..cursor)
      /\ Batches \in Seq(1..cursor) /\ OnTheWay \in Seq(1..cursor)
      /\ DOMAIN inbox = 1..Len(inbox) /\ Len(inbox) \in Nat \ {0}
  BY <1>1, BatchesShape, LenProperties, EmptySeq DEF DownInv, DownTypes
<1>a. Len(inbox) > 0 /\ Len(inbox) \in Nat
  BY <1>2
<1>3. /\ inbox' \in Seq(0..cursor) /\ Len(inbox') = Len(inbox) - 1
      /\ \A i \in 1..(Len(inbox) - 1) : inbox'[i] = inbox[i + 1]
      /\ DOMAIN inbox' = 1..(Len(inbox) - 1)
  BY <1>1, <1>2, HeadTailProperties, LenProperties
<1>4. \A i \in DOMAIN inbox' : inbox'[i] = Err => i = Len(inbox') /\ poller' = "ended"
  <2> SUFFICES ASSUME NEW i \in DOMAIN inbox', inbox'[i] = Err
               PROVE  i = Len(inbox') /\ poller' = "ended"
    OBVIOUS
  <2>1. i + 1 \in DOMAIN inbox /\ inbox[i + 1] = Err /\ i \in Int
    BY <1>2, <1>3
  <2> QED BY <2>1, <1>1, <1>2, <1>3 DEF DownInv
<1>5. OnTheWay' = OnTheWay
  BY <1>1 DEF OnTheWay
<1>6. Head(inbox) = inbox[1] /\ 1 \in DOMAIN inbox
  BY <1>2
<1>7. CASE Head(inbox) = Err
  <2>1. Len(inbox) = 1
    BY <1>6, <1>7 DEF DownInv
  <2>2. inbox' = <<>>
    BY <2>1, <1>3, EmptySeq
  <2>3. Last(inbox) = Err
    <3>1. Last(inbox) = inbox[Len(inbox)]
      BY <1>a, <1>2, LastFront
    <3> QED BY <3>1, <2>1, <1>6, <1>7
  <2>4. Len(Batches) = 0
    BY <2>1, <2>3, <1>1, BatchesShape
  <2>5. Batches' = <<>> /\ Batches = <<>>
    BY <2>2, <2>4, <1>2, EmptySeq DEF Batches
  <2>6. received' = received
    BY <1>7 DEF RecvDelivery
  <2>7. Handed' = Handed
    BY <2>5, <2>6, <1>5 DEF Handed
  <2> QED BY <1>1, <1>2, <1>3, <1>4, <2>6, <2>7 DEF DownInv, DownTypes, Rising, ToSet
<1>8. CASE Head(inbox) # Err
  <2>1. received' = Append(received, Head(inbox)) /\ Head(inbox) \in 1..cursor
    BY <1>2, <1>6, <1>8, ElementOfSeq DEF RecvDelivery, Err
  <2>2. received' \in Seq(1..cursor)
    BY <2>1, <1>2, AppendProperties
  <2>3. Batches # <<>> /\ Head(Batches) = Head(inbox) /\ Batches' = Tail(Batches)
    <3> DEFINE n == Len(inbox)
    <3>1. Last(inbox) = inbox[n]
      BY <1>a, <1>2, LastFront
    <3>2. CASE Last(inbox) = Err
      <4>1. n > 1
        <5>1. n # 1
          BY <3>1, <3>2, <1>6, <1>8
        <5> QED BY <5>1, <1>2
      <4>2. /\ Len(Batches) = n - 1 /\ \A i \in 1..(n - 1) : Batches[i] = inbox[i]
        BY <3>2, <1>1, BatchesShape
      <4>3. Batches # <<>> /\ Head(Batches) = Batches[1] /\ Batches[1] = Head(inbox)
        <5>1. Len(Batches) # 0 /\ 1 \in 1..(n - 1)
          BY <4>1, <4>2, <1>a
        <5>2. Batches # <<>>
          BY <5>1, EmptySeq
        <5> QED BY <5>1, <5>2, <4>2, <1>6
      <4>4. /\ Tail(Batches) \in Seq(1..cursor) /\ Len(Tail(Batches)) = n - 2
            /\ \A i \in 1..(n - 2) : Tail(Batches)[i] = Batches[i + 1]
        BY <4>1, <4>2, <4>3, <1>2, HeadTailProperties
      <4>5. inbox' # <<>> /\ Len(inbox') = n - 1 /\ inbox'[n - 1] = inbox[n]
        <5>1. n - 1 \in 1..(n - 1) /\ n - 1 + 1 = n
          BY <4>1, <1>2
        <5> QED BY <5>1, <1>3, EmptySeq
      <4>6. /\ Last(inbox') = Err /\ Front(inbox') \in Seq(0..cursor) /\ Len(Front(inbox')) = n - 2
            /\ \A i \in 1..(n - 2) : Front(inbox')[i] = inbox'[i]
        <5> DEFINE t == inbox'
        <5>1. t \in Seq(0..cursor) /\ Len(t) = n - 1 /\ t[n - 1] = Err
          BY <4>5, <3>1, <3>2, <1>3
        <5>2. Len(t) > 0 /\ n - 1 - 1 = n - 2
          BY <5>1, <4>1, <1>a
        <5> HIDE DEF t
        <5>3. /\ Last(t) = t[Len(t)] /\ Front(t) \in Seq(0..cursor) /\ Len(Front(t)) = Len(t) - 1
              /\ \A i \in 1..(Len(t) - 1) : Front(t)[i] = t[i]
          BY <5>1, <5>2, LastFront
        <5> QED BY <5>1, <5>2, <5>3 DEF t
      <4>7. Batches' = Front(inbox')
        BY <4>5, <4>6 DEF Batches
      <4>8. \A i \in 1..(n - 2) : Front(inbox')[i] = Tail(Batches)[i]
        <5> SUFFICES ASSUME NEW i \in 1..(n - 2) PROVE Front(inbox')[i] = Tail(Batches)[i]
          OBVIOUS
        <5>1. i \in 1..(n - 1) /\ i + 1 \in 1..(n - 1)
          BY <1>2
        <5> QED BY <5>1, <4>2, <4>4, <4>6, <1>3
      <4>9. Tail(Batches) \in Seq(0..cursor)
        <5>1. 1..cursor \subseteq 0..cursor
          BY <1>2
        <5> QED BY <5>1, <4>4, SeqMonotonic
      <4>10. Front(inbox') = Tail(Batches)
        BY <4>4, <4>6, <4>8, <4>9, SeqEqual
      <4> QED BY <4>3, <4>7, <4>10
    <3>3. CASE Last(inbox) # Err
      <4>1. Batches = inbox
        BY <3>3 DEF Batches
      <4>2. inbox' # <<>> => Last(inbox') = inbox[n]
        <5> SUFFICES ASSUME inbox' # <<>> PROVE Last(inbox') = inbox[n]
          OBVIOUS
        <5>1. Last(inbox') = inbox'[n - 1] /\ n - 1 \in 1..(n - 1)
          <6> DEFINE t == inbox'
          <6>1. t \in Seq(0..cursor) /\ Len(t) = n - 1 /\ t # <<>>
            BY <1>3
          <6>2. Len(t) > 0 /\ n - 1 \in 1..(n - 1)
            BY <6>1, <1>a, EmptySeq
          <6> HIDE DEF t
          <6>3. Last(t) = t[Len(t)]
            BY <6>1, <6>2, LastFront
          <6> QED BY <6>1, <6>2, <6>3 DEF t
        <5>2. n - 1 + 1 = n
          BY <1>a
        <5> QED BY <5>1, <5>2, <1>3
      <4>3. Batches' = inbox'
        BY <4>2, <3>1, <3>3 DEF Batches
      <4> QED BY <4>1, <4>3, <1>1
    <3> QED BY <3>2, <3>3
  <2>4. received' \o Batches' = received \o Batches
    <3>1. /\ Tail(Batches) \in Seq(1..cursor) /\ <<Head(inbox)>> \in Seq(1..cursor)
          /\ Head(Batches) \in 1..cursor
      BY <2>1, <2>3, <1>2, HeadTailProperties
    <3>2. received' = received \o <<Head(inbox)>>
      BY <2>1, <1>2, AppendIsConcat
    <3>3. received' \o Batches' = received \o (<<Head(inbox)>> \o Tail(Batches))
      <4>1. received \in Seq(1..cursor) /\ received' \o Batches' = (received \o <<Head(inbox)>>) \o Tail(Batches)
        BY <3>2, <2>3, <1>2
      <4> QED BY <4>1, <3>1, ConcatAssociative
    <3>4. <<Head(inbox)>> \o Tail(Batches) = Batches
      <4>1. Len(Batches) \in Nat \ {0} /\ Head(Batches) = Batches[1]
        BY <2>3, <1>2, EmptySeq
      <4> QED BY <4>1, <3>1, <2>3, <1>2, SubSeqRecursiveFirst, SubSeqFull, TailIsSubSeq
    <3> QED BY <3>3, <3>4
  <2>5. Handed' = Handed
    BY <2>4, <1>5 DEF Handed
  <2> QED BY <1>1, <1>2, <1>3, <1>4, <2>2, <2>5 DEF DownInv, DownTypes, Rising, ToSet
<1> QED BY <1>7, <1>8

LEMMA DownInit == ASSUME CarrierInit PROVE DownInv
<1>1. /\ cursor = 0 /\ produced = 0 /\ blank = {} /\ inbox = <<>> /\ received = <<>> /\ closed = FALSE
      /\ poller = "off"
  BY DEF CarrierInit
<1>2. Batches = <<>> /\ OnTheWay = <<>>
  BY <1>1 DEF Batches, OnTheWay
<1>3. Handed = <<>>
  BY <1>1, <1>2 DEF Handed
<1>4. ToSet(<<>>) = {} /\ 1..0 = {}
  BY DEF ToSet
<1>5. Rising(<<>>) /\ DOMAIN inbox = {}
  BY <1>1 DEF Rising
<1>6. inbox \in Seq(0..cursor) /\ received \in Seq(1..cursor)
  BY <1>1, EmptySeq
<1>7. DownTypes
  <2>1. cursor \in Nat /\ produced \in Nat /\ cursor <= produced
    BY <1>1
  <2>3. closed \in BOOLEAN
    BY <1>1
  <2>2. blank \subseteq 1..produced
    BY <1>1
  <2> QED BY <1>6, <2>1, <2>2, <2>3 DEF DownTypes
<1>8. Rising(Handed) /\ ToSet(Handed) = (1..cursor) \ blank
  BY <1>1, <1>3, <1>4, <1>5
<1> QED BY <1>1, <1>5, <1>7, <1>8 DEF DownInv

LEMMA DownStep == ASSUME DownInv, [CarrierNext]_carrierVars PROVE DownInv'
<1>1. CASE PollBatch
  BY <1>1, PollBatchStep
<1>2. CASE Deliver
  BY <1>2, DeliverStep
<1>3. CASE RecvDelivery
  BY <1>3, RecvDeliveryStep
<1>4. closed \in BOOLEAN /\ produced \in Nat
  BY DEF DownInv, DownTypes
<1>5. CASE RelayProduces
  <2>1. /\ UNCHANGED <<inbox, received, cursor, closed, poller>>
        /\ \/ UNCHANGED <<produced, blank>>
           \/ produced' = produced + 1 /\ blank' \in {blank, blank \cup {produced + 1}}
    BY <1>5 DEF RelayProduces, pollVars, readVars
  <2>2. /\ cursor \in Nat /\ produced \in Nat /\ cursor <= produced /\ blank \subseteq 1..produced
    BY DEF DownInv, DownTypes
  <2>3. /\ produced' \in Nat /\ cursor <= produced' /\ blank' \subseteq 1..produced'
        /\ (1..cursor) \ blank' = (1..cursor) \ blank
    <3>1. CASE UNCHANGED <<produced, blank>>
      BY <3>1, <2>2
    <3>2. CASE produced' = produced + 1 /\ blank' \in {blank, blank \cup {produced + 1}}
      <4>1. produced + 1 \in Nat /\ cursor <= produced + 1 /\ produced + 1 \notin 1..cursor
            /\ 1..produced \subseteq 1..(produced + 1) /\ produced + 1 \in 1..(produced + 1)
        BY <2>2
      <4> QED BY <3>2, <4>1, <2>2
    <3> QED BY <3>1, <3>2, <2>1
  <2>4. DownTypes'
    BY <2>1, <2>3 DEF DownInv, DownTypes
  <2>5. Handed' = Handed
    BY <2>1 DEF Handed, Batches, OnTheWay
  <2> QED BY <2>1, <2>3, <2>4, <2>5 DEF DownInv, Rising, ToSet
<1>a. CASE PollEmpty
  BY <1>a, PollEmptyStep
<1>6. CASE PollLost \/ PollRefused
  <2>1. UNCHANGED <<inbox, received, cursor, produced, blank, closed>>
    BY <1>6 DEF PollLost, PollRefused, PollFails, relayVars, readVars
  <2>2. poller = "asking" /\ poller' \in {"asking", "failing"}
    BY <1>6 DEF PollLost, PollRefused, PollFails
  <2> QED BY <2>1, <2>2, <1>4, NothingMoves
<1>7. CASE Recv
  <2>1. UNCHANGED <<inbox, received, cursor, produced, blank, closed>>
    BY <1>7 DEF Recv, relayVars
  <2>2. poller' = poller \/ (poller = "off" /\ poller' = "asking")
    BY <1>7 DEF Recv
  <2> QED BY <2>1, <2>2, <1>4, NothingMoves
<1>8. CASE Close
  <2>1. closed' = TRUE /\ UNCHANGED <<inbox, received, cursor, produced, blank, poller>>
    BY <1>8 DEF Close, relayVars, pollVars, readVars
  <2> QED BY <2>1, <1>4, NothingMoves
<1>9. CASE \/ FetchBridgePage \/ PostSession \/ Send \/ UpLost \/ UpRefused \/ UpAcknowledged
           \/ RecordTerminal \/ RecvClosed \/ UNCHANGED carrierVars
  <2>1. UNCHANGED <<inbox, received, cursor, produced, blank, closed, poller>>
    BY <1>9 DEF FetchBridgePage, PostSession, Send, UpLost, UpRefused, UpAcknowledged,
       RecordTerminal, RecvClosed, carrierVars, relayVars, pollVars, readVars
  <2> QED BY <2>1, <1>4, NothingMoves
<1> QED BY <1>1, <1>2, <1>3, <1>5, <1>6, <1>7, <1>8, <1>9, <1>a DEF CarrierNext

\* carrier.go:426: whatever answers are lost, however often a poll is repeated, however
\* the relay's cursor moves and however large the inbox, every batch the cursor has passed has been read by the
\* session, is queued for it or is being delivered, once and in order; only a
\* carrier that was closed may leave one out.
THEOREM DownlinkIsHandedOnce == CarrierSpec => []DownlinkOnce
<1>1. CarrierInit => DownInv
  BY DownInit
<1>2. DownInv /\ [CarrierNext]_carrierVars => DownInv'
  BY DownStep
<1>3. DownInv => DownlinkOnce
  <2>1. DownInv => Rising(Handed) /\ (~closed => ToSet(Handed) = (1..cursor) \ blank)
    BY DEF DownInv
  <2> QED BY <2>1 DEF DownlinkOnce, Rising, Handed, Batches, OnTheWay
<1> QED BY <1>1, <1>2, <1>3, PTL DEF CarrierSpec
=============================================================================
