---------------------------- MODULE ClaimLedger ----------------------------
(***************************************************************************)
(* What the claim protocol of the media table promises its users, without  *)
(* feeder, channel, workers or ladder: a row that still owes a download is *)
(* claimed by moving it to downloading, only a claimed row is charged or   *)
(* settled, and a claim given up without a verdict leaves the row exactly  *)
(* as it is, for crash recovery to requeue.  Once claiming is over, and    *)
(* every claim given back, done rows may be revisited, one at a time; a    *)
(* revisited row is charged and settled like a claimed one.                *)
(***************************************************************************)
EXTENDS Naturals

CONSTANTS Items, RetryMax

VARIABLES status, attempts, owned, closed

ledgerVars == <<status, attempts, owned, closed>>

Open(i) == status[i] \in {"queued", "failed"} /\ attempts[i] < RetryMax

Init == owned = {} /\ ~closed

Claim(S) ==
    /\ ~closed
    /\ S \subseteq Items
    /\ \A i \in S : Open(i) /\ i \notin owned
    /\ owned' = owned \cup S
    /\ status' = [i \in Items |-> IF i \in S THEN "downloading" ELSE status[i]]
    /\ UNCHANGED <<attempts, closed>>

\* One more attempt is written down; the claim stays.
Charge(i, n) ==
    /\ i \in owned
    /\ attempts' = [attempts EXCEPT ![i] = n]
    /\ UNCHANGED <<status, owned, closed>>

\* A verdict; "downloading" is the interrupted row, which must come back free
\* of charge.
Settle(i, s, n) ==
    /\ i \in owned
    /\ s \in {"done", "failed", "downloading"}
    /\ s = "downloading" => n = 0
    /\ status' = [status EXCEPT ![i] = s]
    /\ attempts' = [attempts EXCEPT ![i] = n]
    /\ owned' = owned \ {i}
    /\ UNCHANGED closed

\* Cancelled before a verdict, or the verdict could not be written.
GiveUp(S) ==
    /\ S \subseteq owned
    /\ owned' = owned \ S
    /\ UNCHANGED <<status, attempts, closed>>

\* Nothing is claimed any more; claims not handed out yet are given up.
Close(S) ==
    /\ ~closed
    /\ closed' = TRUE
    /\ S \subseteq owned
    /\ owned' = owned \ S
    /\ UNCHANGED <<status, attempts>>

\* The link a done row owes its chat is looked after.
Revisit(i) ==
    /\ closed
    /\ owned = {}
    /\ status[i] = "done"
    /\ owned' = {i}
    /\ UNCHANGED <<status, attempts, closed>>

Next ==
    \/ \E S \in SUBSET Items : Claim(S) \/ GiveUp(S) \/ Close(S)
    \/ \E i \in Items : Revisit(i)
    \/ \E i \in Items, n \in 0..RetryMax :
          \/ Charge(i, n)
          \/ \E s \in {"done", "failed", "downloading"} : Settle(i, s, n)

Spec == Init /\ [][Next]_ledgerVars
=============================================================================
