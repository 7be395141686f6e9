---------------------------- MODULE StreamWindow ----------------------------
(***************************************************************************)
(* One logical stream of a web-proxy session (src/internal/webproxy:       *)
(* window.go and Stream in session.go) and its credit in both directions.  *)
(*                                                                         *)
(* The client may send as many bytes as the relay has granted, the relay   *)
(* as many as the client has granted; WINDOW frames give credit back.  A   *)
(* stream ends in three ways that race: a local Close, the relay's CLOSE   *)
(* handled by the carrier pump, and the loss of the whole session.  Each   *)
(* publishes the end to the reader first and to the writer later.          *)
(*                                                                         *)
(* The gotd connection on top serializes its writes and its reads, so there*)
(* is one writer and one reader.  Frames in flight are totals per kind;    *)
(* the carrier's order matters for CLOSE only, which comes last.           *)
(***************************************************************************)
EXTENDS Naturals

CONSTANTS
    Window,    \* InitialWindow: credit a stream starts with, each way
    Refill,    \* windowRefillThreshold, half of the window
    Chunk,     \* DataChunk: most bytes in one DATA frame
    MaxCredit, \* math.MaxUint32, where Grant saturates
    WriteSize  \* bytes of one Write

ASSUME WindowAssumption ==
    /\ Window \in Nat \ {0}
    /\ Refill \in 1..Window
    /\ Chunk \in Nat \ {0}
    /\ MaxCredit \in Nat
    /\ Window <= MaxCredit
    /\ WriteSize \in Nat \ {0}

VARIABLES
    available, \* sendWindow.available
    aborted,   \* sendWindow.aborted # nil
    changed,   \* sendWindow.changed has been replaced since the writer took it
    ungranted, \* recvWindow.ungranted
    buf,       \* len(Stream.buf)
    recvErr,   \* Stream.recvErr: "none", "eof" or "error"
    closed,    \* Stream.closed
    expired,   \* Stream.deadline is set and has passed
    wpc,       \* the writer: "idle", "gate", "reserve", "blocked" or "send"
    left,      \* bytes the Write still has to send
    got,       \* credit reserved for the chunk in hand
    late,      \* history: the Write began after recvErr was set
    rpc,       \* the reader: "idle", "look", "waiting", "consume" or "grant"
    took,      \* bytes copied out and not consumed yet
    delta,     \* credit to be granted with the next WINDOW
    pump,      \* the carrier pump: "idle", "data", "window", "close", "abort", "drop"
    closer,    \* Close: "none", "abort", "send", "drop" or "done"
    failer,    \* Session.fail: "none", "collect", "publish", "abort" or "done"
    known,     \* the stream is in Session.streams
    up,        \* in flight to the relay: [data, grant : Nat, close : BOOLEAN]
    down,      \* in flight to the client, likewise
    relay      \* the relay: [credit, held : Nat, closed : BOOLEAN]

writerVars == <<wpc, left, got, late>>
sendVars == <<available, aborted, changed>>
readerVars == <<rpc, took, delta, ungranted>>
streamVars == <<buf, recvErr, closed, expired, known>>
enderVars == <<pump, closer, failer>>
wireVars == <<up, down, relay>>
vars == <<writerVars, sendVars, readerVars, streamVars, enderVars, wireVars>>

Smaller(a, b) == IF a <= b THEN a ELSE b

\* Session.done is closed: every enqueue may give up.
SessionDone == failer # "none"

Init ==
    /\ available = Window /\ aborted = FALSE /\ changed = FALSE
    /\ ungranted = 0 /\ buf = 0 /\ recvErr = "none" /\ closed = FALSE
    /\ expired = FALSE
    /\ wpc = "idle" /\ left = 0 /\ got = 0 /\ late = FALSE
    /\ rpc = "idle" /\ took = 0 /\ delta = 0
    /\ pump = "idle" /\ closer = "none" /\ failer = "none" /\ known = TRUE
    /\ up = [data |-> 0, grant |-> 0, close |-> FALSE]
    /\ down = [data |-> 0, grant |-> 0, close |-> FALSE]
    /\ relay = [credit |-> Window, held |-> 0, closed |-> FALSE]

-----------------------------------------------------------------------------
(* The two shared objects: cond under Stream.mu, changed under sendWindow.mu *)

\* cond.Broadcast wakes the reader if it waits.
Broadcast == rpc' = IF rpc = "waiting" THEN "look" ELSE rpc

\* The first terminal error wins.
Publish(e) ==
    /\ recvErr' = IF recvErr = "none" THEN e ELSE recvErr
    /\ Broadcast

\* Mutant: the credit replaces what is left of the old one.
GrantReplaces(n) ==
    /\ available' = n
    /\ changed' = TRUE
    /\ UNCHANGED aborted

Grant(n) ==
    /\ available' = Smaller(available + n, MaxCredit)
    /\ changed' = TRUE
    /\ UNCHANGED aborted

Abort ==
    /\ aborted' = TRUE
    /\ changed' = (changed \/ ~aborted)
    /\ UNCHANGED available

-----------------------------------------------------------------------------
(* Write *)

WriteStart ==
    /\ wpc = "idle"
    /\ wpc' = "gate"
    /\ left' = WriteSize
    /\ late' = (recvErr # "none")
    /\ UNCHANGED <<got, sendVars, readerVars, streamVars, enderVars, wireVars>>

WriteReturns ==
    /\ wpc' = "idle"
    /\ left' = 0
    /\ got' = 0
    /\ late' = FALSE

\* Mutant: only a local close is looked at.
writeGateClosedOnly ==
    /\ wpc = "gate"
    /\ IF closed
       THEN WriteReturns
       ELSE wpc' = "reserve" /\ UNCHANGED <<left, got, late>>
    /\ UNCHANGED <<sendVars, readerVars, streamVars, enderVars, wireVars>>

writeGate ==
    /\ wpc = "gate"
    /\ IF closed \/ recvErr # "none"
       THEN WriteReturns
       ELSE wpc' = "reserve" /\ UNCHANGED <<left, got, late>>
    /\ UNCHANGED <<sendVars, readerVars, streamVars, enderVars, wireVars>>

\* Mutant: a chunk is reserved whole as soon as there is any credit.
ReserveOverdraws ==
    /\ wpc = "reserve"
    /\ ~aborted
    /\ available > 0
    /\ got' = Smaller(left, Chunk)
    /\ available' = available - got'
    /\ wpc' = "send"
    /\ UNCHANGED <<left, late, aborted, changed>>
    /\ UNCHANGED <<readerVars, streamVars, enderVars, wireVars>>

\* One turn of Reserve's loop under the window's mutex.
Reserve ==
    /\ wpc = "reserve"
    /\ \/ /\ aborted
          /\ WriteReturns
          /\ UNCHANGED sendVars
       \/ /\ ~aborted
          /\ available > 0
          /\ got' = Smaller(Smaller(left, Chunk), available)
          /\ available' = available - got'
          /\ wpc' = "send"
          /\ UNCHANGED <<left, late, aborted, changed>>
       \/ /\ ~aborted
          /\ available = 0
          /\ wpc' = "blocked"
          /\ changed' = FALSE
          /\ UNCHANGED <<left, got, late, available, aborted>>
    /\ UNCHANGED <<readerVars, streamVars, enderVars, wireVars>>

ReserveWakes ==
    /\ wpc = "blocked"
    /\ changed
    /\ wpc' = "reserve"
    /\ UNCHANGED <<left, got, late, sendVars, readerVars, streamVars, enderVars, wireVars>>

SendData ==
    /\ wpc = "send"
    /\ up' = [up EXCEPT !.data = @ + got]
    /\ IF left = got
       THEN WriteReturns
       ELSE /\ wpc' = "gate"
            /\ left' = left - got
            /\ got' = 0
            /\ UNCHANGED late
    /\ UNCHANGED <<down, relay, sendVars, readerVars, streamVars, enderVars>>

\* enqueue chose the closed session.
SendDataLost ==
    /\ wpc = "send"
    /\ SessionDone
    /\ WriteReturns
    /\ UNCHANGED <<sendVars, readerVars, streamVars, enderVars, wireVars>>

-----------------------------------------------------------------------------
(* Read *)

ReadStart ==
    /\ rpc = "idle"
    /\ rpc' = "look"
    /\ UNCHANGED <<took, delta, ungranted, writerVars, sendVars, streamVars,
                   enderVars, wireVars>>

\* Under Stream.mu: buffered bytes come before the terminal error.
ReadLook ==
    /\ rpc = "look"
    /\ \/ /\ buf > 0
          /\ \E n \in 1..buf : took' = n /\ buf' = buf - n
          /\ rpc' = "consume"
       \/ /\ buf = 0
          /\ recvErr # "none" \/ expired
          /\ rpc' = "idle"
          /\ UNCHANGED <<took, buf>>
       \/ /\ buf = 0
          /\ recvErr = "none"
          /\ ~expired
          /\ rpc' = "waiting"
          /\ UNCHANGED <<took, buf>>
    /\ UNCHANGED <<delta, ungranted, writerVars, sendVars, recvErr, closed, expired,
                   known, enderVars, wireVars>>

\* Mutant: a refill grants this read's bytes and forgets the earlier ones.
ConsumeForgets ==
    /\ rpc = "consume"
    /\ took' = 0
    /\ IF ungranted + took < Refill
       THEN ungranted' = ungranted + took /\ rpc' = "idle" /\ UNCHANGED delta
       ELSE ungranted' = 0 /\ rpc' = "grant" /\ delta' = took
    /\ UNCHANGED <<writerVars, sendVars, streamVars, enderVars, wireVars>>

\* Mutant: the threshold has to be exceeded.
ConsumeBeyond ==
    /\ rpc = "consume"
    /\ took' = 0
    /\ IF ungranted + took <= Refill
       THEN ungranted' = ungranted + took /\ rpc' = "idle" /\ UNCHANGED delta
       ELSE ungranted' = 0 /\ rpc' = "grant" /\ delta' = ungranted + took
    /\ UNCHANGED <<writerVars, sendVars, streamVars, enderVars, wireVars>>

Consume ==
    /\ rpc = "consume"
    /\ took' = 0
    /\ IF ungranted + took < Refill
       THEN ungranted' = ungranted + took /\ rpc' = "idle" /\ UNCHANGED delta
       ELSE ungranted' = 0 /\ rpc' = "grant" /\ delta' = ungranted + took
    /\ UNCHANGED <<writerVars, sendVars, streamVars, enderVars, wireVars>>

\* The WINDOW frame; its error is ignored.
SendWindow ==
    /\ rpc = "grant"
    /\ \/ up' = [up EXCEPT !.grant = @ + delta]
       \/ SessionDone /\ UNCHANGED up
    /\ rpc' = "idle"
    /\ delta' = 0
    /\ UNCHANGED <<took, ungranted, writerVars, sendVars, streamVars, enderVars, down,
                   relay>>

\* SetReadDeadline from another goroutine, to a time ahead, past or zero.
SetReadDeadline ==
    /\ expired' \in BOOLEAN
    /\ Broadcast
    /\ UNCHANGED <<took, delta, ungranted, writerVars, sendVars, buf, recvErr, closed,
                   known, enderVars, wireVars>>

\* A deadline set before goes by; no timer is armed for it.
DeadlinePasses ==
    /\ ~expired
    /\ expired' = TRUE
    /\ UNCHANGED <<writerVars, sendVars, readerVars, buf, recvErr, closed, known,
                   enderVars, wireVars>>

-----------------------------------------------------------------------------
(* Close, by the local side *)

CloseStart ==
    /\ closer = "none"
    /\ closer' = "abort"
    /\ closed' = TRUE
    /\ Publish("error")
    /\ UNCHANGED <<took, delta, ungranted, writerVars, sendVars, buf, expired, known,
                   pump, failer, wireVars>>

CloseAborts ==
    /\ closer = "abort"
    /\ closer' = "send"
    /\ Abort
    /\ UNCHANGED <<writerVars, readerVars, streamVars, pump, failer, wireVars>>

SendClose ==
    /\ closer = "send"
    /\ closer' = "drop"
    /\ \/ up' = [up EXCEPT !.close = TRUE]
       \/ SessionDone /\ UNCHANGED up
    /\ UNCHANGED <<writerVars, sendVars, readerVars, streamVars, pump, failer, down, relay>>

CloseDrops ==
    /\ closer = "drop"
    /\ closer' = "done"
    /\ known' = FALSE
    /\ UNCHANGED <<writerVars, sendVars, readerVars, buf, recvErr, closed, expired,
                   pump, failer, wireVars>>

-----------------------------------------------------------------------------
(* The carrier pump.  The frame's stream is looked up under the session's   *)
(* mutex and the frame handled after it: the stream may end in between.     *)

Waiting(kind) ==
    CASE kind = "data"   -> down.data > 0
      [] kind = "window" -> down.grant > 0
      [] kind = "close"  -> down.close /\ down.data = 0 /\ down.grant = 0

handleFrame ==
    /\ pump = "idle"
    /\ known
    /\ \E kind \in {"data", "window", "close"} : Waiting(kind) /\ pump' = kind
    /\ UNCHANGED <<writerVars, sendVars, readerVars, streamVars, closer, failer, wireVars>>

\* Frames of a stream the session no longer knows are ignored.
IgnoreFrames ==
    /\ pump = "idle"
    /\ ~known
    /\ down # [data |-> 0, grant |-> 0, close |-> FALSE]
    /\ down' = [data |-> 0, grant |-> 0, close |-> FALSE]
    /\ UNCHANGED <<up, relay, writerVars, sendVars, readerVars, streamVars, enderVars>>

PumpData ==
    /\ pump = "data"
    /\ pump' = "idle"
    /\ \E n \in 1..down.data :
          /\ down' = [down EXCEPT !.data = @ - n]
          /\ buf' = buf + n
    /\ Broadcast
    /\ UNCHANGED <<took, delta, ungranted, writerVars, sendVars, recvErr, closed,
                   expired, known, closer, failer, up, relay>>

PumpWindow ==
    /\ pump = "window"
    /\ pump' = "idle"
    /\ \E n \in 1..down.grant :
          /\ down' = [down EXCEPT !.grant = @ - n]
          /\ Grant(n)
    /\ UNCHANGED <<writerVars, readerVars, streamVars, closer, failer, up, relay>>

PumpClose ==
    /\ pump = "close"
    /\ pump' = "abort"
    /\ down' = [down EXCEPT !.close = FALSE]
    /\ Publish("eof")
    /\ UNCHANGED <<took, delta, ungranted, writerVars, sendVars, buf, closed, expired,
                   known, closer, failer, up, relay>>

\* Mutant: the writer is not told about the relay's CLOSE.
PumpAbortsNobody ==
    /\ pump = "abort"
    /\ pump' = "drop"
    /\ UNCHANGED <<writerVars, sendVars, readerVars, streamVars, closer, failer, wireVars>>

PumpAborts ==
    /\ pump = "abort"
    /\ pump' = "drop"
    /\ Abort
    /\ UNCHANGED <<writerVars, readerVars, streamVars, closer, failer, wireVars>>

PumpDrops ==
    /\ pump = "drop"
    /\ pump' = "idle"
    /\ known' = FALSE
    /\ UNCHANGED <<writerVars, sendVars, readerVars, buf, recvErr, closed, expired,
                   closer, failer, wireVars>>

-----------------------------------------------------------------------------
(* The session is lost: fail stops the session, collects the streams it     *)
(* knows and aborts each.                                                   *)

Fail ==
    /\ failer = "none"
    /\ failer' = "collect"
    /\ UNCHANGED <<writerVars, sendVars, readerVars, streamVars, pump, closer, wireVars>>

FailCollects ==
    /\ failer = "collect"
    /\ failer' = IF known THEN "publish" ELSE "done"
    /\ UNCHANGED <<writerVars, sendVars, readerVars, streamVars, pump, closer, wireVars>>

FailPublishes ==
    /\ failer = "publish"
    /\ failer' = "abort"
    /\ Publish("error")
    /\ UNCHANGED <<took, delta, ungranted, writerVars, sendVars, buf, closed, expired,
                   known, pump, closer, wireVars>>

FailAborts ==
    /\ failer = "abort"
    /\ failer' = "done"
    /\ Abort
    /\ UNCHANGED <<writerVars, readerVars, streamVars, pump, closer, wireVars>>

-----------------------------------------------------------------------------
(* The relay, which is not part of this code: it sends within its credit,   *)
(* grants back what it has passed on, and sends nothing after its CLOSE.    *)

RelaySends ==
    /\ ~relay.closed
    /\ \E n \in 1..relay.credit :
          /\ relay' = [relay EXCEPT !.credit = @ - n]
          /\ down' = [down EXCEPT !.data = @ + n]
    /\ UNCHANGED <<up, writerVars, sendVars, readerVars, streamVars, enderVars>>

RelayReceives ==
    /\ up.data + up.grant > 0
    /\ relay' = [relay EXCEPT !.held = @ + up.data, !.credit = @ + up.grant]
    /\ up' = [up EXCEPT !.data = 0, !.grant = 0]
    /\ UNCHANGED <<down, writerVars, sendVars, readerVars, streamVars, enderVars>>

RelayGrants ==
    /\ ~relay.closed
    /\ relay.held > 0
    /\ relay' = [relay EXCEPT !.held = 0]
    /\ down' = [down EXCEPT !.grant = @ + relay.held]
    /\ UNCHANGED <<up, writerVars, sendVars, readerVars, streamVars, enderVars>>

RelayCloses ==
    /\ ~relay.closed
    /\ relay' = [relay EXCEPT !.closed = TRUE]
    /\ down' = [down EXCEPT !.close = TRUE]
    /\ UNCHANGED <<up, writerVars, sendVars, readerVars, streamVars, enderVars>>

-----------------------------------------------------------------------------
Write == writeGate \/ Reserve \/ ReserveWakes \/ SendData \/ SendDataLost
Read == ReadLook \/ Consume \/ SendWindow
LocalClose == CloseAborts \/ SendClose \/ CloseDrops
Pump ==
    \/ handleFrame \/ IgnoreFrames
    \/ PumpData \/ PumpWindow \/ PumpClose \/ PumpAborts \/ PumpDrops
Failing == FailCollects \/ FailPublishes \/ FailAborts
Relay == RelaySends \/ RelayReceives \/ RelayGrants \/ RelayCloses

Next ==
    \/ WriteStart \/ Write
    \/ ReadStart \/ Read
    \/ SetReadDeadline \/ DeadlinePasses
    \/ CloseStart \/ LocalClose
    \/ Pump
    \/ Fail \/ Failing
    \/ Relay

Spec == Init /\ [][Next]_vars

\* Goroutines that can proceed do; the relay owes nothing.
FairSpec ==
    /\ Spec
    /\ WF_vars(Write) /\ WF_vars(Read)
    /\ WF_vars(LocalClose) /\ WF_vars(Pump) /\ WF_vars(Failing)

-----------------------------------------------------------------------------
Wire == [data : 0..Window, grant : 0..Window, close : BOOLEAN]

\* Fields and locals have their types, and no counter exceeds the window as
\* long as the session knows the stream.
TypeOK ==
    /\ available \in 0..MaxCredit /\ aborted \in BOOLEAN /\ changed \in BOOLEAN
    /\ ungranted \in 0..Window /\ buf \in 0..Window
    /\ recvErr \in {"none", "eof", "error"} /\ closed \in BOOLEAN
    /\ expired \in BOOLEAN
    /\ wpc \in {"idle", "gate", "reserve", "blocked", "send"}
    /\ left \in 0..WriteSize /\ got \in 0..Chunk /\ late \in BOOLEAN
    /\ rpc \in {"idle", "look", "waiting", "consume", "grant"}
    /\ took \in 0..Window /\ delta \in 0..Window
    /\ pump \in {"idle", "data", "window", "close", "abort", "drop"}
    /\ closer \in {"none", "abort", "send", "drop", "done"}
    /\ failer \in {"none", "collect", "publish", "abort", "done"}
    /\ known \in BOOLEAN
    /\ up \in Wire /\ down \in Wire
    /\ relay \in [credit : 0..Window, held : 0..Window, closed : BOOLEAN]

\* Alive: no frame has been dropped on either side.
Alive == known /\ ~SessionDone

\* Credit for the client's bytes is neither lost nor invented: what is free,
\* reserved, in flight, held by the relay and on its way back is one window
\* (window.go:35-88).
UploadCredit ==
    Alive => available + got + up.data + relay.held + down.grant = Window

\* The same for the relay's bytes, through buffer, consumption and the
\* deferred WINDOW (window.go:113-145, session.go:398-409).
DownloadCredit ==
    Alive => relay.credit + down.data + buf + took + ungranted + delta + up.grant = Window

\* The refill threshold cannot starve the relay: when everything it sent has
\* been read and no WINDOW is under way, it still has credit.
NoStall ==
    Alive /\ down.data + buf + took + delta + up.grant = 0 => relay.credit > 0

\* A Write that begins after the end is published sends nothing, not even
\* before the send window is aborted (session.go:614-618).
LateWriteRefused == late => wpc \in {"idle", "gate"}

\* Whoever ends a stream tells both sides before the session forgets it, and a
\* lost session before fail returns: nothing later could wake a side that still
\* waits (session.go:224-243, 445-471, 557-570).
NobodyForgotten ==
    ~known \/ failer = "done" =>
        /\ rpc # "waiting"
        /\ wpc = "blocked" => changed

\* session.go:473 "SetReadDeadline arms the read deadline": a Read that waits
\* when its deadline passes returns.
DeadlineEndsRead == expired /\ rpc = "waiting" ~> rpc # "waiting"
=============================================================================
