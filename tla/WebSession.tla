----------------------------- MODULE WebSession -----------------------------
(***************************************************************************)
(* Sessions and streams of the web proxy (src/internal/webproxy: resolver, *)
(* session table, carrier writer and pump, lanes).                         *)
(*                                                                         *)
(* The resolver keeps one session and opens a stream of it for every       *)
(* connection, under its mutex; when the session is lost it establishes    *)
(* another.  A session carries its streams over one carrier (websocket,    *)
(* https) or gives each stream a lane of its own.  Whoever meets an error  *)
(* first fails the session, which tells every stream.                      *)
(*                                                                         *)
(* The bytes and the credit of a stream are StreamWindow's; here a stream  *)
(* is told of its end in one step.  Of the frames only CLOSE is followed.  *)
(***************************************************************************)
EXTENDS Naturals

CONSTANTS
    Modes,       \* the carrier modes a relay may select at a bootstrap
    MaxSessions, \* bound: sessions established, not in the code
    MaxStreamID  \* MaxStreamID

ASSUME SessionAssumption ==
    /\ Modes \subseteq {"websocket", "https", "websocket-lanes", "https-lanes"}
    /\ MaxSessions \in Nat \ {0}
    /\ MaxStreamID \in Nat \ {0}

Lanes(m) == m \in {"websocket-lanes", "https-lanes"}
HasCarrier(m) == m # "websocket-lanes"
Https(m) == m \in {"https", "https-lanes"}

\* NewSession gives a lane dialer only to a session without a carrier.
DialsLanes(m) == Lanes(m) /\ ~HasCarrier(m)

Sessions == 1..MaxSessions
Ids == 1..MaxStreamID

\* What a session can be failed with: an error of its writer, its pump, a frame
\* or a lane's dial ("carrier"); a batch that does not decode ("decode"); the end
\* of the context it was dialled under ("dialctx"); a lane whose stream is over
\* ("laneend"); Session.Close ("closed").
Causes == {"carrier", "decode", "dialctx", "laneend", "closed"}

\* Causes acquireStream recognises as ErrSessionLost or ErrSessionClosed.
Reestablishing == Causes \ {"decode"}

VARIABLES
    session,  \* Resolver.session: the latest session, 0 for nil
    pc,       \* the goroutine holding Resolver.mu: "idle", "open", "start",
              \* "failing", "send" or "establish"
    id,       \* the stream being opened
    fresh,    \* this is the Open after establish
    refusal,  \* why the last acquireStream returned an error
    mode,     \* Session.mode, or "none"
    dialCtx,  \* https: the context of the connect that dialled it is not over
    cause,    \* what fail was first called with, or "none"; Session.done is closed
    lost,     \* Session.lost
    failing,  \* fail: "no", "stop", "abort" or "done"
    toAbort,  \* streams collected by fail and not told yet
    streams,  \* Session.streams
    nextID,   \* Session.nextID
    writer,   \* the session's carrier writer runs
    pump,     \* the session's carrier pump runs
    carrier,  \* the session's carrier: "none", "open" or "closed"
    ended,    \* Stream.recvErr: "no", "local", "relay", "lost" or "lane"
    closing,  \* Stream.Close: "no", "send", "drop", "stop" or "done"
    frame,    \* the CLOSE frame: "none", "queued", "sent" or "dropped"
    lane,     \* the lane's carrier and writer: "none", "open", "closed" by
              \* laneStop, or "failed"
    lanePump, \* the lane's pump runs
    stopped,  \* laneStop has been called
    handed    \* the streams acquireStream has returned to a connection

openerVars == <<session, pc, id, fresh, refusal, handed>>
failVars == <<cause, lost, failing, toAbort>>
tableVars == <<streams, nextID>>
carrierVars == <<mode, dialCtx, writer, pump, carrier>>
streamVars == <<ended, closing, frame>>
laneVars == <<lane, lanePump, stopped>>
vars == <<openerVars, failVars, tableVars, carrierVars, streamVars, laneVars>>

Done(s) == cause[s] # "none"

Each(v) == [s \in Sessions |-> v]
EachStream(v) == [s \in Sessions |-> [i \in Ids |-> v]]

Init ==
    /\ session = 0 /\ pc = "idle" /\ id = 0 /\ fresh = FALSE /\ refusal = "none"
    /\ mode = Each("none") /\ dialCtx = Each(FALSE)
    /\ cause = Each("none") /\ lost = Each("none") /\ failing = Each("no")
    /\ toAbort = Each({}) /\ streams = Each({}) /\ nextID = Each(1)
    /\ writer = Each(FALSE) /\ pump = Each(FALSE) /\ carrier = Each("none")
    /\ ended = EachStream("no") /\ closing = EachStream("no")
    /\ frame = EachStream("none")
    /\ lane = EachStream("none") /\ lanePump = EachStream(FALSE)
    /\ stopped = EachStream(FALSE)
    /\ handed = Each({})

-----------------------------------------------------------------------------
(* Shared steps *)

\* fail runs once; it stops the session before it takes the mutex.
Fail(s, c) ==
    IF cause[s] = "none"
    THEN /\ cause' = [cause EXCEPT ![s] = c]
         /\ failing' = [failing EXCEPT ![s] = "stop"]
         /\ UNCHANGED <<lost, toAbort>>
    ELSE UNCHANGED failVars

\* The first terminal error wins.
End(s, i, why) == ended' = [ended EXCEPT ![s][i] = IF @ = "no" THEN why ELSE @]

\* stopLane does nothing before start has published the lane.
StopLane(s, i) ==
    stopped' = [stopped EXCEPT ![s][i] = @ \/ lane[s][i] # "none"]

DropStream(s, i) == streams' = [streams EXCEPT ![s] = @ \ {i}]

-----------------------------------------------------------------------------
(* acquireStream, under Resolver.mu *)

Acquire ==
    /\ pc = "idle"
    /\ pc' = IF session = 0 THEN "establish" ELSE "open"
    /\ fresh' = FALSE
    /\ refusal' = "none"
    /\ UNCHANGED <<session, id, handed, failVars, tableVars, carrierVars, streamVars,
                   laneVars>>

ReturnError(reason) ==
    /\ pc' = "idle"
    /\ id' = 0
    /\ fresh' = FALSE
    /\ refusal' = reason
    /\ UNCHANGED <<session, handed>>

\* ErrSessionLost or ErrSessionClosed came back from the first Open.
Reestablish ==
    /\ pc' = "establish"
    /\ id' = 0
    /\ UNCHANGED <<session, fresh, refusal, handed>>

OnLoss == \/ ~fresh /\ Reestablish
          \/ fresh /\ ReturnError("other")

OpenRefused ==
    /\ pc = "open"
    /\ lost[session] # "none"
    /\ \/ lost[session] \in Reestablishing /\ OnLoss
       \/ lost[session] \notin Reestablishing /\ ~fresh /\ ReturnError("lost")
       \/ lost[session] \notin Reestablishing /\ fresh /\ ReturnError("other")
    /\ UNCHANGED <<failVars, tableVars, carrierVars, streamVars, laneVars>>

\* Mutant: an exhausted session is replaced without having ended.
OpenExhaustedReplaces ==
    /\ pc = "open"
    /\ lost[session] = "none"
    /\ nextID[session] > MaxStreamID
    /\ Reestablish
    /\ UNCHANGED <<failVars, tableVars, carrierVars, streamVars, laneVars>>

\* Mutant: Open waits for the streams of an exhausted session to end.
OpenExhaustedWaits ==
    /\ pc = "open"
    /\ lost[session] = "none"
    /\ nextID[session] > MaxStreamID
    /\ streams[session] = {}
    /\ ReturnError("other")
    /\ UNCHANGED <<failVars, tableVars, carrierVars, streamVars, laneVars>>

OpenExhausted ==
    /\ pc = "open"
    /\ lost[session] = "none"
    /\ nextID[session] > MaxStreamID
    /\ ReturnError("other")
    /\ UNCHANGED <<failVars, tableVars, carrierVars, streamVars, laneVars>>

\* Mutant: one id too many is given out.
RegisterPastLimit ==
    /\ nextID[session] <= MaxStreamID + 1
    /\ id' = nextID[session]
    /\ nextID' = [nextID EXCEPT ![session] = @ + 1]
    /\ streams' = [streams EXCEPT ![session] = @ \cup {nextID[session]}]
    /\ pc' = "start"
    /\ UNCHANGED <<session, fresh, refusal, handed, failVars, carrierVars, streamVars,
                   laneVars>>

Register ==
    /\ nextID[session] <= MaxStreamID
    /\ id' = nextID[session]
    /\ nextID' = [nextID EXCEPT ![session] = @ + 1]
    /\ streams' = [streams EXCEPT ![session] = @ \cup {nextID[session]}]
    /\ pc' = "start"
    /\ UNCHANGED <<session, fresh, refusal, handed, failVars, carrierVars, streamVars,
                   laneVars>>

\* Mutant: the loss is looked at before the mutex is taken, so it may have
\* happened meanwhile.
OpenUnlocked ==
    /\ pc = "open"
    /\ Register

Open ==
    /\ pc = "open"
    /\ lost[session] = "none"
    /\ Register

StartShared ==
    /\ pc = "start"
    /\ ~Lanes(mode[session])
    /\ pc' = "send"
    /\ UNCHANGED <<session, id, fresh, refusal, handed, failVars, tableVars, carrierVars,
                   streamVars,
                   laneVars>>

StartWithoutDialer ==
    /\ pc = "start"
    /\ Lanes(mode[session]) /\ ~DialsLanes(mode[session])
    /\ DropStream(session, id)
    /\ ReturnError("nodialer")
    /\ UNCHANGED <<nextID, failVars, carrierVars, streamVars, laneVars>>

LaneDialled ==
    /\ pc = "start"
    /\ DialsLanes(mode[session])
    /\ lane' = [lane EXCEPT ![session][id] = "open"]
    /\ lanePump' = [lanePump EXCEPT ![session][id] = TRUE]
    /\ pc' = "send"
    /\ UNCHANGED <<session, id, fresh, refusal, handed, stopped, failVars, tableVars,
                   carrierVars,
                   streamVars>>

LaneDialFails ==
    /\ pc = "start"
    /\ DialsLanes(mode[session])
    /\ Fail(session, "carrier")
    /\ pc' = "failing"
    /\ UNCHANGED <<session, id, fresh, refusal, handed, tableVars, carrierVars, streamVars,
                   laneVars>>

\* fail has returned, its first caller's run included.
LaneDialFailed ==
    /\ pc = "failing"
    /\ failing[session] = "done"
    /\ DropStream(session, id)
    /\ OnLoss
    /\ UNCHANGED <<nextID, failVars, carrierVars, streamVars, laneVars>>

\* The OPEN frame is queued.
SendOpen ==
    /\ pc = "send"
    /\ pc' = "idle"
    /\ id' = 0
    /\ handed' = [handed EXCEPT ![session] = @ \cup {id}]
    /\ fresh' = FALSE
    /\ UNCHANGED <<session, refusal, failVars, tableVars, carrierVars, streamVars,
                   laneVars>>

SendOpenLost ==
    /\ pc = "send"
    /\ Done(session)
    /\ DropStream(session, id)
    /\ OnLoss
    /\ UNCHANGED <<nextID, failVars, carrierVars, streamVars, laneVars>>

EstablishFails ==
    /\ pc = "establish"
    /\ pc' = "idle"
    /\ refusal' = "other"
    /\ UNCHANGED <<session, id, fresh, handed, failVars, tableVars, carrierVars, streamVars,
                   laneVars>>

establish ==
    /\ pc = "establish"
    /\ session < MaxSessions
    /\ session' = session + 1
    /\ \E m \in Modes :
          /\ mode' = [mode EXCEPT ![session'] = m]
          /\ dialCtx' = [dialCtx EXCEPT ![session'] = Https(m)]
          /\ writer' = [writer EXCEPT ![session'] = HasCarrier(m)]
          /\ pump' = [pump EXCEPT ![session'] = HasCarrier(m)]
          /\ carrier' = [carrier EXCEPT ![session'] = IF HasCarrier(m) THEN "open" ELSE "none"]
    /\ pc' = "open"
    /\ fresh' = TRUE
    /\ UNCHANGED <<id, refusal, handed, failVars, tableVars, streamVars, laneVars>>

\* The connect that established the session has returned, or was given up.
DialContextEnds(s) ==
    /\ dialCtx[s]
    /\ s = session => pc = "idle"
    /\ dialCtx' = [dialCtx EXCEPT ![s] = FALSE]
    /\ UNCHANGED <<mode, writer, pump, carrier, openerVars, failVars, tableVars, streamVars,
                   laneVars>>

-----------------------------------------------------------------------------
(* The loss of a session *)

FailCollects(s) ==
    /\ failing[s] = "stop"
    /\ failing' = [failing EXCEPT ![s] = "abort"]
    /\ lost' = [lost EXCEPT ![s] = cause[s]]
    /\ toAbort' = [toAbort EXCEPT ![s] = streams[s]]
    /\ UNCHANGED <<cause, openerVars, tableVars, carrierVars, streamVars, laneVars>>

FailAborts(s, i) ==
    /\ failing[s] = "abort"
    /\ i \in toAbort[s]
    /\ toAbort' = [toAbort EXCEPT ![s] = @ \ {i}]
    /\ End(s, i, "lost")
    /\ StopLane(s, i)
    /\ UNCHANGED <<cause, lost, failing, closing, frame, lane, lanePump, openerVars,
                   tableVars,
                   carrierVars>>

FailReturns(s) ==
    /\ failing[s] = "abort"
    /\ toAbort[s] = {}
    /\ failing' = [failing EXCEPT ![s] = "done"]
    /\ UNCHANGED <<cause, lost, toAbort, openerVars, tableVars, carrierVars, streamVars,
                   laneVars>>

CloseSession(s) ==
    /\ s <= session
    /\ cause[s] = "none"
    /\ Fail(s, "closed")
    /\ UNCHANGED <<openerVars, tableVars, carrierVars, streamVars, laneVars>>

-----------------------------------------------------------------------------
(* The session's carrier *)

\* Leaving run closes the carrier; what is still queued goes nowhere.
WriterExits(s) ==
    /\ writer' = [writer EXCEPT ![s] = FALSE]
    /\ carrier' = [carrier EXCEPT ![s] = "closed"]
    /\ frame' = [frame EXCEPT ![s] = [i \in Ids |->
                     IF @[i] = "queued" /\ lane[s][i] = "none" THEN "dropped" ELSE @[i]]]
    /\ UNCHANGED <<mode, dialCtx, pump, ended, closing>>

WriterSends(s, i) ==
    /\ writer[s]
    /\ frame[s][i] = "queued" /\ lane[s][i] = "none"
    /\ frame' = [frame EXCEPT ![s][i] = "sent"]
    /\ UNCHANGED <<ended, closing, openerVars, failVars, tableVars, carrierVars, laneVars>>

\* Mutant: a stopped writer leaves its carrier open.
WriterStopsOnly(s) ==
    /\ writer[s]
    /\ Done(s)
    /\ writer' = [writer EXCEPT ![s] = FALSE]
    /\ UNCHANGED <<mode, dialCtx, pump, carrier, openerVars, failVars, tableVars, streamVars,
                   laneVars>>

WriterStops(s) ==
    /\ writer[s]
    /\ Done(s)
    /\ WriterExits(s)
    /\ UNCHANGED <<openerVars, failVars, tableVars, laneVars>>

WriterFails(s) ==
    /\ writer[s]
    /\ Fail(s, "carrier")
    /\ WriterExits(s)
    /\ UNCHANGED <<openerVars, tableVars, laneVars>>

PumpExits(s, c) ==
    /\ pump[s]
    /\ pump' = [pump EXCEPT ![s] = FALSE]
    /\ Fail(s, c)
    /\ UNCHANGED <<mode, dialCtx, writer, carrier, openerVars, tableVars, streamVars, laneVars>>

\* Recv, DecodeAll or handleFrame returned an error.
PumpFails(s) == \E c \in {"carrier", "decode"} : PumpExits(s, c)

\* An https carrier ends with the context it was made under.
PumpSeesDialEnd(s) == Https(mode[s]) /\ ~dialCtx[s] /\ PumpExits(s, "dialctx")

PumpSeesClose(s) == carrier[s] = "closed" /\ PumpExits(s, "carrier")

\* Mutant: the stream is dropped and nobody is told.
RelayDrops(s, i) ==
    /\ DropStream(s, i)
    /\ StopLane(s, i)
    /\ UNCHANGED <<nextID, ended, closing, frame, lane, lanePump, openerVars, failVars,
                   carrierVars>>

\* The relay's CLOSE on stream i.
RelayEnds(s, i) ==
    /\ End(s, i, "relay")
    /\ DropStream(s, i)
    /\ StopLane(s, i)
    /\ UNCHANGED <<nextID, closing, frame, lane, lanePump, openerVars, failVars,
                   carrierVars>>

PumpClose(s, i) ==
    /\ pump[s]
    /\ i \in streams[s] /\ lane[s][i] = "none"
    /\ RelayEnds(s, i)

-----------------------------------------------------------------------------
(* A stream's lane *)

LaneExits(s, i, how) ==
    /\ lane' = [lane EXCEPT ![s][i] = how]
    /\ frame' = [frame EXCEPT ![s][i] = IF @ = "queued" THEN "dropped" ELSE @]
    /\ UNCHANGED <<lanePump, closing>>

LaneSends(s, i) ==
    /\ lane[s][i] = "open"
    /\ frame[s][i] = "queued"
    /\ frame' = [frame EXCEPT ![s][i] = "sent"]
    /\ UNCHANGED <<ended, closing, openerVars, failVars, tableVars, carrierVars, laneVars>>

\* The writer's select may take the cancellation before a queued frame.
LaneStops(s, i) ==
    /\ lane[s][i] = "open"
    /\ stopped[s][i]
    /\ LaneExits(s, i, "closed")
    /\ UNCHANGED <<ended, stopped, openerVars, failVars, tableVars, carrierVars>>

LaneFails(s, i) ==
    /\ lane[s][i] = "open"
    /\ LaneExits(s, i, "failed")
    /\ End(s, i, "lane")
    /\ StopLane(s, i)
    /\ UNCHANGED <<openerVars, failVars, tableVars, carrierVars>>

LanePumpExits(s, i, c) ==
    /\ lanePump[s][i]
    /\ lanePump' = [lanePump EXCEPT ![s][i] = FALSE]
    /\ Fail(s, c)
    /\ UNCHANGED <<lane, stopped, openerVars, tableVars, carrierVars, streamVars>>

LanePumpFails(s, i) == \E c \in {"carrier", "decode"} : LanePumpExits(s, i, c)

\* The lane's own writer has closed the carrier.
LanePumpSeesClose(s, i) ==
    \/ lane[s][i] = "closed" /\ LanePumpExits(s, i, "laneend")
    \/ lane[s][i] = "failed" /\ LanePumpExits(s, i, "carrier")

LaneClose(s, i) == lanePump[s][i] /\ RelayEnds(s, i)

-----------------------------------------------------------------------------
(* Stream.Close, by the connection that got the stream *)

CloseStart(s, i) ==
    /\ i \in handed[s]
    /\ closing[s][i] = "no"
    /\ closing' = [closing EXCEPT ![s][i] = "send"]
    /\ End(s, i, "local")
    /\ UNCHANGED <<frame, openerVars, failVars, tableVars, carrierVars, laneVars>>

\* The queue takes the frame, even when its writer has left; or the closed
\* session refuses it.
SendClose(s, i) ==
    /\ closing[s][i] = "send"
    /\ closing' = [closing EXCEPT ![s][i] = "drop"]
    /\ \/ frame' = [frame EXCEPT ![s][i] = "queued"]
       \/ Done(s) /\ UNCHANGED frame
    /\ UNCHANGED <<ended, openerVars, failVars, tableVars, carrierVars, laneVars>>

CloseDrops(s, i) ==
    /\ closing[s][i] = "drop"
    /\ closing' = [closing EXCEPT ![s][i] = "stop"]
    /\ DropStream(s, i)
    /\ UNCHANGED <<nextID, ended, frame, openerVars, failVars, carrierVars, laneVars>>

CloseStops(s, i) ==
    /\ closing[s][i] = "stop"
    /\ closing' = [closing EXCEPT ![s][i] = "done"]
    /\ StopLane(s, i)
    /\ UNCHANGED <<ended, frame, lane, lanePump, openerVars, failVars, tableVars,
                   carrierVars>>

-----------------------------------------------------------------------------
Opener ==
    \/ OpenRefused \/ OpenExhausted \/ Open
    \/ StartShared \/ StartWithoutDialer \/ LaneDialled \/ LaneDialFails \/ LaneDialFailed
    \/ SendOpen \/ SendOpenLost \/ EstablishFails \/ establish

Failing(s) == FailCollects(s) \/ FailReturns(s) \/ \E i \in Ids : FailAborts(s, i)

Writer(s) == WriterStops(s) \/ WriterFails(s) \/ \E i \in Ids : WriterSends(s, i)

Pump(s) ==
    \/ PumpFails(s) \/ PumpSeesDialEnd(s) \/ PumpSeesClose(s)
    \/ \E i \in Ids : PumpClose(s, i)

LaneSteps(s, i) ==
    \/ LaneSends(s, i) \/ LaneStops(s, i) \/ LaneFails(s, i)
    \/ LanePumpFails(s, i) \/ LanePumpSeesClose(s, i) \/ LaneClose(s, i)

Closing(s, i) == SendClose(s, i) \/ CloseDrops(s, i) \/ CloseStops(s, i)

Next ==
    \/ Acquire \/ Opener
    \/ \E s \in Sessions :
          \/ DialContextEnds(s) \/ CloseSession(s)
          \/ Failing(s) \/ Writer(s) \/ Pump(s)
          \/ \E i \in Ids : CloseStart(s, i) \/ Closing(s, i) \/ LaneSteps(s, i)

Spec == Init /\ [][Next]_vars

\* Requests, dials and bootstraps carry deadlines, and goroutines that can
\* proceed do; connections are opened and closed only if someone wants to.
FairSpec ==
    /\ Spec
    /\ WF_vars(Opener)
    /\ \A s \in Sessions :
          /\ WF_vars(Failing(s))
          /\ WF_vars(WriterStops(s))
          /\ WF_vars(PumpSeesClose(s))

-----------------------------------------------------------------------------
OpenerTypes ==
    /\ session \in 0..MaxSessions
    /\ pc \in {"idle", "open", "start", "failing", "send", "establish"}
    /\ id \in 0..MaxStreamID
    /\ refusal \in {"none", "lost", "nodialer", "other"}
    /\ handed \in [Sessions -> SUBSET Ids]

SessionTypes ==
    /\ cause \in [Sessions -> Causes \cup {"none"}]
    /\ lost \in [Sessions -> Causes \cup {"none"}]
    /\ failing \in [Sessions -> {"no", "stop", "abort", "done"}]
    /\ toAbort \in [Sessions -> SUBSET Ids] /\ streams \in [Sessions -> SUBSET Ids]
    /\ nextID \in [Sessions -> 1..(MaxStreamID + 1)]

CarrierTypes ==
    /\ fresh \in BOOLEAN
    /\ mode \in [Sessions -> Modes \cup {"none"}]
    /\ dialCtx \in [Sessions -> BOOLEAN]
    /\ writer \in [Sessions -> BOOLEAN] /\ pump \in [Sessions -> BOOLEAN]
    /\ carrier \in [Sessions -> {"none", "open", "closed"}]

StreamTypes ==
    /\ ended \in [Sessions -> [Ids -> {"no", "local", "relay", "lost", "lane"}]]
    /\ closing \in [Sessions -> [Ids -> {"no", "send", "drop", "stop", "done"}]]
    /\ frame \in [Sessions -> [Ids -> {"none", "queued", "sent", "dropped"}]]

LaneTypes ==
    /\ lane \in [Sessions -> [Ids -> {"none", "open", "closed", "failed"}]]
    /\ lanePump \in [Sessions -> [Ids -> BOOLEAN]]
    /\ stopped \in [Sessions -> [Ids -> BOOLEAN]]

\* Resolver, sessions, streams and lanes stay within their types; no id beyond
\* the last is ever given out.
TypeOK == OpenerTypes /\ SessionTypes /\ CarrierTypes /\ StreamTypes /\ LaneTypes

\* A loss forgets nobody: once fail has returned, every stream a connection
\* holds knows its end, also one that was being opened while the session failed
\* (session.go:98-118, 224-243).
EveryStreamTold ==
    \A s \in Sessions : failing[s] = "done" =>
        \A i \in handed[s] : ended[s][i] # "no"

\* The resolver replaces a session only after it has begun to fail, so that it
\* never leaves a live one behind (resolver.go:112-135).
OneLiveSession ==
    \A s \in Sessions :
        s < session \/ (s = session /\ pc = "establish") => Done(s)

\* The table is the only way to a stream for pump and fail: a connection's
\* stream leaves it only when it knows its end (session.go:445-471, 557-570).
DroppedKnowsItsEnd ==
    \A s \in Sessions : \A i \in handed[s] \ streams[s] : ended[s][i] # "no"

\* Whatever happens, the holder of the resolver's mutex gives it back
\* (resolver.go:112-135).
AcquireReturns == pc # "idle" ~> pc = "idle"

\* A lost session lets go of its carrier, and its pump ends
\* (session.go:273-282, 310-323).
CarrierReleased ==
    \A s \in Sessions : Done(s) ~> ~writer[s] /\ ~pump[s] /\ carrier[s] # "open"

\* session.go:37-38 "A session loss is terminal: the caller must run a full
\* re-bootstrap": no connection is refused because an earlier session is lost.
LossIsRebootstrapped == refusal # "lost"

\* session.go:61-63 names the lane-zero poller of https-lanes as the session's
\* carrier, carrier.go:77 https-lanes a "stream-aware" carrier: its streams open.
LanesCanOpen == refusal # "nodialer"

\* session.go:525 "lane lifetime is stream-scoped": the end of one stream's lane
\* does not end the session.
LaneIsStreamScoped == \A s \in Sessions : lost[s] # "laneend"
=============================================================================
