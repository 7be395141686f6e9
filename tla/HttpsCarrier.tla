---------------------------- MODULE HttpsCarrier ----------------------------
(* The HTTPS carrier of a web-proxy session: its bootstrap (webproxy/           *)
(* bootstrap.go), the numbered uplink of its writer, and the downlink its       *)
(* poller fetches by cursor and the session's pump receives (carrier.go).       *)
(* Every request goes through exchange, which repeats it after a 503 or a lost  *)
(* answer, so the relay may see it more than once.                              *)
(* Batches are numbered in the order they are sent. Of the relay the code shows *)
(* that it acknowledges a sequence number and serves what is behind a cursor:    *)
(* the next batch with the cursor after it, or nothing, and then the cursor may  *)
(* move too, over positions that hold no batch. A repeated number is             *)
(* acknowledged and not taken twice.                                            *)
EXTENDS Integers, Sequences, SequencesExt

CONSTANTS
    Preferred,     \* Config.CarrierMode
    SeqModulus,    \* sequence numbers are modulo this, 2^64 in the code
    MaxFailures,   \* maxNetworkErrors
    InboxSize,     \* deliveryBuffer
    MaxUp, MaxDown \* bounds: batches of the session and of the relay

Offered == {"websocket", "websocket-lanes", "https", "https-lanes"}
\* Of the constants; an instance states it as its assumption.
CarrierAssumption ==
    /\ Preferred \in Offered \cup {"auto"}
    /\ SeqModulus \in Nat \ {0, 1} /\ MaxFailures \in Nat \ {0} /\ InboxSize \in Nat \ {0}
    /\ MaxUp \in Nat /\ MaxDown \in Nat

VARIABLES
    phase,                          \* bootstrap, then the carrier
    sent, seq, upFailures, upState, \* writer: batches handed over, c.seq, exchange
    taken,                          \* relay: the uplink batches it took, in order
    produced, blank, laneEnded,     \* relay: its downlink, what of it is no batch, its end
    cursor, downFailures, poller,   \* pollLoop
    inbox, terminal, closed,        \* c.inbox, c.terminal, c.done
    reader, received                \* the session's pump

upVars == <<sent, seq, upFailures, upState, taken>>
relayVars == <<produced, blank, laneEnded>>
pollVars == <<cursor, downFailures, poller>>
readVars == <<reader, received>>
carrierVars == <<phase, upVars, relayVars, pollVars, inbox, terminal, closed, readVars>>

Err == 0  \* a delivery that carries an error
-----------------------------------------------------------------------------
(* exchange *)

\* One more attempt at the same request, or the end of its budget.
Again(failures) == failures < MaxFailures - 1 /\ ~closed

CarrierInit ==
    /\ phase = "page"
    /\ sent = 0 /\ seq = 1 /\ upFailures = 0 /\ upState = "idle" /\ taken = <<>>
    /\ produced = 0 /\ blank = {} /\ laneEnded = FALSE
    /\ cursor = 0 /\ downFailures = 0 /\ poller = "off"
    /\ inbox = <<>> /\ terminal = FALSE /\ closed = FALSE
    /\ reader = "idle" /\ received = <<>>

-----------------------------------------------------------------------------
(* Bootstrap *)

FetchBridgePage ==
    /\ phase = "page"
    /\ phase' \in {"hello", "refused"}
    /\ UNCHANGED <<upVars, relayVars, pollVars, inbox, terminal, closed, readVars>>

\* The WELCOME has to offer a known mode, the preferred one if there is one. Only
\* the HTTPS modes go on here; the answer's cursor is not looked at again.
PostSession ==
    /\ phase = "hello"
    /\ \E mode \in Offered \cup {"unknown"} :
          phase' = IF mode \in {"https", "https-lanes"} /\ Preferred \in {"auto", mode}
                   THEN "open" ELSE "refused"
    /\ UNCHANGED <<upVars, relayVars, pollVars, inbox, terminal, closed, readVars>>

-----------------------------------------------------------------------------
(* Uplink *)

\* The writer of the session hands over its next batch, and gives up on an error.
Send ==
    /\ phase = "open" /\ upState = "idle" /\ sent < MaxUp
    /\ IF seq = 0 THEN upState' = "failed" /\ UNCHANGED <<sent, upFailures>>
       ELSE upState' = "asking" /\ sent' = sent + 1 /\ upFailures' = 0
    /\ UNCHANGED <<phase, seq, taken, relayVars, pollVars, inbox, terminal, closed, readVars>>

\* The relay takes the batch under the next number and acknowledges an old one.
RelayTakes(number) == IF number = Len(taken) + 1 THEN Append(taken, sent) ELSE taken
Acknowledges(number) == number <= Len(taken')

\* Mutant: a request that is repeated moves on to the next number.
UpLostRenumbered ==
    /\ upState = "asking"
    /\ taken' \in {taken, RelayTakes(seq)}
    /\ IF Again(upFailures) THEN upFailures' = upFailures + 1 /\ seq' = (seq + 1) % SeqModulus
                                 /\ UNCHANGED upState
       ELSE upState' = "failed" /\ UNCHANGED <<upFailures, seq>>
    /\ UNCHANGED <<phase, sent, relayVars, pollVars, inbox, terminal, closed, readVars>>

\* The request or its answer is lost on the way.
UpLost ==
    /\ upState = "asking"
    /\ taken' \in {taken, RelayTakes(seq)}
    /\ IF Again(upFailures) THEN upFailures' = upFailures + 1 /\ UNCHANGED upState
       ELSE upState' = "failed" /\ UNCHANGED upFailures
    /\ UNCHANGED <<phase, sent, seq, relayVars, pollVars, inbox, terminal, closed, readVars>>

\* 503 till the retry budget is over, another status, or a wrong acknowledgement.
UpRefused ==
    /\ upState = "asking"
    /\ upState' = "failed"
    /\ UNCHANGED <<phase, sent, seq, upFailures, taken, relayVars, pollVars, inbox, terminal,
                   closed, readVars>>

UpAcknowledged ==
    /\ upState = "asking"
    /\ taken' = RelayTakes(seq) /\ Acknowledges(seq)
    /\ seq' = (seq + 1) % SeqModulus /\ upState' = "idle"
    /\ UNCHANGED <<phase, sent, upFailures, relayVars, pollVars, inbox, terminal, closed, readVars>>

-----------------------------------------------------------------------------
(* Downlink *)

\* The relay has another batch, or a position without one, or ends the lane.
RelayProduces ==
    /\ phase = "open" /\ ~laneEnded
    /\ \/ produced < MaxDown /\ produced' = produced + 1 /\ UNCHANGED laneEnded
          /\ blank' \in {blank, blank \cup {produced'}}
       \/ laneEnded' = TRUE /\ UNCHANGED <<produced, blank>>
    /\ UNCHANGED <<phase, upVars, pollVars, inbox, terminal, closed, readVars>>

PollFails == poller' = "failing" /\ UNCHANGED cursor

\* Mutant: a lost answer counts as read.
PollLostAdvances ==
    /\ poller = "asking"
    /\ IF Again(downFailures)
       THEN /\ downFailures' = downFailures + 1
            /\ cursor' \in {cursor, IF produced > cursor THEN cursor + 1 ELSE cursor}
            /\ UNCHANGED poller
       ELSE PollFails /\ UNCHANGED downFailures
    /\ UNCHANGED <<phase, upVars, relayVars, inbox, terminal, closed, readVars>>

\* A repeated poll carries the cursor of the first.
PollLost ==
    /\ poller = "asking"
    /\ IF Again(downFailures) THEN downFailures' = downFailures + 1 /\ UNCHANGED <<poller, cursor>>
       ELSE PollFails /\ UNCHANGED downFailures
    /\ UNCHANGED <<phase, upVars, relayVars, inbox, terminal, closed, readVars>>

\* Too many 503s, another status, a body that breaks off, a cursor that is none.
PollRefused ==
    /\ poller = "asking" /\ PollFails
    /\ UNCHANGED <<phase, upVars, relayVars, downFailures, inbox, terminal, closed, readVars>>

\* 200: the next batch behind the cursor.
PollBatch ==
    /\ poller = "asking"
    /\ cursor' \in (cursor + 1)..produced \ blank
    /\ (cursor + 1)..(cursor' - 1) \subseteq blank
    /\ poller' = "delivering" /\ downFailures' = 0
    /\ UNCHANGED <<phase, upVars, relayVars, inbox, terminal, closed, readVars>>

\* 204: nothing any more, or nothing yet and a cursor that may differ from the last.
PollEmpty ==
    /\ poller = "asking" /\ (cursor + 1)..produced \subseteq blank
    /\ IF laneEnded THEN PollFails ELSE cursor' \in cursor..produced /\ UNCHANGED poller
    /\ downFailures' = 0
    /\ UNCHANGED <<phase, upVars, relayVars, inbox, terminal, closed, readVars>>

\* deliver: the inbox takes it, or the carrier has been closed.
Deliver ==
    /\ poller = "delivering" \/ (poller = "failing" /\ terminal)
    /\ \/ Len(inbox) < InboxSize
          /\ inbox' = Append(inbox, IF poller = "failing" THEN Err ELSE cursor)
       \/ closed /\ UNCHANGED inbox
    /\ poller' = IF poller = "failing" THEN "ended" ELSE "asking"
    /\ UNCHANGED <<phase, upVars, relayVars, cursor, downFailures, terminal, closed, readVars>>

\* pollLoop records its error before it delivers it.
RecordTerminal ==
    /\ poller = "failing" /\ ~terminal
    /\ terminal' = TRUE
    /\ UNCHANGED <<phase, upVars, relayVars, pollVars, inbox, closed, readVars>>

\* Recv looks for an end first, whatever is queued; the first one starts the poller.
Recv ==
    /\ phase = "open" /\ reader = "idle"
    /\ reader' = IF terminal THEN "ended" ELSE "waiting"
    /\ IF poller = "off" /\ ~terminal THEN poller' = "asking" ELSE UNCHANGED poller
    /\ UNCHANGED <<phase, upVars, relayVars, cursor, downFailures, inbox, terminal, closed, received>>

RecvDelivery ==
    /\ reader = "waiting" /\ inbox # <<>>
    /\ inbox' = Tail(inbox)
    /\ IF Head(inbox) = Err THEN reader' = "ended" /\ terminal' = TRUE /\ UNCHANGED received
       ELSE reader' = "idle" /\ received' = Append(received, Head(inbox)) /\ UNCHANGED terminal
    /\ UNCHANGED <<phase, upVars, relayVars, pollVars, closed>>

RecvClosed ==
    /\ reader = "waiting" /\ closed
    /\ reader' = "ended" /\ terminal' = TRUE
    /\ UNCHANGED <<phase, upVars, relayVars, pollVars, inbox, closed, received>>

\* Close, or the end of the context the carrier was dialled with.
Close ==
    /\ phase = "open" /\ ~closed
    /\ closed' = TRUE
    /\ UNCHANGED <<phase, upVars, relayVars, pollVars, inbox, terminal, readVars>>

CarrierNext ==
    \/ FetchBridgePage \/ PostSession
    \/ Send \/ UpLost \/ UpRefused \/ UpAcknowledged
    \/ RelayProduces \/ PollLost \/ PollRefused \/ PollBatch \/ PollEmpty \/ Deliver
    \/ RecordTerminal \/ Recv \/ RecvDelivery \/ RecvClosed \/ Close

CarrierSpec == CarrierInit /\ [][CarrierNext]_carrierVars
-----------------------------------------------------------------------------
(* Properties *)

Upto(n) == [i \in 1..n |-> i]

\* Lost answers make exchange repeat a POST that the relay has already taken
\* (bootstrap.go:271): the relay still holds the batches the writer sent, each once
\* and in order, and at most the one under way more than were acknowledged.
UplinkOnce ==
    /\ taken = Upto(Len(taken))
    /\ Len(taken) \in {sent - 1, sent}
    /\ upState = "idle" => Len(taken) = sent

\* Every batch the cursor has passed has been read, is queued or is being
\* delivered, in order and once, whatever answers of the relay were lost and
\* however its cursor moves; only a closed carrier may drop one. An error is the
\* last thing in the inbox. (A queued batch need not be read: Recv hands over an
\* end that is recorded before it looks into the inbox.)
DownlinkOnce ==
    LET batches == IF inbox # <<>> /\ Last(inbox) = Err THEN Front(inbox) ELSE inbox
        onTheWay == IF poller = "delivering" THEN <<cursor>> ELSE <<>>
        handed == received \o batches \o onTheWay
    IN /\ ~closed => ToSet(handed) = (1..cursor) \ blank
       /\ \A i, j \in DOMAIN handed : i < j => handed[i] < handed[j]
=============================================================================
