-------------------------- MODULE WebSessionProofs --------------------------
(***************************************************************************)
(* Theorems about sessions and streams of the web proxy, for every mode    *)
(* and any number of sessions and streams.                                 *)
(*                                                                         *)
(* That a loss forgets nobody depends on the order in Session.fail: the    *)
(* streams are collected under the mutex under which the loss is written   *)
(* and looked at by Open, so a stream is in the collection, or was dropped *)
(* by somebody who told it first, or is never registered.                  *)
(***************************************************************************)
EXTENDS WebSession, TLAPS

\* The opener works on a session and on a stream of it.
Opening ==
    /\ pc \in {"open", "start", "failing", "send"} => session \in Sessions
    /\ pc \in {"start", "failing", "send"} =>
          /\ id \in Ids
          /\ id < nextID[session] /\ id \notin handed[session]
          /\ id \in streams[session] \/ ended[session][id] # "no"

\* fail stops the session first and writes the loss with the collection.
Failed ==
    \A s \in Sessions :
        /\ cause[s] = "none" <=> failing[s] = "no"
        /\ lost[s] # "none" <=> failing[s] \in {"abort", "done"}
        /\ failing[s] = "done" => toAbort[s] = {}

Reached(s, i) == i \in toAbort[s] \/ ended[s][i] # "no"

\* After the collection every registered stream has been told or will be.
Collected ==
    \A s \in Sessions : failing[s] \in {"abort", "done"} =>
        \A i \in streams[s] : Reached(s, i)

\* A stream that is being closed knows its end, and so does one a connection
\* has and the table has not.
Told ==
    \A s \in Sessions, i \in Ids :
        /\ closing[s][i] # "no" => ended[s][i] # "no"
        /\ i \in handed[s] =>
              i < nextID[s] /\ (i \in streams[s] \/ ended[s][i] # "no")

IInv == TypeOK /\ Opening /\ Failed /\ Collected /\ Told /\ OneLiveSession

-----------------------------------------------------------------------------

\* Every step keeps the types of the resolver.
LEMMA OpenerTypesStep ==
    ASSUME IInv, [Next]_vars
    PROVE  OpenerTypes'
<1> USE SessionAssumption DEF IInv, TypeOK, OpenerTypes, SessionTypes, Opening,
      openerVars, failVars, tableVars, carrierVars, streamVars, laneVars
<1>1. CASE Acquire
  BY <1>1 DEF Acquire
<1>2. CASE OpenRefused
  BY <1>2 DEF OpenRefused, OnLoss, Reestablish, ReturnError
<1>3. CASE OpenExhausted
  BY <1>3 DEF OpenExhausted, ReturnError
<1>4. CASE Open
  BY <1>4 DEF Open, Register
<1>5. CASE StartShared
  BY <1>5 DEF StartShared
<1>6. CASE StartWithoutDialer
  BY <1>6 DEF StartWithoutDialer, DropStream, ReturnError
<1>7. CASE LaneDialled
  BY <1>7 DEF LaneDialled
<1>8. CASE LaneDialFails
  BY <1>8 DEF LaneDialFails, Fail
<1>9. CASE LaneDialFailed
  BY <1>9 DEF LaneDialFailed, DropStream, OnLoss, Reestablish, ReturnError
<1>10. CASE SendOpen
  BY <1>10 DEF SendOpen
<1>11. CASE SendOpenLost
  BY <1>11 DEF SendOpenLost, DropStream, OnLoss, Reestablish, ReturnError, Done
<1>12. CASE EstablishFails
  BY <1>12 DEF EstablishFails
<1>13. CASE establish
  BY <1>13 DEF establish
<1>14. ASSUME NEW s \in Sessions, DialContextEnds(s) PROVE OpenerTypes'
  BY <1>14 DEF DialContextEnds
<1>15. ASSUME NEW s \in Sessions, CloseSession(s) PROVE OpenerTypes'
  BY <1>15 DEF CloseSession, Fail
<1>16. ASSUME NEW s \in Sessions, FailCollects(s) PROVE OpenerTypes'
  BY <1>16 DEF FailCollects
<1>17. ASSUME NEW s \in Sessions, FailReturns(s) PROVE OpenerTypes'
  BY <1>17 DEF FailReturns
<1>18. ASSUME NEW s \in Sessions, NEW i \in Ids, FailAborts(s, i) PROVE OpenerTypes'
  BY <1>18 DEF FailAborts, End, StopLane
<1>19. ASSUME NEW s \in Sessions, WriterStops(s) PROVE OpenerTypes'
  BY <1>19 DEF WriterStops, WriterExits
<1>20. ASSUME NEW s \in Sessions, WriterFails(s) PROVE OpenerTypes'
  BY <1>20 DEF WriterFails, WriterExits, Fail
<1>21. ASSUME NEW s \in Sessions, NEW i \in Ids, WriterSends(s, i) PROVE OpenerTypes'
  BY <1>21 DEF WriterSends
<1>22. ASSUME NEW s \in Sessions, PumpFails(s) PROVE OpenerTypes'
  <2>1. PICK c \in {"carrier", "decode"} : PumpExits(s, c)
    BY <1>22 DEF PumpFails
  <2> QED
    BY <2>1 DEF PumpExits, Fail, Causes
<1>23. ASSUME NEW s \in Sessions, PumpSeesDialEnd(s) PROVE OpenerTypes'
  BY <1>23 DEF PumpSeesDialEnd, PumpExits, Fail, Causes
<1>24. ASSUME NEW s \in Sessions, PumpSeesClose(s) PROVE OpenerTypes'
  BY <1>24 DEF PumpSeesClose, PumpExits, Fail, Causes
<1>25. ASSUME NEW s \in Sessions, NEW i \in Ids, PumpClose(s, i) PROVE OpenerTypes'
  BY <1>25 DEF PumpClose, RelayEnds, End, DropStream, StopLane
<1>26. ASSUME NEW s \in Sessions, NEW i \in Ids, CloseStart(s, i) PROVE OpenerTypes'
  BY <1>26 DEF CloseStart, End
<1>27. ASSUME NEW s \in Sessions, NEW i \in Ids, SendClose(s, i) PROVE OpenerTypes'
  BY <1>27 DEF SendClose
<1>28. ASSUME NEW s \in Sessions, NEW i \in Ids, CloseDrops(s, i) PROVE OpenerTypes'
  BY <1>28 DEF CloseDrops, DropStream
<1>29. ASSUME NEW s \in Sessions, NEW i \in Ids, CloseStops(s, i) PROVE OpenerTypes'
  BY <1>29 DEF CloseStops, StopLane
<1>30. ASSUME NEW s \in Sessions, NEW i \in Ids, LaneSends(s, i) PROVE OpenerTypes'
  BY <1>30 DEF LaneSends
<1>31. ASSUME NEW s \in Sessions, NEW i \in Ids, LaneStops(s, i) PROVE OpenerTypes'
  BY <1>31 DEF LaneStops, LaneExits
<1>32. ASSUME NEW s \in Sessions, NEW i \in Ids, LaneFails(s, i) PROVE OpenerTypes'
  BY <1>32 DEF LaneFails, LaneExits, End, StopLane
<1>33. ASSUME NEW s \in Sessions, NEW i \in Ids, LanePumpFails(s, i) PROVE OpenerTypes'
  <2>1. PICK c \in {"carrier", "decode"} : LanePumpExits(s, i, c)
    BY <1>33 DEF LanePumpFails
  <2> QED
    BY <2>1 DEF LanePumpExits, Fail, Causes
<1>34. ASSUME NEW s \in Sessions, NEW i \in Ids, LanePumpSeesClose(s, i) PROVE OpenerTypes'
  <2>1. PICK c \in {"carrier", "laneend"} : LanePumpExits(s, i, c)
    BY <1>34 DEF LanePumpSeesClose
  <2> QED
    BY <2>1 DEF LanePumpExits, Fail, Causes
<1>35. ASSUME NEW s \in Sessions, NEW i \in Ids, LaneClose(s, i) PROVE OpenerTypes'
  BY <1>35 DEF LaneClose, RelayEnds, End, DropStream, StopLane
<1>36. CASE UNCHANGED vars
  BY <1>36 DEF vars
<1> HIDE DEF IInv, TypeOK, OpenerTypes, SessionTypes, Opening
<1> QED
    BY <1>1, <1>2, <1>3, <1>4, <1>5, <1>6, <1>7, <1>8, <1>9, <1>10, <1>11, <1>12,
     <1>13, <1>14, <1>15, <1>16, <1>17, <1>18, <1>19, <1>20, <1>21, <1>22, <1>23,
     <1>24, <1>25, <1>26, <1>27, <1>28, <1>29, <1>30, <1>31, <1>32, <1>33, <1>34,
     <1>35, <1>36 DEF Next, Opener, Failing, Writer, Pump, LaneSteps, Closing

\* fail, called with a cause it knows, keeps them.
LEMMA FailTypes ==
    ASSUME SessionTypes, NEW s \in Sessions, NEW c \in Causes, Fail(s, c),
           UNCHANGED tableVars
    PROVE  SessionTypes'
BY DEF SessionTypes, Fail, failVars, tableVars

\* Every step keeps the types of the sessions.
LEMMA SessionTypesStep ==
    ASSUME IInv, [Next]_vars
    PROVE  SessionTypes'
<1> USE SessionAssumption DEF IInv, TypeOK, OpenerTypes, SessionTypes, Opening,
      Sessions, Ids, Causes, openerVars, failVars, tableVars, carrierVars, streamVars,
      laneVars
<1>1. CASE Acquire
  BY <1>1 DEF Acquire
<1>2. CASE OpenRefused
  BY <1>2 DEF OpenRefused, OnLoss, Reestablish, ReturnError
<1>3. CASE OpenExhausted
  BY <1>3 DEF OpenExhausted, ReturnError
<1>4. CASE Open
  BY <1>4 DEF Open, Register
<1>5. CASE StartShared
  BY <1>5 DEF StartShared
<1>6. CASE StartWithoutDialer
  BY <1>6 DEF StartWithoutDialer, DropStream, ReturnError
<1>7. CASE LaneDialled
  BY <1>7 DEF LaneDialled
<1>8. CASE LaneDialFails
  BY <1>8 DEF LaneDialFails, Fail
<1>9. CASE LaneDialFailed
  BY <1>9 DEF LaneDialFailed, DropStream, OnLoss, Reestablish, ReturnError
<1>10. CASE SendOpen
  BY <1>10 DEF SendOpen
<1>11. CASE SendOpenLost
  BY <1>11 DEF SendOpenLost, DropStream, OnLoss, Reestablish, ReturnError, Done
<1>12. CASE EstablishFails
  BY <1>12 DEF EstablishFails
<1>13. CASE establish
  BY <1>13 DEF establish
<1>14. ASSUME NEW s \in Sessions, DialContextEnds(s) PROVE SessionTypes'
  BY <1>14 DEF DialContextEnds
<1>15. ASSUME NEW s \in Sessions, CloseSession(s) PROVE SessionTypes'
  BY <1>15 DEF CloseSession, Fail
<1>16. ASSUME NEW s \in Sessions, FailCollects(s) PROVE SessionTypes'
  BY <1>16 DEF FailCollects
<1>17. ASSUME NEW s \in Sessions, FailReturns(s) PROVE SessionTypes'
  BY <1>17 DEF FailReturns
<1>18. ASSUME NEW s \in Sessions, NEW i \in Ids, FailAborts(s, i) PROVE SessionTypes'
  BY <1>18 DEF FailAborts, End, StopLane
<1>19. ASSUME NEW s \in Sessions, WriterStops(s) PROVE SessionTypes'
  BY <1>19 DEF WriterStops, WriterExits
<1>20. ASSUME NEW s \in Sessions, WriterFails(s) PROVE SessionTypes'
  BY <1>20 DEF WriterFails, WriterExits, Fail
<1>21. ASSUME NEW s \in Sessions, NEW i \in Ids, WriterSends(s, i) PROVE SessionTypes'
  BY <1>21 DEF WriterSends
<1>22. ASSUME NEW s \in Sessions, PumpFails(s) PROVE SessionTypes'
  <2>1. PICK c \in {"carrier", "decode"} : PumpExits(s, c)
    BY <1>22 DEF PumpFails
  <2> QED
    BY <2>1, FailTypes DEF PumpExits
<1>23. ASSUME NEW s \in Sessions, PumpSeesDialEnd(s) PROVE SessionTypes'
  BY <1>23 DEF PumpSeesDialEnd, PumpExits, Fail
<1>24. ASSUME NEW s \in Sessions, PumpSeesClose(s) PROVE SessionTypes'
  BY <1>24 DEF PumpSeesClose, PumpExits, Fail
<1>25. ASSUME NEW s \in Sessions, NEW i \in Ids, PumpClose(s, i) PROVE SessionTypes'
  BY <1>25 DEF PumpClose, RelayEnds, End, DropStream, StopLane
<1>26. ASSUME NEW s \in Sessions, NEW i \in Ids, CloseStart(s, i) PROVE SessionTypes'
  BY <1>26 DEF CloseStart, End
<1>27. ASSUME NEW s \in Sessions, NEW i \in Ids, SendClose(s, i) PROVE SessionTypes'
  BY <1>27 DEF SendClose
<1>28. ASSUME NEW s \in Sessions, NEW i \in Ids, CloseDrops(s, i) PROVE SessionTypes'
  BY <1>28 DEF CloseDrops, DropStream
<1>29. ASSUME NEW s \in Sessions, NEW i \in Ids, CloseStops(s, i) PROVE SessionTypes'
  BY <1>29 DEF CloseStops, StopLane
<1>30. ASSUME NEW s \in Sessions, NEW i \in Ids, LaneSends(s, i) PROVE SessionTypes'
  BY <1>30 DEF LaneSends
<1>31. ASSUME NEW s \in Sessions, NEW i \in Ids, LaneStops(s, i) PROVE SessionTypes'
  BY <1>31 DEF LaneStops, LaneExits
<1>32. ASSUME NEW s \in Sessions, NEW i \in Ids, LaneFails(s, i) PROVE SessionTypes'
  BY <1>32 DEF LaneFails, LaneExits, End, StopLane
<1>33. ASSUME NEW s \in Sessions, NEW i \in Ids, LanePumpFails(s, i) PROVE SessionTypes'
  <2>1. PICK c \in {"carrier", "decode"} : LanePumpExits(s, i, c)
    BY <1>33 DEF LanePumpFails
  <2> QED
    BY <2>1, FailTypes DEF LanePumpExits
<1>34. ASSUME NEW s \in Sessions, NEW i \in Ids, LanePumpSeesClose(s, i) PROVE SessionTypes'
  <2>1. PICK c \in {"carrier", "laneend"} : LanePumpExits(s, i, c)
    BY <1>34 DEF LanePumpSeesClose
  <2> QED
    BY <2>1, FailTypes DEF LanePumpExits
<1>35. ASSUME NEW s \in Sessions, NEW i \in Ids, LaneClose(s, i) PROVE SessionTypes'
  BY <1>35 DEF LaneClose, RelayEnds, End, DropStream, StopLane
<1>36. CASE UNCHANGED vars
  BY <1>36 DEF vars
<1> HIDE DEF IInv, TypeOK, OpenerTypes, SessionTypes, Opening, Sessions, Ids, Causes
<1> QED
    BY <1>1, <1>2, <1>3, <1>4, <1>5, <1>6, <1>7, <1>8, <1>9, <1>10, <1>11, <1>12,
     <1>13, <1>14, <1>15, <1>16, <1>17, <1>18, <1>19, <1>20, <1>21, <1>22, <1>23,
     <1>24, <1>25, <1>26, <1>27, <1>28, <1>29, <1>30, <1>31, <1>32, <1>33, <1>34,
     <1>35, <1>36 DEF Next, Opener, Failing, Writer, Pump, LaneSteps, Closing

\* Every step keeps the types of the carriers.
LEMMA CarrierTypesStep ==
    ASSUME IInv, [Next]_vars
    PROVE  CarrierTypes'
<1> USE SessionAssumption DEF IInv, TypeOK, OpenerTypes, CarrierTypes, Sessions,
      HasCarrier, Https, openerVars, failVars, tableVars, carrierVars, streamVars,
      laneVars
<1>1. CASE Acquire
  BY <1>1 DEF Acquire
<1>2. CASE OpenRefused
  BY <1>2 DEF OpenRefused, OnLoss, Reestablish, ReturnError
<1>3. CASE OpenExhausted
  BY <1>3 DEF OpenExhausted, ReturnError
<1>4. CASE Open
  BY <1>4 DEF Open, Register
<1>5. CASE StartShared
  BY <1>5 DEF StartShared
<1>6. CASE StartWithoutDialer
  BY <1>6 DEF StartWithoutDialer, DropStream, ReturnError
<1>7. CASE LaneDialled
  BY <1>7 DEF LaneDialled
<1>8. CASE LaneDialFails
  BY <1>8 DEF LaneDialFails, Fail
<1>9. CASE LaneDialFailed
  BY <1>9 DEF LaneDialFailed, DropStream, OnLoss, Reestablish, ReturnError
<1>10. CASE SendOpen
  BY <1>10 DEF SendOpen
<1>11. CASE SendOpenLost
  BY <1>11 DEF SendOpenLost, DropStream, OnLoss, Reestablish, ReturnError, Done
<1>12. CASE EstablishFails
  BY <1>12 DEF EstablishFails
<1>13. CASE establish
  BY <1>13 DEF establish
<1>14. ASSUME NEW s \in Sessions, DialContextEnds(s) PROVE CarrierTypes'
  BY <1>14 DEF DialContextEnds
<1>15. ASSUME NEW s \in Sessions, CloseSession(s) PROVE CarrierTypes'
  BY <1>15 DEF CloseSession, Fail
<1>16. ASSUME NEW s \in Sessions, FailCollects(s) PROVE CarrierTypes'
  BY <1>16 DEF FailCollects
<1>17. ASSUME NEW s \in Sessions, FailReturns(s) PROVE CarrierTypes'
  BY <1>17 DEF FailReturns
<1>18. ASSUME NEW s \in Sessions, NEW i \in Ids, FailAborts(s, i) PROVE CarrierTypes'
  BY <1>18 DEF FailAborts, End, StopLane
<1>19. ASSUME NEW s \in Sessions, WriterStops(s) PROVE CarrierTypes'
  BY <1>19 DEF WriterStops, WriterExits
<1>20. ASSUME NEW s \in Sessions, WriterFails(s) PROVE CarrierTypes'
  BY <1>20 DEF WriterFails, WriterExits, Fail
<1>21. ASSUME NEW s \in Sessions, NEW i \in Ids, WriterSends(s, i) PROVE CarrierTypes'
  BY <1>21 DEF WriterSends
<1>22. ASSUME NEW s \in Sessions, PumpFails(s) PROVE CarrierTypes'
  <2>1. PICK c \in {"carrier", "decode"} : PumpExits(s, c)
    BY <1>22 DEF PumpFails
  <2> QED
    BY <2>1 DEF PumpExits, Fail, Causes
<1>23. ASSUME NEW s \in Sessions, PumpSeesDialEnd(s) PROVE CarrierTypes'
  BY <1>23 DEF PumpSeesDialEnd, PumpExits, Fail, Causes
<1>24. ASSUME NEW s \in Sessions, PumpSeesClose(s) PROVE CarrierTypes'
  BY <1>24 DEF PumpSeesClose, PumpExits, Fail, Causes
<1>25. ASSUME NEW s \in Sessions, NEW i \in Ids, PumpClose(s, i) PROVE CarrierTypes'
  BY <1>25 DEF PumpClose, RelayEnds, End, DropStream, StopLane
<1>26. ASSUME NEW s \in Sessions, NEW i \in Ids, CloseStart(s, i) PROVE CarrierTypes'
  BY <1>26 DEF CloseStart, End
<1>27. ASSUME NEW s \in Sessions, NEW i \in Ids, SendClose(s, i) PROVE CarrierTypes'
  BY <1>27 DEF SendClose
<1>28. ASSUME NEW s \in Sessions, NEW i \in Ids, CloseDrops(s, i) PROVE CarrierTypes'
  BY <1>28 DEF CloseDrops, DropStream
<1>29. ASSUME NEW s \in Sessions, NEW i \in Ids, CloseStops(s, i) PROVE CarrierTypes'
  BY <1>29 DEF CloseStops, StopLane
<1>30. ASSUME NEW s \in Sessions, NEW i \in Ids, LaneSends(s, i) PROVE CarrierTypes'
  BY <1>30 DEF LaneSends
<1>31. ASSUME NEW s \in Sessions, NEW i \in Ids, LaneStops(s, i) PROVE CarrierTypes'
  BY <1>31 DEF LaneStops, LaneExits
<1>32. ASSUME NEW s \in Sessions, NEW i \in Ids, LaneFails(s, i) PROVE CarrierTypes'
  BY <1>32 DEF LaneFails, LaneExits, End, StopLane
<1>33. ASSUME NEW s \in Sessions, NEW i \in Ids, LanePumpFails(s, i) PROVE CarrierTypes'
  <2>1. PICK c \in {"carrier", "decode"} : LanePumpExits(s, i, c)
    BY <1>33 DEF LanePumpFails
  <2> QED
    BY <2>1 DEF LanePumpExits, Fail, Causes
<1>34. ASSUME NEW s \in Sessions, NEW i \in Ids, LanePumpSeesClose(s, i) PROVE CarrierTypes'
  <2>1. PICK c \in {"carrier", "laneend"} : LanePumpExits(s, i, c)
    BY <1>34 DEF LanePumpSeesClose
  <2> QED
    BY <2>1 DEF LanePumpExits, Fail, Causes
<1>35. ASSUME NEW s \in Sessions, NEW i \in Ids, LaneClose(s, i) PROVE CarrierTypes'
  BY <1>35 DEF LaneClose, RelayEnds, End, DropStream, StopLane
<1>36. CASE UNCHANGED vars
  BY <1>36 DEF vars
<1> HIDE DEF IInv, TypeOK, OpenerTypes, CarrierTypes, Sessions, HasCarrier, Https
<1> QED
    BY <1>1, <1>2, <1>3, <1>4, <1>5, <1>6, <1>7, <1>8, <1>9, <1>10, <1>11, <1>12,
     <1>13, <1>14, <1>15, <1>16, <1>17, <1>18, <1>19, <1>20, <1>21, <1>22, <1>23,
     <1>24, <1>25, <1>26, <1>27, <1>28, <1>29, <1>30, <1>31, <1>32, <1>33, <1>34,
     <1>35, <1>36 DEF Next, Opener, Failing, Writer, Pump, LaneSteps, Closing

\* Queueing the CLOSE frame or not keeps the types of the streams.
LEMMA SendCloseTypes ==
    ASSUME StreamTypes, NEW s \in Sessions, NEW i \in Ids, SendClose(s, i)
    PROVE  StreamTypes'
<1>1. closing' = [closing EXCEPT ![s][i] = "drop"] /\ ended' = ended
  BY DEF SendClose
<1>2. frame' = [frame EXCEPT ![s][i] = "queued"] \/ frame' = frame
  BY DEF SendClose
<1>3. closing' \in [Sessions -> [Ids -> {"no", "send", "drop", "stop", "done"}]]
  BY <1>1 DEF StreamTypes
<1>4. frame' \in [Sessions -> [Ids -> {"none", "queued", "sent", "dropped"}]]
  <2>1. frame \in [Sessions -> [Ids -> {"none", "queued", "sent", "dropped"}]]
    BY DEF StreamTypes
  <2>2. CASE frame' = [frame EXCEPT ![s][i] = "queued"]
    BY <2>1, <2>2
  <2>3. CASE frame' = frame
    BY <2>1, <2>3
  <2> QED
    BY <1>2, <2>2, <2>3
<1>5. ended' \in [Sessions -> [Ids -> {"no", "local", "relay", "lost", "lane"}]]
  BY <1>1 DEF StreamTypes
<1> QED
  BY <1>3, <1>4, <1>5 DEF StreamTypes

\* Every step keeps the types of the streams.
LEMMA StreamTypesStep ==
    ASSUME IInv, [Next]_vars
    PROVE  StreamTypes'
<1> USE SessionAssumption DEF IInv, TypeOK, OpenerTypes, StreamTypes, openerVars,
      failVars, tableVars, carrierVars, streamVars, laneVars
<1>1. CASE Acquire
  BY <1>1 DEF Acquire
<1>2. CASE OpenRefused
  BY <1>2 DEF OpenRefused, OnLoss, Reestablish, ReturnError
<1>3. CASE OpenExhausted
  BY <1>3 DEF OpenExhausted, ReturnError
<1>4. CASE Open
  BY <1>4 DEF Open, Register
<1>5. CASE StartShared
  BY <1>5 DEF StartShared
<1>6. CASE StartWithoutDialer
  BY <1>6 DEF StartWithoutDialer, DropStream, ReturnError
<1>7. CASE LaneDialled
  BY <1>7 DEF LaneDialled
<1>8. CASE LaneDialFails
  BY <1>8 DEF LaneDialFails, Fail
<1>9. CASE LaneDialFailed
  BY <1>9 DEF LaneDialFailed, DropStream, OnLoss, Reestablish, ReturnError
<1>10. CASE SendOpen
  BY <1>10 DEF SendOpen
<1>11. CASE SendOpenLost
  BY <1>11 DEF SendOpenLost, DropStream, OnLoss, Reestablish, ReturnError, Done
<1>12. CASE EstablishFails
  BY <1>12 DEF EstablishFails
<1>13. CASE establish
  BY <1>13 DEF establish
<1>14. ASSUME NEW s \in Sessions, DialContextEnds(s) PROVE StreamTypes'
  BY <1>14 DEF DialContextEnds
<1>15. ASSUME NEW s \in Sessions, CloseSession(s) PROVE StreamTypes'
  BY <1>15 DEF CloseSession, Fail
<1>16. ASSUME NEW s \in Sessions, FailCollects(s) PROVE StreamTypes'
  BY <1>16 DEF FailCollects
<1>17. ASSUME NEW s \in Sessions, FailReturns(s) PROVE StreamTypes'
  BY <1>17 DEF FailReturns
<1>18. ASSUME NEW s \in Sessions, NEW i \in Ids, FailAborts(s, i) PROVE StreamTypes'
  BY <1>18 DEF FailAborts, End, StopLane
<1>19. ASSUME NEW s \in Sessions, WriterStops(s) PROVE StreamTypes'
  BY <1>19 DEF WriterStops, WriterExits
<1>20. ASSUME NEW s \in Sessions, WriterFails(s) PROVE StreamTypes'
  BY <1>20 DEF WriterFails, WriterExits, Fail
<1>21. ASSUME NEW s \in Sessions, NEW i \in Ids, WriterSends(s, i) PROVE StreamTypes'
  BY <1>21 DEF WriterSends
<1>22. ASSUME NEW s \in Sessions, PumpFails(s) PROVE StreamTypes'
  <2>1. PICK c \in {"carrier", "decode"} : PumpExits(s, c)
    BY <1>22 DEF PumpFails
  <2> QED
    BY <2>1 DEF PumpExits, Fail, Causes
<1>23. ASSUME NEW s \in Sessions, PumpSeesDialEnd(s) PROVE StreamTypes'
  BY <1>23 DEF PumpSeesDialEnd, PumpExits, Fail, Causes
<1>24. ASSUME NEW s \in Sessions, PumpSeesClose(s) PROVE StreamTypes'
  BY <1>24 DEF PumpSeesClose, PumpExits, Fail, Causes
<1>25. ASSUME NEW s \in Sessions, NEW i \in Ids, PumpClose(s, i) PROVE StreamTypes'
  BY <1>25 DEF PumpClose, RelayEnds, End, DropStream, StopLane
<1>26. ASSUME NEW s \in Sessions, NEW i \in Ids, CloseStart(s, i) PROVE StreamTypes'
  BY <1>26 DEF CloseStart, End
<1>27. ASSUME NEW s \in Sessions, NEW i \in Ids, SendClose(s, i) PROVE StreamTypes'
  BY <1>27, SendCloseTypes
<1>28. ASSUME NEW s \in Sessions, NEW i \in Ids, CloseDrops(s, i) PROVE StreamTypes'
  BY <1>28 DEF CloseDrops, DropStream
<1>29. ASSUME NEW s \in Sessions, NEW i \in Ids, CloseStops(s, i) PROVE StreamTypes'
  BY <1>29 DEF CloseStops, StopLane
<1>30. ASSUME NEW s \in Sessions, NEW i \in Ids, LaneSends(s, i) PROVE StreamTypes'
  BY <1>30 DEF LaneSends
<1>31. ASSUME NEW s \in Sessions, NEW i \in Ids, LaneStops(s, i) PROVE StreamTypes'
  BY <1>31 DEF LaneStops, LaneExits
<1>32. ASSUME NEW s \in Sessions, NEW i \in Ids, LaneFails(s, i) PROVE StreamTypes'
  BY <1>32 DEF LaneFails, LaneExits, End, StopLane
<1>33. ASSUME NEW s \in Sessions, NEW i \in Ids, LanePumpFails(s, i) PROVE StreamTypes'
  <2>1. PICK c \in {"carrier", "decode"} : LanePumpExits(s, i, c)
    BY <1>33 DEF LanePumpFails
  <2> QED
    BY <2>1 DEF LanePumpExits, Fail, Causes
<1>34. ASSUME NEW s \in Sessions, NEW i \in Ids, LanePumpSeesClose(s, i) PROVE StreamTypes'
  <2>1. PICK c \in {"carrier", "laneend"} : LanePumpExits(s, i, c)
    BY <1>34 DEF LanePumpSeesClose
  <2> QED
    BY <2>1 DEF LanePumpExits, Fail, Causes
<1>35. ASSUME NEW s \in Sessions, NEW i \in Ids, LaneClose(s, i) PROVE StreamTypes'
  BY <1>35 DEF LaneClose, RelayEnds, End, DropStream, StopLane
<1>36. CASE UNCHANGED vars
  BY <1>36 DEF vars
<1> HIDE DEF IInv, TypeOK, OpenerTypes, StreamTypes
<1> QED
    BY <1>1, <1>2, <1>3, <1>4, <1>5, <1>6, <1>7, <1>8, <1>9, <1>10, <1>11, <1>12,
     <1>13, <1>14, <1>15, <1>16, <1>17, <1>18, <1>19, <1>20, <1>21, <1>22, <1>23,
     <1>24, <1>25, <1>26, <1>27, <1>28, <1>29, <1>30, <1>31, <1>32, <1>33, <1>34,
     <1>35, <1>36 DEF Next, Opener, Failing, Writer, Pump, LaneSteps, Closing

\* Every step keeps the types of the lanes.
LEMMA LaneTypesStep ==
    ASSUME IInv, [Next]_vars
    PROVE  LaneTypes'
<1> USE SessionAssumption DEF IInv, TypeOK, OpenerTypes, LaneTypes, Opening,
      DialsLanes, openerVars, failVars, tableVars, carrierVars, streamVars, laneVars
<1>1. CASE Acquire
  BY <1>1 DEF Acquire
<1>2. CASE OpenRefused
  BY <1>2 DEF OpenRefused, OnLoss, Reestablish, ReturnError
<1>3. CASE OpenExhausted
  BY <1>3 DEF OpenExhausted, ReturnError
<1>4. CASE Open
  BY <1>4 DEF Open, Register
<1>5. CASE StartShared
  BY <1>5 DEF StartShared
<1>6. CASE StartWithoutDialer
  BY <1>6 DEF StartWithoutDialer, DropStream, ReturnError
<1>7. CASE LaneDialled
  BY <1>7 DEF LaneDialled
<1>8. CASE LaneDialFails
  BY <1>8 DEF LaneDialFails, Fail
<1>9. CASE LaneDialFailed
  BY <1>9 DEF LaneDialFailed, DropStream, OnLoss, Reestablish, ReturnError
<1>10. CASE SendOpen
  BY <1>10 DEF SendOpen
<1>11. CASE SendOpenLost
  BY <1>11 DEF SendOpenLost, DropStream, OnLoss, Reestablish, ReturnError, Done
<1>12. CASE EstablishFails
  BY <1>12 DEF EstablishFails
<1>13. CASE establish
  BY <1>13 DEF establish
<1>14. ASSUME NEW s \in Sessions, DialContextEnds(s) PROVE LaneTypes'
  BY <1>14 DEF DialContextEnds
<1>15. ASSUME NEW s \in Sessions, CloseSession(s) PROVE LaneTypes'
  BY <1>15 DEF CloseSession, Fail
<1>16. ASSUME NEW s \in Sessions, FailCollects(s) PROVE LaneTypes'
  BY <1>16 DEF FailCollects
<1>17. ASSUME NEW s \in Sessions, FailReturns(s) PROVE LaneTypes'
  BY <1>17 DEF FailReturns
<1>18. ASSUME NEW s \in Sessions, NEW i \in Ids, FailAborts(s, i) PROVE LaneTypes'
  BY <1>18 DEF FailAborts, End, StopLane
<1>19. ASSUME NEW s \in Sessions, WriterStops(s) PROVE LaneTypes'
  BY <1>19 DEF WriterStops, WriterExits
<1>20. ASSUME NEW s \in Sessions, WriterFails(s) PROVE LaneTypes'
  BY <1>20 DEF WriterFails, WriterExits, Fail
<1>21. ASSUME NEW s \in Sessions, NEW i \in Ids, WriterSends(s, i) PROVE LaneTypes'
  BY <1>21 DEF WriterSends
<1>22. ASSUME NEW s \in Sessions, PumpFails(s) PROVE LaneTypes'
  <2>1. PICK c \in {"carrier", "decode"} : PumpExits(s, c)
    BY <1>22 DEF PumpFails
  <2> QED
    BY <2>1 DEF PumpExits, Fail, Causes
<1>23. ASSUME NEW s \in Sessions, PumpSeesDialEnd(s) PROVE LaneTypes'
  BY <1>23 DEF PumpSeesDialEnd, PumpExits, Fail, Causes
<1>24. ASSUME NEW s \in Sessions, PumpSeesClose(s) PROVE LaneTypes'
  BY <1>24 DEF PumpSeesClose, PumpExits, Fail, Causes
<1>25. ASSUME NEW s \in Sessions, NEW i \in Ids, PumpClose(s, i) PROVE LaneTypes'
  BY <1>25 DEF PumpClose, RelayEnds, End, DropStream, StopLane
<1>26. ASSUME NEW s \in Sessions, NEW i \in Ids, CloseStart(s, i) PROVE LaneTypes'
  BY <1>26 DEF CloseStart, End
<1>27. ASSUME NEW s \in Sessions, NEW i \in Ids, SendClose(s, i) PROVE LaneTypes'
  BY <1>27 DEF SendClose
<1>28. ASSUME NEW s \in Sessions, NEW i \in Ids, CloseDrops(s, i) PROVE LaneTypes'
  BY <1>28 DEF CloseDrops, DropStream
<1>29. ASSUME NEW s \in Sessions, NEW i \in Ids, CloseStops(s, i) PROVE LaneTypes'
  BY <1>29 DEF CloseStops, StopLane
<1>30. ASSUME NEW s \in Sessions, NEW i \in Ids, LaneSends(s, i) PROVE LaneTypes'
  BY <1>30 DEF LaneSends
<1>31. ASSUME NEW s \in Sessions, NEW i \in Ids, LaneStops(s, i) PROVE LaneTypes'
  BY <1>31 DEF LaneStops, LaneExits
<1>32. ASSUME NEW s \in Sessions, NEW i \in Ids, LaneFails(s, i) PROVE LaneTypes'
  BY <1>32 DEF LaneFails, LaneExits, End, StopLane
<1>33. ASSUME NEW s \in Sessions, NEW i \in Ids, LanePumpFails(s, i) PROVE LaneTypes'
  <2>1. PICK c \in {"carrier", "decode"} : LanePumpExits(s, i, c)
    BY <1>33 DEF LanePumpFails
  <2> QED
    BY <2>1 DEF LanePumpExits, Fail, Causes
<1>34. ASSUME NEW s \in Sessions, NEW i \in Ids, LanePumpSeesClose(s, i) PROVE LaneTypes'
  <2>1. PICK c \in {"carrier", "laneend"} : LanePumpExits(s, i, c)
    BY <1>34 DEF LanePumpSeesClose
  <2> QED
    BY <2>1 DEF LanePumpExits, Fail, Causes
<1>35. ASSUME NEW s \in Sessions, NEW i \in Ids, LaneClose(s, i) PROVE LaneTypes'
  BY <1>35 DEF LaneClose, RelayEnds, End, DropStream, StopLane
<1>36. CASE UNCHANGED vars
  BY <1>36 DEF vars
<1> HIDE DEF IInv, TypeOK, OpenerTypes, LaneTypes, Opening, DialsLanes
<1> QED
    BY <1>1, <1>2, <1>3, <1>4, <1>5, <1>6, <1>7, <1>8, <1>9, <1>10, <1>11, <1>12,
     <1>13, <1>14, <1>15, <1>16, <1>17, <1>18, <1>19, <1>20, <1>21, <1>22, <1>23,
     <1>24, <1>25, <1>26, <1>27, <1>28, <1>29, <1>30, <1>31, <1>32, <1>33, <1>34,
     <1>35, <1>36 DEF Next, Opener, Failing, Writer, Pump, LaneSteps, Closing

\* The opener's stream is registered until it is returned, or has been told.
LEMMA OpeningStep ==
    ASSUME IInv, [Next]_vars
    PROVE  Opening'
<1> USE SessionAssumption DEF IInv, TypeOK, OpenerTypes, SessionTypes, StreamTypes,
      Opening, Told, Sessions, Ids, openerVars, failVars, tableVars, carrierVars,
      streamVars, laneVars
<1>1. CASE Acquire
  BY <1>1 DEF Acquire
<1>2. CASE OpenRefused
  BY <1>2 DEF OpenRefused, OnLoss, Reestablish, ReturnError
<1>3. CASE OpenExhausted
  BY <1>3 DEF OpenExhausted, ReturnError
<1>4. CASE Open
  BY <1>4 DEF Open, Register
<1>5. CASE StartShared
  BY <1>5 DEF StartShared
<1>6. CASE StartWithoutDialer
  BY <1>6 DEF StartWithoutDialer, DropStream, ReturnError
<1>7. CASE LaneDialled
  BY <1>7 DEF LaneDialled
<1>8. CASE LaneDialFails
  BY <1>8 DEF LaneDialFails, Fail
<1>9. CASE LaneDialFailed
  BY <1>9 DEF LaneDialFailed, DropStream, OnLoss, Reestablish, ReturnError
<1>10. CASE SendOpen
  BY <1>10 DEF SendOpen
<1>11. CASE SendOpenLost
  BY <1>11 DEF SendOpenLost, DropStream, OnLoss, Reestablish, ReturnError, Done
<1>12. CASE EstablishFails
  BY <1>12 DEF EstablishFails
<1>13. CASE establish
  BY <1>13 DEF establish
<1>14. ASSUME NEW s \in Sessions, DialContextEnds(s) PROVE Opening'
  BY <1>14 DEF DialContextEnds
<1>15. ASSUME NEW s \in Sessions, CloseSession(s) PROVE Opening'
  BY <1>15 DEF CloseSession, Fail
<1>16. ASSUME NEW s \in Sessions, FailCollects(s) PROVE Opening'
  BY <1>16 DEF FailCollects
<1>17. ASSUME NEW s \in Sessions, FailReturns(s) PROVE Opening'
  BY <1>17 DEF FailReturns
<1>18. ASSUME NEW s \in Sessions, NEW i \in Ids, FailAborts(s, i) PROVE Opening'
  BY <1>18 DEF FailAborts, End, StopLane
<1>19. ASSUME NEW s \in Sessions, WriterStops(s) PROVE Opening'
  BY <1>19 DEF WriterStops, WriterExits
<1>20. ASSUME NEW s \in Sessions, WriterFails(s) PROVE Opening'
  BY <1>20 DEF WriterFails, WriterExits, Fail
<1>21. ASSUME NEW s \in Sessions, NEW i \in Ids, WriterSends(s, i) PROVE Opening'
  BY <1>21 DEF WriterSends
<1>22. ASSUME NEW s \in Sessions, PumpFails(s) PROVE Opening'
  <2>1. PICK c \in {"carrier", "decode"} : PumpExits(s, c)
    BY <1>22 DEF PumpFails
  <2> QED
    BY <2>1 DEF PumpExits, Fail, Causes
<1>23. ASSUME NEW s \in Sessions, PumpSeesDialEnd(s) PROVE Opening'
  BY <1>23 DEF PumpSeesDialEnd, PumpExits, Fail, Causes
<1>24. ASSUME NEW s \in Sessions, PumpSeesClose(s) PROVE Opening'
  BY <1>24 DEF PumpSeesClose, PumpExits, Fail, Causes
<1>25. ASSUME NEW s \in Sessions, NEW i \in Ids, PumpClose(s, i) PROVE Opening'
  BY <1>25 DEF PumpClose, RelayEnds, End, DropStream, StopLane
<1>26. ASSUME NEW s \in Sessions, NEW i \in Ids, CloseStart(s, i) PROVE Opening'
  BY <1>26 DEF CloseStart, End
<1>27. ASSUME NEW s \in Sessions, NEW i \in Ids, SendClose(s, i) PROVE Opening'
  BY <1>27 DEF SendClose
<1>28. ASSUME NEW s \in Sessions, NEW i \in Ids, CloseDrops(s, i) PROVE Opening'
  BY <1>28 DEF CloseDrops, DropStream
<1>29. ASSUME NEW s \in Sessions, NEW i \in Ids, CloseStops(s, i) PROVE Opening'
  BY <1>29 DEF CloseStops, StopLane
<1>30. ASSUME NEW s \in Sessions, NEW i \in Ids, LaneSends(s, i) PROVE Opening'
  BY <1>30 DEF LaneSends
<1>31. ASSUME NEW s \in Sessions, NEW i \in Ids, LaneStops(s, i) PROVE Opening'
  BY <1>31 DEF LaneStops, LaneExits
<1>32. ASSUME NEW s \in Sessions, NEW i \in Ids, LaneFails(s, i) PROVE Opening'
  BY <1>32 DEF LaneFails, LaneExits, End, StopLane
<1>33. ASSUME NEW s \in Sessions, NEW i \in Ids, LanePumpFails(s, i) PROVE Opening'
  <2>1. PICK c \in {"carrier", "decode"} : LanePumpExits(s, i, c)
    BY <1>33 DEF LanePumpFails
  <2> QED
    BY <2>1 DEF LanePumpExits, Fail, Causes
<1>34. ASSUME NEW s \in Sessions, NEW i \in Ids, LanePumpSeesClose(s, i) PROVE Opening'
  <2>1. PICK c \in {"carrier", "laneend"} : LanePumpExits(s, i, c)
    BY <1>34 DEF LanePumpSeesClose
  <2> QED
    BY <2>1 DEF LanePumpExits, Fail, Causes
<1>35. ASSUME NEW s \in Sessions, NEW i \in Ids, LaneClose(s, i) PROVE Opening'
  BY <1>35 DEF LaneClose, RelayEnds, End, DropStream, StopLane
<1>36. CASE UNCHANGED vars
  BY <1>36 DEF vars
<1> HIDE DEF IInv, TypeOK, OpenerTypes, SessionTypes, StreamTypes, Opening, Told,
      Sessions, Ids
<1> QED
    BY <1>1, <1>2, <1>3, <1>4, <1>5, <1>6, <1>7, <1>8, <1>9, <1>10, <1>11, <1>12,
     <1>13, <1>14, <1>15, <1>16, <1>17, <1>18, <1>19, <1>20, <1>21, <1>22, <1>23,
     <1>24, <1>25, <1>26, <1>27, <1>28, <1>29, <1>30, <1>31, <1>32, <1>33, <1>34,
     <1>35, <1>36 DEF Next, Opener, Failing, Writer, Pump, LaneSteps, Closing

\* The steps of fail keep their order.
LEMMA FailedStep ==
    ASSUME IInv, [Next]_vars
    PROVE  Failed'
<1> USE SessionAssumption DEF IInv, TypeOK, OpenerTypes, SessionTypes, Failed, Causes,
      openerVars, failVars, tableVars, carrierVars, streamVars, laneVars
<1>1. CASE Acquire
  BY <1>1 DEF Acquire
<1>2. CASE OpenRefused
  BY <1>2 DEF OpenRefused, OnLoss, Reestablish, ReturnError
<1>3. CASE OpenExhausted
  BY <1>3 DEF OpenExhausted, ReturnError
<1>4. CASE Open
  BY <1>4 DEF Open, Register
<1>5. CASE StartShared
  BY <1>5 DEF StartShared
<1>6. CASE StartWithoutDialer
  BY <1>6 DEF StartWithoutDialer, DropStream, ReturnError
<1>7. CASE LaneDialled
  BY <1>7 DEF LaneDialled
<1>8. CASE LaneDialFails
  BY <1>8 DEF LaneDialFails, Fail
<1>9. CASE LaneDialFailed
  BY <1>9 DEF LaneDialFailed, DropStream, OnLoss, Reestablish, ReturnError
<1>10. CASE SendOpen
  BY <1>10 DEF SendOpen
<1>11. CASE SendOpenLost
  BY <1>11 DEF SendOpenLost, DropStream, OnLoss, Reestablish, ReturnError, Done
<1>12. CASE EstablishFails
  BY <1>12 DEF EstablishFails
<1>13. CASE establish
  BY <1>13 DEF establish
<1>14. ASSUME NEW s \in Sessions, DialContextEnds(s) PROVE Failed'
  BY <1>14 DEF DialContextEnds
<1>15. ASSUME NEW s \in Sessions, CloseSession(s) PROVE Failed'
  BY <1>15 DEF CloseSession, Fail
<1>16. ASSUME NEW s \in Sessions, FailCollects(s) PROVE Failed'
  BY <1>16 DEF FailCollects
<1>17. ASSUME NEW s \in Sessions, FailReturns(s) PROVE Failed'
  BY <1>17 DEF FailReturns
<1>18. ASSUME NEW s \in Sessions, NEW i \in Ids, FailAborts(s, i) PROVE Failed'
  BY <1>18 DEF FailAborts, End, StopLane
<1>19. ASSUME NEW s \in Sessions, WriterStops(s) PROVE Failed'
  BY <1>19 DEF WriterStops, WriterExits
<1>20. ASSUME NEW s \in Sessions, WriterFails(s) PROVE Failed'
  BY <1>20 DEF WriterFails, WriterExits, Fail
<1>21. ASSUME NEW s \in Sessions, NEW i \in Ids, WriterSends(s, i) PROVE Failed'
  BY <1>21 DEF WriterSends
<1>22. ASSUME NEW s \in Sessions, PumpFails(s) PROVE Failed'
  <2>1. PICK c \in {"carrier", "decode"} : PumpExits(s, c)
    BY <1>22 DEF PumpFails
  <2> QED
    BY <2>1 DEF PumpExits, Fail
<1>23. ASSUME NEW s \in Sessions, PumpSeesDialEnd(s) PROVE Failed'
  BY <1>23 DEF PumpSeesDialEnd, PumpExits, Fail
<1>24. ASSUME NEW s \in Sessions, PumpSeesClose(s) PROVE Failed'
  BY <1>24 DEF PumpSeesClose, PumpExits, Fail
<1>25. ASSUME NEW s \in Sessions, NEW i \in Ids, PumpClose(s, i) PROVE Failed'
  BY <1>25 DEF PumpClose, RelayEnds, End, DropStream, StopLane
<1>26. ASSUME NEW s \in Sessions, NEW i \in Ids, CloseStart(s, i) PROVE Failed'
  BY <1>26 DEF CloseStart, End
<1>27. ASSUME NEW s \in Sessions, NEW i \in Ids, SendClose(s, i) PROVE Failed'
  BY <1>27 DEF SendClose
<1>28. ASSUME NEW s \in Sessions, NEW i \in Ids, CloseDrops(s, i) PROVE Failed'
  BY <1>28 DEF CloseDrops, DropStream
<1>29. ASSUME NEW s \in Sessions, NEW i \in Ids, CloseStops(s, i) PROVE Failed'
  BY <1>29 DEF CloseStops, StopLane
<1>30. ASSUME NEW s \in Sessions, NEW i \in Ids, LaneSends(s, i) PROVE Failed'
  BY <1>30 DEF LaneSends
<1>31. ASSUME NEW s \in Sessions, NEW i \in Ids, LaneStops(s, i) PROVE Failed'
  BY <1>31 DEF LaneStops, LaneExits
<1>32. ASSUME NEW s \in Sessions, NEW i \in Ids, LaneFails(s, i) PROVE Failed'
  BY <1>32 DEF LaneFails, LaneExits, End, StopLane
<1>33. ASSUME NEW s \in Sessions, NEW i \in Ids, LanePumpFails(s, i) PROVE Failed'
  <2>1. PICK c \in {"carrier", "decode"} : LanePumpExits(s, i, c)
    BY <1>33 DEF LanePumpFails
  <2> QED
    BY <2>1 DEF LanePumpExits, Fail
<1>34. ASSUME NEW s \in Sessions, NEW i \in Ids, LanePumpSeesClose(s, i) PROVE Failed'
  <2>1. PICK c \in {"carrier", "laneend"} : LanePumpExits(s, i, c)
    BY <1>34 DEF LanePumpSeesClose
  <2> QED
    BY <2>1 DEF LanePumpExits, Fail
<1>35. ASSUME NEW s \in Sessions, NEW i \in Ids, LaneClose(s, i) PROVE Failed'
  BY <1>35 DEF LaneClose, RelayEnds, End, DropStream, StopLane
<1>36. CASE UNCHANGED vars
  BY <1>36 DEF vars
<1> HIDE DEF IInv, TypeOK, OpenerTypes, SessionTypes, Failed, Causes
<1> QED
    BY <1>1, <1>2, <1>3, <1>4, <1>5, <1>6, <1>7, <1>8, <1>9, <1>10, <1>11, <1>12,
     <1>13, <1>14, <1>15, <1>16, <1>17, <1>18, <1>19, <1>20, <1>21, <1>22, <1>23,
     <1>24, <1>25, <1>26, <1>27, <1>28, <1>29, <1>30, <1>31, <1>32, <1>33, <1>34,
     <1>35, <1>36 DEF Next, Opener, Failing, Writer, Pump, LaneSteps, Closing

\* No stream slips past the collection.
LEMMA CollectedStep ==
    ASSUME IInv, [Next]_vars
    PROVE  Collected'
<1> USE SessionAssumption DEF IInv, TypeOK, OpenerTypes, SessionTypes, StreamTypes,
      Reached, openerVars, failVars, tableVars, carrierVars, streamVars, laneVars
<1> SUFFICES ASSUME NEW t \in Sessions, failing'[t] \in {"abort", "done"},
                    NEW j \in streams'[t]
             PROVE  Reached(t, j)'
  BY DEF Collected
<1>a. j \in Ids
  BY SessionTypesStep DEF SessionTypes
<1>b. failing[t] \in {"abort", "done"} /\ j \in streams[t]
      => j \in toAbort[t] \/ ended[t][j] # "no"
  BY DEF Collected
<1>c. lost[t] # "none" <=> failing[t] \in {"abort", "done"}
  BY DEF Failed
<1>d. toAbort[t] = {} \/ failing[t] # "done"
  BY DEF Failed
<1>e. closing[t][j] # "no" => ended[t][j] # "no"
  BY <1>a DEF Told
<1>f. pc \in {"start", "failing", "send", "open"} => session \in Sessions
  BY DEF Opening
<1>1. CASE Acquire
  BY <1>1, <1>a, <1>b, <1>c, <1>d, <1>e, <1>f DEF Acquire
<1>2. CASE OpenRefused
    BY <1>2, <1>a, <1>b, <1>c, <1>d, <1>e, <1>f DEF OpenRefused, OnLoss, Reestablish,
     ReturnError
<1>3. CASE OpenExhausted
  BY <1>3, <1>a, <1>b, <1>c, <1>d, <1>e, <1>f DEF OpenExhausted, ReturnError
<1>4. CASE Open
  BY <1>4, <1>a, <1>b, <1>c, <1>d, <1>e, <1>f DEF Open, Register
<1>5. CASE StartShared
  BY <1>5, <1>a, <1>b, <1>c, <1>d, <1>e, <1>f DEF StartShared
<1>6. CASE StartWithoutDialer
    BY <1>6, <1>a, <1>b, <1>c, <1>d, <1>e, <1>f DEF StartWithoutDialer, DropStream,
     ReturnError
<1>7. CASE LaneDialled
  BY <1>7, <1>a, <1>b, <1>c, <1>d, <1>e, <1>f DEF LaneDialled
<1>8. CASE LaneDialFails
  BY <1>8, <1>a, <1>b, <1>c, <1>d, <1>e, <1>f DEF LaneDialFails, Fail
<1>9. CASE LaneDialFailed
    BY <1>9, <1>a, <1>b, <1>c, <1>d, <1>e, <1>f DEF LaneDialFailed, DropStream,
     OnLoss, Reestablish, ReturnError
<1>10. CASE SendOpen
  BY <1>10, <1>a, <1>b, <1>c, <1>d, <1>e, <1>f DEF SendOpen
<1>11. CASE SendOpenLost
    BY <1>11, <1>a, <1>b, <1>c, <1>d, <1>e, <1>f DEF SendOpenLost, DropStream, OnLoss,
     Reestablish, ReturnError, Done
<1>12. CASE EstablishFails
  BY <1>12, <1>a, <1>b, <1>c, <1>d, <1>e, <1>f DEF EstablishFails
<1>13. CASE establish
  BY <1>13, <1>a, <1>b, <1>c, <1>d, <1>e, <1>f DEF establish
<1>14. ASSUME NEW s \in Sessions, DialContextEnds(s) PROVE Reached(t, j)'
  BY <1>14, <1>a, <1>b, <1>c, <1>d, <1>e, <1>f DEF DialContextEnds
<1>15. ASSUME NEW s \in Sessions, CloseSession(s) PROVE Reached(t, j)'
  BY <1>15, <1>a, <1>b, <1>c, <1>d, <1>e, <1>f DEF CloseSession, Fail
<1>16. ASSUME NEW s \in Sessions, FailCollects(s) PROVE Reached(t, j)'
  BY <1>16, <1>a, <1>b, <1>c, <1>d, <1>e, <1>f DEF FailCollects
<1>17. ASSUME NEW s \in Sessions, FailReturns(s) PROVE Reached(t, j)'
  BY <1>17, <1>a, <1>b, <1>c, <1>d, <1>e, <1>f DEF FailReturns
<1>18. ASSUME NEW s \in Sessions, NEW i \in Ids, FailAborts(s, i) PROVE Reached(t, j)'
  BY <1>18, <1>a, <1>b, <1>c, <1>d, <1>e, <1>f DEF FailAborts, End, StopLane
<1>19. ASSUME NEW s \in Sessions, WriterStops(s) PROVE Reached(t, j)'
  BY <1>19, <1>a, <1>b, <1>c, <1>d, <1>e, <1>f DEF WriterStops, WriterExits
<1>20. ASSUME NEW s \in Sessions, WriterFails(s) PROVE Reached(t, j)'
  BY <1>20, <1>a, <1>b, <1>c, <1>d, <1>e, <1>f DEF WriterFails, WriterExits, Fail
<1>21. ASSUME NEW s \in Sessions, NEW i \in Ids, WriterSends(s, i) PROVE Reached(t, j)'
  BY <1>21, <1>a, <1>b, <1>c, <1>d, <1>e, <1>f DEF WriterSends
<1>22. ASSUME NEW s \in Sessions, PumpFails(s) PROVE Reached(t, j)'
  <2>1. PICK c \in {"carrier", "decode"} : PumpExits(s, c)
    BY <1>22 DEF PumpFails
  <2> QED
    BY <2>1, <1>a, <1>b, <1>c, <1>d, <1>e, <1>f DEF PumpExits, Fail, Causes
<1>23. ASSUME NEW s \in Sessions, PumpSeesDialEnd(s) PROVE Reached(t, j)'
    BY <1>23, <1>a, <1>b, <1>c, <1>d, <1>e, <1>f DEF PumpSeesDialEnd, PumpExits, Fail,
     Causes
<1>24. ASSUME NEW s \in Sessions, PumpSeesClose(s) PROVE Reached(t, j)'
    BY <1>24, <1>a, <1>b, <1>c, <1>d, <1>e, <1>f DEF PumpSeesClose, PumpExits, Fail,
     Causes
<1>25. ASSUME NEW s \in Sessions, NEW i \in Ids, PumpClose(s, i) PROVE Reached(t, j)'
    BY <1>25, <1>a, <1>b, <1>c, <1>d, <1>e, <1>f DEF PumpClose, RelayEnds, End,
     DropStream, StopLane
<1>26. ASSUME NEW s \in Sessions, NEW i \in Ids, CloseStart(s, i) PROVE Reached(t, j)'
  BY <1>26, <1>a, <1>b, <1>c, <1>d, <1>e, <1>f DEF CloseStart, End
<1>27. ASSUME NEW s \in Sessions, NEW i \in Ids, SendClose(s, i) PROVE Reached(t, j)'
  BY <1>27, <1>a, <1>b, <1>c, <1>d, <1>e, <1>f DEF SendClose
<1>28. ASSUME NEW s \in Sessions, NEW i \in Ids, CloseDrops(s, i) PROVE Reached(t, j)'
  BY <1>28, <1>a, <1>b, <1>c, <1>d, <1>e, <1>f DEF CloseDrops, DropStream
<1>29. ASSUME NEW s \in Sessions, NEW i \in Ids, CloseStops(s, i) PROVE Reached(t, j)'
  BY <1>29, <1>a, <1>b, <1>c, <1>d, <1>e, <1>f DEF CloseStops, StopLane
<1>30. ASSUME NEW s \in Sessions, NEW i \in Ids, LaneSends(s, i) PROVE Reached(t, j)'
  BY <1>30, <1>a, <1>b, <1>c, <1>d, <1>e, <1>f DEF LaneSends
<1>31. ASSUME NEW s \in Sessions, NEW i \in Ids, LaneStops(s, i) PROVE Reached(t, j)'
  BY <1>31, <1>a, <1>b, <1>c, <1>d, <1>e, <1>f DEF LaneStops, LaneExits
<1>32. ASSUME NEW s \in Sessions, NEW i \in Ids, LaneFails(s, i) PROVE Reached(t, j)'
  BY <1>32, <1>a, <1>b, <1>c, <1>d, <1>e, <1>f DEF LaneFails, LaneExits, End, StopLane
<1>33. ASSUME NEW s \in Sessions, NEW i \in Ids, LanePumpFails(s, i) PROVE Reached(t, j)'
  <2>1. PICK c \in {"carrier", "decode"} : LanePumpExits(s, i, c)
    BY <1>33 DEF LanePumpFails
  <2> QED
    BY <2>1, <1>a, <1>b, <1>c, <1>d, <1>e, <1>f DEF LanePumpExits, Fail, Causes
<1>34. ASSUME NEW s \in Sessions, NEW i \in Ids, LanePumpSeesClose(s, i) PROVE Reached(t, j)'
  <2>1. PICK c \in {"carrier", "laneend"} : LanePumpExits(s, i, c)
    BY <1>34 DEF LanePumpSeesClose
  <2> QED
    BY <2>1, <1>a, <1>b, <1>c, <1>d, <1>e, <1>f DEF LanePumpExits, Fail, Causes
<1>35. ASSUME NEW s \in Sessions, NEW i \in Ids, LaneClose(s, i) PROVE Reached(t, j)'
    BY <1>35, <1>a, <1>b, <1>c, <1>d, <1>e, <1>f DEF LaneClose, RelayEnds, End,
     DropStream, StopLane
<1>36. CASE UNCHANGED vars
  BY <1>36, <1>a, <1>b, <1>c, <1>d, <1>e, <1>f DEF vars
<1> HIDE DEF IInv, TypeOK, OpenerTypes, SessionTypes, StreamTypes, Reached
<1> QED
    BY <1>1, <1>2, <1>3, <1>4, <1>5, <1>6, <1>7, <1>8, <1>9, <1>10, <1>11, <1>12,
     <1>13, <1>14, <1>15, <1>16, <1>17, <1>18, <1>19, <1>20, <1>21, <1>22, <1>23,
     <1>24, <1>25, <1>26, <1>27, <1>28, <1>29, <1>30, <1>31, <1>32, <1>33, <1>34,
     <1>35, <1>36 DEF Next, Opener, Failing, Writer, Pump, LaneSteps, Closing

\* Nobody drops a connection's stream without telling it.
LEMMA ToldStep ==
    ASSUME IInv, [Next]_vars
    PROVE  Told'
<1> USE SessionAssumption DEF IInv, TypeOK, OpenerTypes, SessionTypes, StreamTypes,
      Opening, Told, openerVars, failVars, tableVars, carrierVars, streamVars,
      laneVars
<1>1. CASE Acquire
  BY <1>1 DEF Acquire
<1>2. CASE OpenRefused
  BY <1>2 DEF OpenRefused, OnLoss, Reestablish, ReturnError
<1>3. CASE OpenExhausted
  BY <1>3 DEF OpenExhausted, ReturnError
<1>4. CASE Open
  <2> SUFFICES ASSUME NEW s \in Sessions, NEW i \in Ids
               PROVE  /\ closing'[s][i] # "no" => ended'[s][i] # "no"
                      /\ i \in handed'[s] => i < nextID'[s]
                      /\ i \in handed'[s] => i \in streams'[s] \/ ended'[s][i] # "no"
    OBVIOUS
  <2>1. session \in Sessions /\ nextID[session] \in Nat /\ nextID[s] \in Nat
    BY <1>4 DEF Open, Sessions
  <2>2. nextID' = [nextID EXCEPT ![session] = nextID[session] + 1]
        /\ UNCHANGED <<handed, ended, closing>>
    BY <1>4 DEF Open, Register
  <2>3. nextID'[s] >= nextID[s]
    BY <2>1, <2>2
  <2>4. streams[s] \subseteq streams'[s]
    BY <1>4 DEF Open, Register
  <2>5. i \in handed[s] => i < nextID[s] /\ nextID'[s] \in Nat
    BY <2>1, <2>2
  <2> QED
    BY <2>2, <2>3, <2>4, <2>5 DEF Ids
<1>5. CASE StartShared
  BY <1>5 DEF StartShared
<1>6. CASE StartWithoutDialer
  BY <1>6 DEF StartWithoutDialer, DropStream, ReturnError
<1>7. CASE LaneDialled
  BY <1>7 DEF LaneDialled
<1>8. CASE LaneDialFails
  BY <1>8 DEF LaneDialFails, Fail
<1>9. CASE LaneDialFailed
  BY <1>9 DEF LaneDialFailed, DropStream, OnLoss, Reestablish, ReturnError
<1>10. CASE SendOpen
  BY <1>10 DEF SendOpen
<1>11. CASE SendOpenLost
  BY <1>11 DEF SendOpenLost, DropStream, OnLoss, Reestablish, ReturnError, Done
<1>12. CASE EstablishFails
  BY <1>12 DEF EstablishFails
<1>13. CASE establish
  BY <1>13 DEF establish
<1>14. ASSUME NEW s \in Sessions, DialContextEnds(s) PROVE Told'
  BY <1>14 DEF DialContextEnds
<1>15. ASSUME NEW s \in Sessions, CloseSession(s) PROVE Told'
  BY <1>15 DEF CloseSession, Fail
<1>16. ASSUME NEW s \in Sessions, FailCollects(s) PROVE Told'
  BY <1>16 DEF FailCollects
<1>17. ASSUME NEW s \in Sessions, FailReturns(s) PROVE Told'
  BY <1>17 DEF FailReturns
<1>18. ASSUME NEW s \in Sessions, NEW i \in Ids, FailAborts(s, i) PROVE Told'
  BY <1>18 DEF FailAborts, End, StopLane
<1>19. ASSUME NEW s \in Sessions, WriterStops(s) PROVE Told'
  BY <1>19 DEF WriterStops, WriterExits
<1>20. ASSUME NEW s \in Sessions, WriterFails(s) PROVE Told'
  BY <1>20 DEF WriterFails, WriterExits, Fail
<1>21. ASSUME NEW s \in Sessions, NEW i \in Ids, WriterSends(s, i) PROVE Told'
  BY <1>21 DEF WriterSends
<1>22. ASSUME NEW s \in Sessions, PumpFails(s) PROVE Told'
  <2>1. PICK c \in {"carrier", "decode"} : PumpExits(s, c)
    BY <1>22 DEF PumpFails
  <2> QED
    BY <2>1 DEF PumpExits, Fail, Causes
<1>23. ASSUME NEW s \in Sessions, PumpSeesDialEnd(s) PROVE Told'
  BY <1>23 DEF PumpSeesDialEnd, PumpExits, Fail, Causes
<1>24. ASSUME NEW s \in Sessions, PumpSeesClose(s) PROVE Told'
  BY <1>24 DEF PumpSeesClose, PumpExits, Fail, Causes
<1>25. ASSUME NEW s \in Sessions, NEW i \in Ids, PumpClose(s, i) PROVE Told'
  BY <1>25 DEF PumpClose, RelayEnds, End, DropStream, StopLane
<1>26. ASSUME NEW s \in Sessions, NEW i \in Ids, CloseStart(s, i) PROVE Told'
  BY <1>26 DEF CloseStart, End
<1>27. ASSUME NEW s \in Sessions, NEW i \in Ids, SendClose(s, i) PROVE Told'
  BY <1>27 DEF SendClose
<1>28. ASSUME NEW s \in Sessions, NEW i \in Ids, CloseDrops(s, i) PROVE Told'
  BY <1>28 DEF CloseDrops, DropStream
<1>29. ASSUME NEW s \in Sessions, NEW i \in Ids, CloseStops(s, i) PROVE Told'
  BY <1>29 DEF CloseStops, StopLane
<1>30. ASSUME NEW s \in Sessions, NEW i \in Ids, LaneSends(s, i) PROVE Told'
  BY <1>30 DEF LaneSends
<1>31. ASSUME NEW s \in Sessions, NEW i \in Ids, LaneStops(s, i) PROVE Told'
  BY <1>31 DEF LaneStops, LaneExits
<1>32. ASSUME NEW s \in Sessions, NEW i \in Ids, LaneFails(s, i) PROVE Told'
  BY <1>32 DEF LaneFails, LaneExits, End, StopLane
<1>33. ASSUME NEW s \in Sessions, NEW i \in Ids, LanePumpFails(s, i) PROVE Told'
  <2>1. PICK c \in {"carrier", "decode"} : LanePumpExits(s, i, c)
    BY <1>33 DEF LanePumpFails
  <2> QED
    BY <2>1 DEF LanePumpExits, Fail, Causes
<1>34. ASSUME NEW s \in Sessions, NEW i \in Ids, LanePumpSeesClose(s, i) PROVE Told'
  <2>1. PICK c \in {"carrier", "laneend"} : LanePumpExits(s, i, c)
    BY <1>34 DEF LanePumpSeesClose
  <2> QED
    BY <2>1 DEF LanePumpExits, Fail, Causes
<1>35. ASSUME NEW s \in Sessions, NEW i \in Ids, LaneClose(s, i) PROVE Told'
  BY <1>35 DEF LaneClose, RelayEnds, End, DropStream, StopLane
<1>36. CASE UNCHANGED vars
  BY <1>36 DEF vars
<1> HIDE DEF IInv, TypeOK, OpenerTypes, SessionTypes, StreamTypes, Opening, Told
<1> QED
    BY <1>1, <1>2, <1>3, <1>4, <1>5, <1>6, <1>7, <1>8, <1>9, <1>10, <1>11, <1>12,
     <1>13, <1>14, <1>15, <1>16, <1>17, <1>18, <1>19, <1>20, <1>21, <1>22, <1>23,
     <1>24, <1>25, <1>26, <1>27, <1>28, <1>29, <1>30, <1>31, <1>32, <1>33, <1>34,
     <1>35, <1>36 DEF Next, Opener, Failing, Writer, Pump, LaneSteps, Closing

\* A session is replaced only after it has begun to fail.
LEMMA OneLiveStep ==
    ASSUME IInv, [Next]_vars
    PROVE  OneLiveSession'
<1> USE SessionAssumption DEF IInv, TypeOK, OpenerTypes, SessionTypes, Opening,
      Failed, OneLiveSession, Done, Reestablishing, Sessions, openerVars, failVars,
      tableVars, carrierVars, streamVars, laneVars
<1>1. CASE Acquire
  BY <1>1 DEF Acquire
<1>2. CASE OpenRefused
  BY <1>2 DEF OpenRefused, OnLoss, Reestablish, ReturnError
<1>3. CASE OpenExhausted
  BY <1>3 DEF OpenExhausted, ReturnError
<1>4. CASE Open
  BY <1>4 DEF Open, Register
<1>5. CASE StartShared
  BY <1>5 DEF StartShared
<1>6. CASE StartWithoutDialer
  BY <1>6 DEF StartWithoutDialer, DropStream, ReturnError
<1>7. CASE LaneDialled
  BY <1>7 DEF LaneDialled
<1>8. CASE LaneDialFails
  BY <1>8 DEF LaneDialFails, Fail
<1>9. CASE LaneDialFailed
  BY <1>9 DEF LaneDialFailed, DropStream, OnLoss, Reestablish, ReturnError
<1>10. CASE SendOpen
  BY <1>10 DEF SendOpen
<1>11. CASE SendOpenLost
  BY <1>11 DEF SendOpenLost, DropStream, OnLoss, Reestablish, ReturnError
<1>12. CASE EstablishFails
  BY <1>12 DEF EstablishFails
<1>13. CASE establish
  BY <1>13 DEF establish
<1>14. ASSUME NEW s \in Sessions, DialContextEnds(s) PROVE OneLiveSession'
  BY <1>14 DEF DialContextEnds
<1>15. ASSUME NEW s \in Sessions, CloseSession(s) PROVE OneLiveSession'
  BY <1>15 DEF CloseSession, Fail
<1>16. ASSUME NEW s \in Sessions, FailCollects(s) PROVE OneLiveSession'
  BY <1>16 DEF FailCollects
<1>17. ASSUME NEW s \in Sessions, FailReturns(s) PROVE OneLiveSession'
  BY <1>17 DEF FailReturns
<1>18. ASSUME NEW s \in Sessions, NEW i \in Ids, FailAborts(s, i) PROVE OneLiveSession'
  BY <1>18 DEF FailAborts, End, StopLane
<1>19. ASSUME NEW s \in Sessions, WriterStops(s) PROVE OneLiveSession'
  BY <1>19 DEF WriterStops, WriterExits
<1>20. ASSUME NEW s \in Sessions, WriterFails(s) PROVE OneLiveSession'
  BY <1>20 DEF WriterFails, WriterExits, Fail
<1>21. ASSUME NEW s \in Sessions, NEW i \in Ids, WriterSends(s, i) PROVE OneLiveSession'
  BY <1>21 DEF WriterSends
<1>22. ASSUME NEW s \in Sessions, PumpFails(s) PROVE OneLiveSession'
  <2>1. PICK c \in {"carrier", "decode"} : PumpExits(s, c)
    BY <1>22 DEF PumpFails
  <2> QED
    BY <2>1 DEF PumpExits, Fail, Causes
<1>23. ASSUME NEW s \in Sessions, PumpSeesDialEnd(s) PROVE OneLiveSession'
  BY <1>23 DEF PumpSeesDialEnd, PumpExits, Fail, Causes
<1>24. ASSUME NEW s \in Sessions, PumpSeesClose(s) PROVE OneLiveSession'
  BY <1>24 DEF PumpSeesClose, PumpExits, Fail, Causes
<1>25. ASSUME NEW s \in Sessions, NEW i \in Ids, PumpClose(s, i) PROVE OneLiveSession'
  BY <1>25 DEF PumpClose, RelayEnds, End, DropStream, StopLane
<1>26. ASSUME NEW s \in Sessions, NEW i \in Ids, CloseStart(s, i) PROVE OneLiveSession'
  BY <1>26 DEF CloseStart, End
<1>27. ASSUME NEW s \in Sessions, NEW i \in Ids, SendClose(s, i) PROVE OneLiveSession'
  BY <1>27 DEF SendClose
<1>28. ASSUME NEW s \in Sessions, NEW i \in Ids, CloseDrops(s, i) PROVE OneLiveSession'
  BY <1>28 DEF CloseDrops, DropStream
<1>29. ASSUME NEW s \in Sessions, NEW i \in Ids, CloseStops(s, i) PROVE OneLiveSession'
  BY <1>29 DEF CloseStops, StopLane
<1>30. ASSUME NEW s \in Sessions, NEW i \in Ids, LaneSends(s, i) PROVE OneLiveSession'
  BY <1>30 DEF LaneSends
<1>31. ASSUME NEW s \in Sessions, NEW i \in Ids, LaneStops(s, i) PROVE OneLiveSession'
  BY <1>31 DEF LaneStops, LaneExits
<1>32. ASSUME NEW s \in Sessions, NEW i \in Ids, LaneFails(s, i) PROVE OneLiveSession'
  BY <1>32 DEF LaneFails, LaneExits, End, StopLane
<1>33. ASSUME NEW s \in Sessions, NEW i \in Ids, LanePumpFails(s, i) PROVE OneLiveSession'
  <2>1. PICK c \in {"carrier", "decode"} : LanePumpExits(s, i, c)
    BY <1>33 DEF LanePumpFails
  <2> QED
    BY <2>1 DEF LanePumpExits, Fail, Causes
<1>34. ASSUME NEW s \in Sessions, NEW i \in Ids, LanePumpSeesClose(s, i) PROVE OneLiveSession'
  <2>1. PICK c \in {"carrier", "laneend"} : LanePumpExits(s, i, c)
    BY <1>34 DEF LanePumpSeesClose
  <2> QED
    BY <2>1 DEF LanePumpExits, Fail, Causes
<1>35. ASSUME NEW s \in Sessions, NEW i \in Ids, LaneClose(s, i) PROVE OneLiveSession'
  BY <1>35 DEF LaneClose, RelayEnds, End, DropStream, StopLane
<1>36. CASE UNCHANGED vars
  BY <1>36 DEF vars
<1> HIDE DEF IInv, TypeOK, OpenerTypes, SessionTypes, Opening, Failed, OneLiveSession,
      Done, Reestablishing, Sessions
<1> QED
    BY <1>1, <1>2, <1>3, <1>4, <1>5, <1>6, <1>7, <1>8, <1>9, <1>10, <1>11, <1>12,
     <1>13, <1>14, <1>15, <1>16, <1>17, <1>18, <1>19, <1>20, <1>21, <1>22, <1>23,
     <1>24, <1>25, <1>26, <1>27, <1>28, <1>29, <1>30, <1>31, <1>32, <1>33, <1>34,
     <1>35, <1>36 DEF Next, Opener, Failing, Writer, Pump, LaneSteps, Closing
-----------------------------------------------------------------------------
\* A new resolver satisfies the invariant.
LEMMA InitInv == Init => IInv
<1> SUFFICES ASSUME Init PROVE IInv
  OBVIOUS
<1> USE SessionAssumption DEF Init, Each, EachStream
<1>1. OpenerTypes
  BY DEF OpenerTypes, Sessions, Ids
<1>2. SessionTypes
  BY DEF SessionTypes, Sessions, Ids
<1>3. CarrierTypes /\ LaneTypes
  BY DEF CarrierTypes, LaneTypes
<1>4. StreamTypes
  BY DEF StreamTypes
<1>5. Opening /\ Failed /\ Collected
  BY DEF Opening, Failed, Collected
<1>6. Told /\ OneLiveSession
  BY DEF Told, OneLiveSession, Sessions
<1> QED
  BY <1>1, <1>2, <1>3, <1>4, <1>5, <1>6 DEF IInv, TypeOK

\* The strengthened invariant holds throughout.
THEOREM Invariance == Spec => []IInv
<1>1. IInv /\ [Next]_vars => IInv'
  <2> SUFFICES ASSUME IInv, [Next]_vars PROVE IInv'
    OBVIOUS
  <2>1. TypeOK'
    BY OpenerTypesStep, SessionTypesStep, CarrierTypesStep, StreamTypesStep, LaneTypesStep
       DEF TypeOK
  <2> QED
    BY <2>1, OpeningStep, FailedStep, CollectedStep, ToldStep, OneLiveStep DEF IInv
<1> QED
  BY InitInv, <1>1, PTL DEF Spec

\* Resolver, sessions, streams and lanes keep their types.
THEOREM TypeCorrect == Spec => []TypeOK
<1>1. IInv => TypeOK
  BY DEF IInv
<1> QED
  BY Invariance, <1>1, PTL

\* Once fail has returned every stream a connection holds knows its end, for any
\* interleaving of opens, closes, relay frames and the failure
\* (session.go:98-118, 224-243).
THEOREM LossForgetsNobody == Spec => []EveryStreamTold
<1>1. IInv => EveryStreamTold
  <2> SUFFICES ASSUME IInv, NEW s \in Sessions, failing[s] = "done",
                      NEW i \in handed[s]
               PROVE  ended[s][i] # "no"
    BY DEF EveryStreamTold
  <2>1. i \in Ids
    BY DEF IInv, TypeOK, OpenerTypes
  <2>2. i \in streams[s] \/ ended[s][i] # "no"
    BY <2>1 DEF IInv, Told
  <2>3. toAbort[s] = {} /\ (i \in streams[s] => i \in toAbort[s] \/ ended[s][i] # "no")
    BY DEF IInv, Failed, Collected, Reached
  <2> QED
    BY <2>2, <2>3
<1> QED
  BY Invariance, <1>1, PTL

\* A connection's stream leaves the table only when it knows its end
\* (session.go:445-471, 557-570).
THEOREM DroppedStreamsWereTold == Spec => []DroppedKnowsItsEnd
<1>1. IInv => DroppedKnowsItsEnd
  BY DEF IInv, TypeOK, OpenerTypes, Told, DroppedKnowsItsEnd
<1> QED
  BY Invariance, <1>1, PTL

\* The resolver never leaves a live session behind (resolver.go:112-135).
THEOREM ReplacedSessionsAreLost == Spec => []OneLiveSession
<1>1. IInv => OneLiveSession
  BY DEF IInv
<1> QED
  BY Invariance, <1>1, PTL
=============================================================================
