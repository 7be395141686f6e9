------------------------- MODULE StreamWindowProofs -------------------------
(***************************************************************************)
(* Theorems about one web-proxy stream, for every window, threshold, chunk *)
(* size and length of a Write.                                             *)
(*                                                                         *)
(* Neither credit equation is inductive alone.  That Reserve, Read and     *)
(* Consume overwrite got, took and delta loses nothing only because each   *)
(* is zero outside the one place of its goroutine that fills it; and that  *)
(* nobody is forgotten needs the order in which the three enders publish,  *)
(* abort and drop.                                                         *)
(***************************************************************************)
EXTENDS StreamWindow, TLAPS

Frames == [data : Nat, grant : Nat, close : BOOLEAN]

\* Amounts of bytes and credit, and the frames that carry them.
Amounts ==
    /\ available \in Nat
    /\ ungranted \in Nat /\ buf \in Nat
    /\ left \in 0..WriteSize /\ got \in 0..Chunk
    /\ took \in Nat /\ delta \in Nat
    /\ up \in Frames /\ down \in Frames
    /\ relay \in [credit : Nat, held : Nat, closed : BOOLEAN]

\* Flags.
Flags ==
    /\ aborted \in BOOLEAN /\ changed \in BOOLEAN /\ closed \in BOOLEAN
    /\ expired \in BOOLEAN /\ late \in BOOLEAN /\ known \in BOOLEAN

\* The places the goroutines are at.
Places ==
    /\ recvErr \in {"none", "eof", "error"}
    /\ wpc \in {"idle", "gate", "reserve", "blocked", "send"}
    /\ rpc \in {"idle", "look", "waiting", "consume", "grant"}
    /\ pump \in {"idle", "data", "window", "close", "abort", "drop"}
    /\ closer \in {"none", "abort", "send", "drop", "done"}
    /\ failer \in {"none", "collect", "publish", "abort", "done"}

Typed == Amounts /\ Flags /\ Places

\* What a goroutine holds, it holds in one place of its code.
Held ==
    /\ wpc # "send" => got = 0
    /\ got <= left
    /\ rpc # "consume" => took = 0
    /\ rpc # "grant" => delta = 0
    /\ ungranted < Refill

UpCredit == available + got + up.data + relay.held + down.grant
DownCredit == relay.credit + down.data + buf + took + ungranted + delta + up.grant

\* Credit is never invented, and lost only with a dropped frame.
Conserved ==
    /\ UpCredit <= Window
    /\ DownCredit <= Window
    /\ Alive => UpCredit = Window
    /\ Alive => DownCredit = Window

\* Every ender publishes the end, then aborts the writer, then drops.
Ended ==
    /\ closer # "none" => recvErr # "none"
    /\ closer \in {"send", "drop", "done"} => aborted
    /\ pump \in {"abort", "drop"} => recvErr # "none"
    /\ pump = "drop" => aborted
    /\ failer = "abort" => recvErr # "none"
    /\ ~known \/ failer = "done" => recvErr # "none" /\ aborted
    /\ rpc = "waiting" => recvErr = "none"
    /\ wpc = "blocked" /\ ~changed => ~aborted
    /\ late => recvErr # "none" /\ wpc \in {"idle", "gate"}

IInv == Typed /\ Held /\ Conserved /\ Ended

-----------------------------------------------------------------------------

\* Every amount stays one.
LEMMA AmountsStep ==
    ASSUME IInv, [Next]_vars
    PROVE  Amounts'
<1> USE WindowAssumption DEF IInv, Typed, Amounts, Flags, Places, Held, Frames,
      writerVars, sendVars, readerVars, streamVars, enderVars, wireVars
<1>1. CASE WriteStart
  BY <1>1 DEF WriteStart
<1>2. CASE writeGate
  BY <1>2 DEF writeGate, WriteReturns
<1>3. CASE Reserve
  BY <1>3 DEF Reserve, WriteReturns, Smaller
<1>4. CASE ReserveWakes
  BY <1>4 DEF ReserveWakes
<1>5. CASE SendData
  BY <1>5 DEF SendData, WriteReturns
<1>6. CASE SendDataLost
  BY <1>6 DEF SendDataLost, WriteReturns, SessionDone
<1>7. CASE ReadStart
  BY <1>7 DEF ReadStart
<1>8. CASE ReadLook
  BY <1>8 DEF ReadLook
<1>9. CASE Consume
  BY <1>9 DEF Consume
<1>10. CASE SendWindow
  BY <1>10 DEF SendWindow, SessionDone
<1>11. CASE SetReadDeadline
  BY <1>11 DEF SetReadDeadline, Broadcast
<1>12. CASE DeadlinePasses
  BY <1>12 DEF DeadlinePasses
<1>13. CASE CloseStart
  BY <1>13 DEF CloseStart, Publish, Broadcast
<1>14. CASE CloseAborts
  BY <1>14 DEF CloseAborts, Abort
<1>15. CASE SendClose
  BY <1>15 DEF SendClose, SessionDone
<1>16. CASE CloseDrops
  BY <1>16 DEF CloseDrops
<1>17. CASE handleFrame
  BY <1>17 DEF handleFrame, Waiting
<1>18. CASE IgnoreFrames
  BY <1>18 DEF IgnoreFrames
<1>19. CASE PumpData
  BY <1>19 DEF PumpData, Broadcast
<1>20. CASE PumpWindow
  BY <1>20 DEF PumpWindow, Grant, Smaller
<1>21. CASE PumpClose
  BY <1>21 DEF PumpClose, Publish, Broadcast
<1>22. CASE PumpAborts
  BY <1>22 DEF PumpAborts, Abort
<1>23. CASE PumpDrops
  BY <1>23 DEF PumpDrops
<1>24. CASE Fail
  BY <1>24 DEF Fail
<1>25. CASE FailCollects
  BY <1>25 DEF FailCollects
<1>26. CASE FailPublishes
  BY <1>26 DEF FailPublishes, Publish, Broadcast
<1>27. CASE FailAborts
  BY <1>27 DEF FailAborts, Abort
<1>28. CASE RelaySends
  BY <1>28 DEF RelaySends
<1>29. CASE RelayReceives
  <2>1. /\ relay.held \in Nat /\ relay.credit \in Nat /\ relay.closed \in BOOLEAN
        /\ up.data \in Nat /\ up.grant \in Nat /\ up.close \in BOOLEAN
    OBVIOUS
  <2>2. relay' = [credit |-> relay.credit + up.grant, held |-> relay.held + up.data,
                  closed |-> relay.closed]
    BY <1>29 DEF RelayReceives
  <2>3. up' = [data |-> 0, grant |-> 0, close |-> up.close]
    BY <1>29 DEF RelayReceives
  <2>4. relay' \in [credit : Nat, held : Nat, closed : BOOLEAN] /\ up' \in Frames
    BY <2>1, <2>2, <2>3
  <2> QED
    BY <1>29, <2>4 DEF RelayReceives
<1>30. CASE RelayGrants
  BY <1>30 DEF RelayGrants
<1>31. CASE RelayCloses
  BY <1>31 DEF RelayCloses
<1>32. CASE UNCHANGED vars
  BY <1>32 DEF vars
<1> HIDE DEF IInv, Typed, Amounts, Flags, Places, Held, Frames
<1>q. QED
  BY <1>1, <1>2, <1>3, <1>4, <1>5, <1>6, <1>7, <1>8, <1>9, <1>10, <1>11, <1>12, <1>13, 
     <1>14, <1>15, <1>16, <1>17, <1>18, <1>19, <1>20, <1>21, <1>22, <1>23, <1>24, 
     <1>25, <1>26, <1>27, <1>28, <1>29, <1>30, <1>31, <1>32
     DEF Next, Write, Read, LocalClose, Pump, Failing, Relay

\* Every flag stays one.
LEMMA FlagsStep ==
    ASSUME IInv, [Next]_vars
    PROVE  Flags'
<1> USE WindowAssumption DEF IInv, Typed, Flags, writerVars, sendVars, readerVars,
      streamVars, enderVars, wireVars
<1>1. CASE WriteStart
  BY <1>1 DEF WriteStart
<1>2. CASE writeGate
  BY <1>2 DEF writeGate, WriteReturns
<1>3. CASE Reserve
  BY <1>3 DEF Reserve, WriteReturns, Smaller
<1>4. CASE ReserveWakes
  BY <1>4 DEF ReserveWakes
<1>5. CASE SendData
  BY <1>5 DEF SendData, WriteReturns
<1>6. CASE SendDataLost
  BY <1>6 DEF SendDataLost, WriteReturns, SessionDone
<1>7. CASE ReadStart
  BY <1>7 DEF ReadStart
<1>8. CASE ReadLook
  BY <1>8 DEF ReadLook
<1>9. CASE Consume
  BY <1>9 DEF Consume
<1>10. CASE SendWindow
  BY <1>10 DEF SendWindow, SessionDone
<1>11. CASE SetReadDeadline
  BY <1>11 DEF SetReadDeadline, Broadcast
<1>12. CASE DeadlinePasses
  BY <1>12 DEF DeadlinePasses
<1>13. CASE CloseStart
  BY <1>13 DEF CloseStart, Publish, Broadcast
<1>14. CASE CloseAborts
  BY <1>14 DEF CloseAborts, Abort
<1>15. CASE SendClose
  BY <1>15 DEF SendClose, SessionDone
<1>16. CASE CloseDrops
  BY <1>16 DEF CloseDrops
<1>17. CASE handleFrame
  BY <1>17 DEF handleFrame, Waiting
<1>18. CASE IgnoreFrames
  BY <1>18 DEF IgnoreFrames
<1>19. CASE PumpData
  BY <1>19 DEF PumpData, Broadcast
<1>20. CASE PumpWindow
  BY <1>20 DEF PumpWindow, Grant, Smaller
<1>21. CASE PumpClose
  BY <1>21 DEF PumpClose, Publish, Broadcast
<1>22. CASE PumpAborts
  BY <1>22 DEF PumpAborts, Abort
<1>23. CASE PumpDrops
  BY <1>23 DEF PumpDrops
<1>24. CASE Fail
  BY <1>24 DEF Fail
<1>25. CASE FailCollects
  BY <1>25 DEF FailCollects
<1>26. CASE FailPublishes
  BY <1>26 DEF FailPublishes, Publish, Broadcast
<1>27. CASE FailAborts
  BY <1>27 DEF FailAborts, Abort
<1>28. CASE RelaySends
  BY <1>28 DEF RelaySends
<1>29. CASE RelayReceives
  BY <1>29 DEF RelayReceives
<1>30. CASE RelayGrants
  BY <1>30 DEF RelayGrants
<1>31. CASE RelayCloses
  BY <1>31 DEF RelayCloses
<1>32. CASE UNCHANGED vars
  BY <1>32 DEF vars
<1> HIDE DEF IInv, Typed, Flags
<1>q. QED
  BY <1>1, <1>2, <1>3, <1>4, <1>5, <1>6, <1>7, <1>8, <1>9, <1>10, <1>11, <1>12, <1>13, 
     <1>14, <1>15, <1>16, <1>17, <1>18, <1>19, <1>20, <1>21, <1>22, <1>23, <1>24, 
     <1>25, <1>26, <1>27, <1>28, <1>29, <1>30, <1>31, <1>32
     DEF Next, Write, Read, LocalClose, Pump, Failing, Relay

\* No goroutine leaves its code.
LEMMA PlacesStep ==
    ASSUME IInv, [Next]_vars
    PROVE  Places'
<1> USE WindowAssumption DEF IInv, Typed, Flags, Places, writerVars, sendVars,
      readerVars, streamVars, enderVars, wireVars
<1>1. CASE WriteStart
  BY <1>1 DEF WriteStart
<1>2. CASE writeGate
  BY <1>2 DEF writeGate, WriteReturns
<1>3. CASE Reserve
  BY <1>3 DEF Reserve, WriteReturns, Smaller
<1>4. CASE ReserveWakes
  BY <1>4 DEF ReserveWakes
<1>5. CASE SendData
  BY <1>5 DEF SendData, WriteReturns
<1>6. CASE SendDataLost
  BY <1>6 DEF SendDataLost, WriteReturns, SessionDone
<1>7. CASE ReadStart
  BY <1>7 DEF ReadStart
<1>8. CASE ReadLook
  BY <1>8 DEF ReadLook
<1>9. CASE Consume
  BY <1>9 DEF Consume
<1>10. CASE SendWindow
  BY <1>10 DEF SendWindow, SessionDone
<1>11. CASE SetReadDeadline
  BY <1>11 DEF SetReadDeadline, Broadcast
<1>12. CASE DeadlinePasses
  BY <1>12 DEF DeadlinePasses
<1>13. CASE CloseStart
  BY <1>13 DEF CloseStart, Publish, Broadcast
<1>14. CASE CloseAborts
  BY <1>14 DEF CloseAborts, Abort
<1>15. CASE SendClose
  BY <1>15 DEF SendClose, SessionDone
<1>16. CASE CloseDrops
  BY <1>16 DEF CloseDrops
<1>17. CASE handleFrame
  BY <1>17 DEF handleFrame, Waiting
<1>18. CASE IgnoreFrames
  BY <1>18 DEF IgnoreFrames
<1>19. CASE PumpData
  BY <1>19 DEF PumpData, Broadcast
<1>20. CASE PumpWindow
  BY <1>20 DEF PumpWindow, Grant, Smaller
<1>21. CASE PumpClose
  BY <1>21 DEF PumpClose, Publish, Broadcast
<1>22. CASE PumpAborts
  BY <1>22 DEF PumpAborts, Abort
<1>23. CASE PumpDrops
  BY <1>23 DEF PumpDrops
<1>24. CASE Fail
  BY <1>24 DEF Fail
<1>25. CASE FailCollects
  BY <1>25 DEF FailCollects
<1>26. CASE FailPublishes
  BY <1>26 DEF FailPublishes, Publish, Broadcast
<1>27. CASE FailAborts
  BY <1>27 DEF FailAborts, Abort
<1>28. CASE RelaySends
  BY <1>28 DEF RelaySends
<1>29. CASE RelayReceives
  BY <1>29 DEF RelayReceives
<1>30. CASE RelayGrants
  BY <1>30 DEF RelayGrants
<1>31. CASE RelayCloses
  BY <1>31 DEF RelayCloses
<1>32. CASE UNCHANGED vars
  BY <1>32 DEF vars
<1> HIDE DEF IInv, Typed, Flags, Places
<1>q. QED
  BY <1>1, <1>2, <1>3, <1>4, <1>5, <1>6, <1>7, <1>8, <1>9, <1>10, <1>11, <1>12, <1>13, 
     <1>14, <1>15, <1>16, <1>17, <1>18, <1>19, <1>20, <1>21, <1>22, <1>23, <1>24, 
     <1>25, <1>26, <1>27, <1>28, <1>29, <1>30, <1>31, <1>32
     DEF Next, Write, Read, LocalClose, Pump, Failing, Relay

\* No step leaves a local filled outside its place.
LEMMA HeldStep ==
    ASSUME IInv, [Next]_vars
    PROVE  Held'
<1> USE WindowAssumption DEF IInv, Typed, Amounts, Flags, Places, Held, Frames,
      writerVars, sendVars, readerVars, streamVars, enderVars, wireVars
<1>1. CASE WriteStart
  BY <1>1 DEF WriteStart
<1>2. CASE writeGate
  BY <1>2 DEF writeGate, WriteReturns
<1>3. CASE Reserve
  BY <1>3 DEF Reserve, WriteReturns, Smaller
<1>4. CASE ReserveWakes
  BY <1>4 DEF ReserveWakes
<1>5. CASE SendData
  BY <1>5 DEF SendData, WriteReturns
<1>6. CASE SendDataLost
  BY <1>6 DEF SendDataLost, WriteReturns, SessionDone
<1>7. CASE ReadStart
  BY <1>7 DEF ReadStart
<1>8. CASE ReadLook
  BY <1>8 DEF ReadLook
<1>9. CASE Consume
  BY <1>9 DEF Consume
<1>10. CASE SendWindow
  BY <1>10 DEF SendWindow, SessionDone
<1>11. CASE SetReadDeadline
  BY <1>11 DEF SetReadDeadline, Broadcast
<1>12. CASE DeadlinePasses
  BY <1>12 DEF DeadlinePasses
<1>13. CASE CloseStart
  BY <1>13 DEF CloseStart, Publish, Broadcast
<1>14. CASE CloseAborts
  BY <1>14 DEF CloseAborts, Abort
<1>15. CASE SendClose
  BY <1>15 DEF SendClose, SessionDone
<1>16. CASE CloseDrops
  BY <1>16 DEF CloseDrops
<1>17. CASE handleFrame
  BY <1>17 DEF handleFrame, Waiting
<1>18. CASE IgnoreFrames
  BY <1>18 DEF IgnoreFrames
<1>19. CASE PumpData
  BY <1>19 DEF PumpData, Broadcast
<1>20. CASE PumpWindow
  BY <1>20 DEF PumpWindow, Grant, Smaller
<1>21. CASE PumpClose
  BY <1>21 DEF PumpClose, Publish, Broadcast
<1>22. CASE PumpAborts
  BY <1>22 DEF PumpAborts, Abort
<1>23. CASE PumpDrops
  BY <1>23 DEF PumpDrops
<1>24. CASE Fail
  BY <1>24 DEF Fail
<1>25. CASE FailCollects
  BY <1>25 DEF FailCollects
<1>26. CASE FailPublishes
  BY <1>26 DEF FailPublishes, Publish, Broadcast
<1>27. CASE FailAborts
  BY <1>27 DEF FailAborts, Abort
<1>28. CASE RelaySends
  BY <1>28 DEF RelaySends
<1>29. CASE RelayReceives
  BY <1>29 DEF RelayReceives
<1>30. CASE RelayGrants
  BY <1>30 DEF RelayGrants
<1>31. CASE RelayCloses
  BY <1>31 DEF RelayCloses
<1>32. CASE UNCHANGED vars
  BY <1>32 DEF vars
<1> HIDE DEF IInv, Typed, Amounts, Flags, Places, Held, Frames
<1>q. QED
  BY <1>1, <1>2, <1>3, <1>4, <1>5, <1>6, <1>7, <1>8, <1>9, <1>10, <1>11, <1>12, <1>13, 
     <1>14, <1>15, <1>16, <1>17, <1>18, <1>19, <1>20, <1>21, <1>22, <1>23, <1>24, 
     <1>25, <1>26, <1>27, <1>28, <1>29, <1>30, <1>31, <1>32
     DEF Next, Write, Read, LocalClose, Pump, Failing, Relay

\* Every step moves credit from one place to another, or drops a frame.
LEMMA ConservedStep ==
    ASSUME IInv, [Next]_vars
    PROVE  Conserved'
<1> USE WindowAssumption DEF IInv, Typed, Amounts, Flags, Places, Held, Frames,
      Conserved, UpCredit, DownCredit, Alive, SessionDone, writerVars, sendVars,
      readerVars, streamVars, enderVars, wireVars
<1>1. CASE WriteStart
  BY <1>1 DEF WriteStart
<1>2. CASE writeGate
  BY <1>2 DEF writeGate, WriteReturns
<1>3. CASE Reserve
  BY <1>3 DEF Reserve, WriteReturns, Smaller
<1>4. CASE ReserveWakes
  BY <1>4 DEF ReserveWakes
<1>5. CASE SendData
  BY <1>5 DEF SendData, WriteReturns
<1>6. CASE SendDataLost
  BY <1>6 DEF SendDataLost, WriteReturns, SessionDone
<1>7. CASE ReadStart
  BY <1>7 DEF ReadStart
<1>8. CASE ReadLook
  BY <1>8 DEF ReadLook
<1>9. CASE Consume
  BY <1>9 DEF Consume
<1>10. CASE SendWindow
  BY <1>10 DEF SendWindow, SessionDone
<1>11. CASE SetReadDeadline
  BY <1>11 DEF SetReadDeadline, Broadcast
<1>12. CASE DeadlinePasses
  BY <1>12 DEF DeadlinePasses
<1>13. CASE CloseStart
  BY <1>13 DEF CloseStart, Publish, Broadcast
<1>14. CASE CloseAborts
  BY <1>14 DEF CloseAborts, Abort
<1>15. CASE SendClose
  BY <1>15 DEF SendClose, SessionDone
<1>16. CASE CloseDrops
  BY <1>16 DEF CloseDrops
<1>17. CASE handleFrame
  BY <1>17 DEF handleFrame, Waiting
<1>18. CASE IgnoreFrames
  BY <1>18 DEF IgnoreFrames
<1>19. CASE PumpData
  BY <1>19 DEF PumpData, Broadcast
<1>20. CASE PumpWindow
  BY <1>20 DEF PumpWindow, Grant, Smaller
<1>21. CASE PumpClose
  BY <1>21 DEF PumpClose, Publish, Broadcast
<1>22. CASE PumpAborts
  BY <1>22 DEF PumpAborts, Abort
<1>23. CASE PumpDrops
  BY <1>23 DEF PumpDrops
<1>24. CASE Fail
  BY <1>24 DEF Fail
<1>25. CASE FailCollects
  BY <1>25 DEF FailCollects
<1>26. CASE FailPublishes
  BY <1>26 DEF FailPublishes, Publish, Broadcast
<1>27. CASE FailAborts
  BY <1>27 DEF FailAborts, Abort
<1>28. CASE RelaySends
  BY <1>28 DEF RelaySends
<1>29. CASE RelayReceives
  BY <1>29 DEF RelayReceives
<1>30. CASE RelayGrants
  BY <1>30 DEF RelayGrants
<1>31. CASE RelayCloses
  BY <1>31 DEF RelayCloses
<1>32. CASE UNCHANGED vars
  BY <1>32 DEF vars
<1> HIDE DEF IInv, Typed, Amounts, Flags, Places, Held, Frames, Conserved, UpCredit,
      DownCredit, Alive, SessionDone
<1>q. QED
  BY <1>1, <1>2, <1>3, <1>4, <1>5, <1>6, <1>7, <1>8, <1>9, <1>10, <1>11, <1>12, <1>13, 
     <1>14, <1>15, <1>16, <1>17, <1>18, <1>19, <1>20, <1>21, <1>22, <1>23, <1>24, 
     <1>25, <1>26, <1>27, <1>28, <1>29, <1>30, <1>31, <1>32
     DEF Next, Write, Read, LocalClose, Pump, Failing, Relay

\* The enders keep their order.
LEMMA EndedStep ==
    ASSUME IInv, [Next]_vars
    PROVE  Ended'
<1> USE WindowAssumption DEF IInv, Typed, Flags, Places, Ended, writerVars,
      sendVars, readerVars, streamVars, enderVars, wireVars
<1>1. CASE WriteStart
  BY <1>1 DEF WriteStart
<1>2. CASE writeGate
  BY <1>2 DEF writeGate, WriteReturns
<1>3. CASE Reserve
  BY <1>3 DEF Reserve, WriteReturns, Smaller
<1>4. CASE ReserveWakes
  BY <1>4 DEF ReserveWakes
<1>5. CASE SendData
  BY <1>5 DEF SendData, WriteReturns
<1>6. CASE SendDataLost
  BY <1>6 DEF SendDataLost, WriteReturns, SessionDone
<1>7. CASE ReadStart
  BY <1>7 DEF ReadStart
<1>8. CASE ReadLook
  BY <1>8 DEF ReadLook
<1>9. CASE Consume
  BY <1>9 DEF Consume
<1>10. CASE SendWindow
  BY <1>10 DEF SendWindow, SessionDone
<1>11. CASE SetReadDeadline
  BY <1>11 DEF SetReadDeadline, Broadcast
<1>12. CASE DeadlinePasses
  BY <1>12 DEF DeadlinePasses
<1>13. CASE CloseStart
  BY <1>13 DEF CloseStart, Publish, Broadcast
<1>14. CASE CloseAborts
  BY <1>14 DEF CloseAborts, Abort
<1>15. CASE SendClose
  BY <1>15 DEF SendClose, SessionDone
<1>16. CASE CloseDrops
  BY <1>16 DEF CloseDrops
<1>17. CASE handleFrame
  BY <1>17 DEF handleFrame, Waiting
<1>18. CASE IgnoreFrames
  BY <1>18 DEF IgnoreFrames
<1>19. CASE PumpData
  BY <1>19 DEF PumpData, Broadcast
<1>20. CASE PumpWindow
  BY <1>20 DEF PumpWindow, Grant, Smaller
<1>21. CASE PumpClose
  BY <1>21 DEF PumpClose, Publish, Broadcast
<1>22. CASE PumpAborts
  BY <1>22 DEF PumpAborts, Abort
<1>23. CASE PumpDrops
  BY <1>23 DEF PumpDrops
<1>24. CASE Fail
  BY <1>24 DEF Fail
<1>25. CASE FailCollects
  BY <1>25 DEF FailCollects
<1>26. CASE FailPublishes
  BY <1>26 DEF FailPublishes, Publish, Broadcast
<1>27. CASE FailAborts
  BY <1>27 DEF FailAborts, Abort
<1>28. CASE RelaySends
  BY <1>28 DEF RelaySends
<1>29. CASE RelayReceives
  BY <1>29 DEF RelayReceives
<1>30. CASE RelayGrants
  BY <1>30 DEF RelayGrants
<1>31. CASE RelayCloses
  BY <1>31 DEF RelayCloses
<1>32. CASE UNCHANGED vars
  BY <1>32 DEF vars
<1> HIDE DEF IInv, Typed, Flags, Places, Ended
<1>q. QED
  BY <1>1, <1>2, <1>3, <1>4, <1>5, <1>6, <1>7, <1>8, <1>9, <1>10, <1>11, <1>12, <1>13, 
     <1>14, <1>15, <1>16, <1>17, <1>18, <1>19, <1>20, <1>21, <1>22, <1>23, <1>24, 
     <1>25, <1>26, <1>27, <1>28, <1>29, <1>30, <1>31, <1>32
     DEF Next, Write, Read, LocalClose, Pump, Failing, Relay

-----------------------------------------------------------------------------
\* The invariant yields the properties the runs check.
LEMMA Consequences ==
    ASSUME IInv
    PROVE  TypeOK /\ UploadCredit /\ DownloadCredit /\ NoStall
           /\ LateWriteRefused /\ NobodyForgotten
<1>1. UploadCredit /\ DownloadCredit
  BY DEF IInv, Conserved, UpCredit, DownCredit, UploadCredit, DownloadCredit
<1>2. NoStall
  <2> SUFFICES ASSUME Alive, down.data + buf + took + delta + up.grant = 0
               PROVE  relay.credit > 0
    BY DEF NoStall
  <2>1. DownCredit = Window /\ ungranted < Refill
    BY DEF IInv, Conserved, Held
  <2>2. /\ relay.credit \in Nat /\ down.data \in Nat /\ up.grant \in Nat
        /\ buf \in Nat /\ took \in Nat /\ ungranted \in Nat /\ delta \in Nat
    BY DEF IInv, Typed, Amounts, Frames
  <2> QED
    BY <2>1, <2>2, WindowAssumption DEF DownCredit
<1>3. LateWriteRefused /\ NobodyForgotten
  BY DEF IInv, Typed, Flags, Places, Ended, LateWriteRefused, NobodyForgotten
<1>4. TypeOK
  <2>1. /\ available \in 0..MaxCredit /\ ungranted \in 0..Window /\ buf \in 0..Window
        /\ took \in 0..Window /\ delta \in 0..Window
    BY WindowAssumption
       DEF IInv, Typed, Amounts, Frames, Conserved, UpCredit, DownCredit
  <2>2. /\ up.data \in 0..Window /\ up.grant \in 0..Window
        /\ down.data \in 0..Window /\ down.grant \in 0..Window
        /\ relay.credit \in 0..Window /\ relay.held \in 0..Window
    BY WindowAssumption
       DEF IInv, Typed, Amounts, Frames, Conserved, UpCredit, DownCredit
  <2>3. up \in Wire /\ down \in Wire
        /\ relay \in [credit : 0..Window, held : 0..Window, closed : BOOLEAN]
    BY <2>2 DEF IInv, Typed, Amounts, Frames, Wire
  <2> QED
    BY <2>1, <2>3 DEF IInv, Typed, Amounts, Flags, Places, TypeOK
<1> QED
  BY <1>1, <1>2, <1>3, <1>4

\* A new stream satisfies the invariant.
LEMMA InitInv == Init => IInv
<1> SUFFICES ASSUME Init PROVE IInv
  OBVIOUS
<1>1. Typed
  <2>1. Amounts
    BY WindowAssumption DEF Init, Amounts, Frames
  <2>2. Flags
    BY DEF Init, Flags
  <2>3. Places
    BY DEF Init, Places
  <2> QED
    BY <2>1, <2>2, <2>3 DEF Typed
<1>2. Held /\ Ended
  BY WindowAssumption DEF Init, Held, Ended
<1>3. Conserved
  BY WindowAssumption DEF Init, Conserved, UpCredit, DownCredit
<1> QED
  BY <1>1, <1>2, <1>3 DEF IInv

\* The strengthened invariant holds throughout.
THEOREM Invariance == Spec => []IInv
<1>1. IInv /\ [Next]_vars => IInv'
  BY AmountsStep, FlagsStep, PlacesStep, HeldStep, ConservedStep, EndedStep DEF IInv, Typed
<1> QED
  BY InitInv, <1>1, PTL DEF Spec

\* Fields and locals keep their types, and no counter exceeds the window.
THEOREM TypeCorrect == Spec => []TypeOK
<1>1. IInv => TypeOK
  BY Consequences
<1> QED
  BY Invariance, <1>1, PTL

\* Credit for the client's bytes is neither lost nor invented while the session
\* knows the stream (window.go:35-88).
THEOREM UploadIsBalanced == Spec => []UploadCredit
<1>1. IInv => UploadCredit
  BY Consequences
<1> QED
  BY Invariance, <1>1, PTL

\* Nor is credit for the relay's bytes (window.go:113-145).
THEOREM DownloadIsBalanced == Spec => []DownloadCredit
<1>1. IInv => DownloadCredit
  BY Consequences
<1> QED
  BY Invariance, <1>1, PTL

\* The relay is never left without credit for good (window.go:126-145).
THEOREM RelayCanSend == Spec => []NoStall
<1>1. IInv => NoStall
  BY Consequences
<1> QED
  BY Invariance, <1>1, PTL

\* No Write that begins after the end gets past the gate (session.go:614-631).
THEOREM LateWritesAreRefused == Spec => []LateWriteRefused
<1>1. IInv => LateWriteRefused
  BY Consequences
<1> QED
  BY Invariance, <1>1, PTL

\* A forgotten stream has no waiting reader and no writer that nobody wakes
\* (session.go:445-471, 557-570).
THEOREM EndersTellBothSides == Spec => []NobodyForgotten
<1>1. IInv => NobodyForgotten
  BY Consequences
<1> QED
  BY Invariance, <1>1, PTL
=============================================================================
