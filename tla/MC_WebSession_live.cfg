CONSTANTS
    Modes = {"websocket", "https", "websocket-lanes", "https-lanes"}
    MaxSessions = 1
    MaxStreamID = 1
SPECIFICATION FairSpec
PROPERTIES CarrierReleased AcquireReturns
