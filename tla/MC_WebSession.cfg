CONSTANTS
    Modes = {"websocket", "https", "websocket-lanes", "https-lanes"}
    MaxSessions = 1
    MaxStreamID = 2
SPECIFICATION Spec
INVARIANTS TypeOK EveryStreamTold DroppedKnowsItsEnd OneLiveSession
