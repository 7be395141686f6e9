CONSTANTS
    Window = 2
    Refill = 2
    Chunk = 2
    MaxCredit = 2
    WriteSize = 3
SPECIFICATION Spec
INVARIANTS TypeOK UploadCredit DownloadCredit NoStall LateWriteRefused NobodyForgotten
