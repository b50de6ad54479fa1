CONSTANTS
    MaxDeltas = 4
    QueueSize = 1
    Chunks <- SentChunks
    Surfaces = {"generate", "sse", "json"}
    JournalMayFail = TRUE
SPECIFICATION Spec
INVARIANTS
    TypeOK
    SentInOrder
    OnePlacedEvent
    AnswerMatchesRecord
PROPERTIES
    ImplementsRelay
    CancelEnds
    DisconnectReleases
