CONSTANTS
    MaxDeltas = 1
    QueueSize = 1
    Chunks <- SentChunks
    Surfaces = {"generate", "sse", "json"}
    JournalMayFail = FALSE
SPECIFICATION Spec
INVARIANTS
    EveryRunIsPlaced
