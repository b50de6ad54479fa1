CONSTANTS
    r1 = r1
    r2 = r2
    r3 = r3
    p1 = p1
    p2 = p2
    NoRun = NoRun
    RunIds = {r1, r2, r3}
    Providers = {p1, p2}
    Outcomes = {"succeeded", "failed"}
    HistoryLimit = 1
    HasJournal = TRUE
    JournalMayFail = FALSE
SYMMETRY Symmetry
SPECIFICATION Spec
INVARIANTS
    TypeOK
    LoadIsServedOrAbandoned
    RunningIsServedOrAbandoned
    LiveRunsCanBeCancelled
    JournalNeverAhead
PROPERTIES
    TrimKeepsTheNewest
    AnswersAreFinal
    ImplementsLedger
