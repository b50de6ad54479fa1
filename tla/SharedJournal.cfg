CONSTANTS
    r1 = r1
    r2 = r2
    p1 = p1
    NoRun = NoRun
    RunIds = {r1, r2}
    Providers = {p1}
    Outcomes = {"succeeded", "failed"}
    HistoryLimit = 0
    JournalMayFail = TRUE
SPECIFICATION Spec
INVARIANTS
    TruthWins
    EachCancelsItsOwn
    EachCountsItsOwn
PROPERTIES
    RowsMoveForward
    OneOutcome
