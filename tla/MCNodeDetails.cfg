SPECIFICATION Spec
CONSTANTS
    Nodes <- MCNodes
    NameOf <- MCNameOf
    Quantities <- MCQuantities
    LastDate = 5
    FirstDays <- MCFirstDays
    HistoryLimit = 3
    DiskFaults = TRUE
    None = None
    Answers <- MCAnswers
    Rankings <- MCRankings
    ClockSkew = TRUE
INVARIANTS TypeOK FailuresAreGaps FiguresNeverWrong FiguresComplete
PROPERTIES RankingsKept ImplementsDailyHistory
CHECK_DEADLOCK FALSE
