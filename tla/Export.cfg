\* Every gatherer of RunE, two of everything.
CONSTANTS
    Many = 2
    NumLogs = 2
    Window = 1
    Limit = 40
\* The command ends.
CHECK_DEADLOCK FALSE
SPECIFICATION Spec
INVARIANTS TypeOK EveryPartHasItsTurn SuccessMeansAllWritten LogTellsAll
PROPERTIES LogsWalk EveryAnswerCounts
