\* A user at a terminal, or a pipe; one line more than there are attempts.
CONSTANTS
    Attempts = 3
    MaxLines = 4
\* The command leaves the question when it has its answer.
CHECK_DEADLOCK FALSE
SPECIFICATION FairSpec
INVARIANTS TypeOK FirstWordCounts SilenceIsNoAnswer ConsentIsTyped
PROPERTIES EndOfInputEnds
