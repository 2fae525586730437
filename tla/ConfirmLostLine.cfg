\* An answer that arrives in a pipe together with the line before it is lost.
CONSTANTS
    Attempts = 3
    MaxLines = 4
CHECK_DEADLOCK FALSE
SPECIFICATION Spec
INVARIANTS FirstAnswerDecides
