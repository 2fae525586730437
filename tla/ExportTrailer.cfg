\* The tar is closed after the stream it is written to.
CONSTANTS
    Many = 2
    NumLogs = 0
    Window = 1
    Limit = 40
\* The command ends.
CHECK_DEADLOCK FALSE
SPECIFICATION Spec
INVARIANTS ArchiveHasAnEnd
