\* The size that is reported is not that of the file.
CONSTANTS
    Many = 2
    NumLogs = 2
    Window = 1
    Limit = 40
\* The command ends.
CHECK_DEADLOCK FALSE
SPECIFICATION Spec
INVARIANTS SizeIsReported
