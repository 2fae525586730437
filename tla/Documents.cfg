\* Any few settings, owned by the CLI or by others, and lists.
CONSTANTS
    Absent = Absent
    Repos = {"repo1"}
    OptionLists = {"options"}
    Times = {0}
    Objects <- MCObjects
    Managed <- MCManaged
    Requests <- MCRequests
    Names <- MCNames
    MaxDepth = 5
    MaxGone = 1
\* A command ends.
CHECK_DEADLOCK FALSE
SPECIFICATION Spec
INVARIANTS IntentsAgree OnlyWhatIsManaged ListsFollowTheirKeys
