SPECIFICATION Spec
CONSTANTS
    Absent = Absent
    Blank = Blank
    HasExtension = TRUE
    Elements <- MCElements
    Values <- MCValues
INVARIANTS MarkupEnforced RulesAgree
CHECK_DEADLOCK FALSE
