SPECIFICATION Spec
CONSTANTS
    Jobs <- MCJobs
    Second = 7
    TimeLimit = 10
    Total = 25
    Allowance = 4
    Watchdog = 8
    Patience = 20
    Startups = {0, 14, 30}
INVARIANTS
    OutputsJudgedRight
    TotalTimeBounded
    BlameHasCause
CHECK_DEADLOCK FALSE
