SPECIFICATION Spec
CONSTANT Interviews <- MCInterviews
INVARIANTS
    NeverRepeats
    OneResumeQuestion
PROPERTY RevisitsWeakTopic
CHECK_DEADLOCK FALSE
