SPECIFICATION Spec
CONSTANT Problems <- MCProblems
INVARIANT ReferencesRight
CHECK_DEADLOCK FALSE
