SPECIFICATION Spec
CONSTANTS
    Steps = 4
    Files <- MCFiles
INVARIANTS TypeOK AllMatched OneNamePerEntry EndsAtBase Grounded FirstWritten TouchpointsCount AssignmentsLead
CHECK_DEADLOCK FALSE
