SPECIFICATION Spec
CONSTANTS
    Voter = {v1, v2, v3}
    Dim = 4
    Ballot <- Grades
    Policy <- Restrictions
    Null = Null
SYMMETRY Symmetry
INVARIANTS
    TypeOK
    DominantSetFirst
    PathsAreFound
    ResultRowsAllowed
    WinnerBeatsStatusQuo
\* A vote that has its result is done.
CHECK_DEADLOCK FALSE
