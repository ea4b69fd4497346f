SPECIFICATION FairSpec
CONSTANTS
    Voter = {v1, v2}
    Dim = 5
    Ballot <- Approvals
    Policy <- Variants
    Null = Null
INVARIANTS
    RankingComputes
    RankingIsSchulze
PROPERTIES
    TiesAreBroken
\* A vote that has its result is done.
CHECK_DEADLOCK FALSE
