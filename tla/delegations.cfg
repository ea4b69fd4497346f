SPECIFICATION Spec
CONSTANTS
    Member = {m1, m2, m3}
    Tables <- AreaGraphs
    Null = Null
    MaxChanges = 1
SYMMETRY Symmetry
INVARIANTS
    TypeOK
    VotesFollowDelegations
    CountsAreBounded
