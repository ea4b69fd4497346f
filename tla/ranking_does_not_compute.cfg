SPECIFICATION Spec
CONSTANTS
  Voter = {v1, v2}
  Dim = 3
  Ballot <- AllBallots
  Policy <- SimpleTieBreaking
  Null = Null
SYMMETRY Symmetry
INVARIANTS
  RankingComputes
CHECK_DEADLOCK FALSE
