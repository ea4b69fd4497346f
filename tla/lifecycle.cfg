SPECIFICATION MCSpec
CONSTANTS
    Member = {m1, m2}
    AreaMember = {m1}
    Initiative = {i1, i2}
    Session = {s1, s2}
    Null = Null
    MinAdmissionTime = 0
    MaxAdmissionTime = 1
    DiscussionTime = 1
    VerificationTime = 1
    VotingTime = 1
    IssueQuorumNum = 1
    IssueQuorumDen = 2
    InitiativeQuorumNum = 1
    InitiativeQuorumDen = 2
    PollingFlags = {FALSE, TRUE}
    FrontendOps <- AnyOps
    SectionConflicts = TRUE
    MaxClock = 3
    MaxCrashes = 1
SYMMETRY ScenarioSymmetry
INVARIANTS
    RowsAllowed
    EveryCallHasASection
    VotingIsPrepared
    NoPhaseCutShort
    VoteReflectsInterest
    NoBallotAfterCount
PROPERTIES
    FreezeRules
    PastSnapshotsStay
    ImplementsProcedure
\* The issue may stay as it is: closed, or with the clock at its bound.
CHECK_DEADLOCK FALSE
