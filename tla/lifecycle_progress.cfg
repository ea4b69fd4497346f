SPECIFICATION FairSpec
CONSTANTS
    Member = {m1}
    AreaMember = {m1}
    Initiative = {i1, i2}
    Session = {s1}
    Null = Null
    MinAdmissionTime = 0
    MaxAdmissionTime = 1
    DiscussionTime = 1
    VerificationTime = 1
    VotingTime = 1
    IssueQuorumNum = 1
    IssueQuorumDen = 2
    InitiativeQuorumNum = 1
    InitiativeQuorumDen = 2
    PollingFlags = {FALSE}
    FrontendOps <- QuietOps
    SectionConflicts = TRUE
    MaxClock = 4
    MaxCrashes = 2
PROPERTIES
    PhasesEndUnlessKilled
    VotingEnds
\* The issue may stay as it is: closed, or with the clock at its bound.
CHECK_DEADLOCK FALSE
