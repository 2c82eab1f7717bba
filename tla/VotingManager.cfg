SPECIFICATION Spec
CONSTANTS
    s1 = s1
    s2 = s2
    tBoth = tBoth
    tOne = tOne
    Secret = {s1, s2}
    Tree = {tBoth, tOne}
    Members <- MCMembers
    MaxPolls = 2
    MaxOptions = 2
    MaxWrap = 1
    Account = {a1, a2}
    NoAddress = NoAddress
    NoRoot = NoRoot
    MaxTime = 2
SYMMETRY AccountSymmetry
INVARIANTS
    TallyIsTheBallots
    OneBallotPerSecret
    OnlyMembersCounted
    NoEarlyResult
    ProposalIsTheOwners
PROPERTIES
    PollsAreFinal
    ImplementsBallotBox
CHECK_DEADLOCK FALSE
