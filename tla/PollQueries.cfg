SPECIFICATION PollQueriesSpec
CONSTANTS
    s1 = s1
    s2 = s2
    tBoth = tBoth
    Secret = {s1, s2}
    Tree = {tBoth}
    Members <- MCMembers
    MaxPolls = 2
    MaxOptions = 2
    MaxWrap = 0
    Account = {a1}
    NoAddress = NoAddress
    NoRoot = NoRoot
    MaxTime = 2
    NoClock = NoClock
VIEW WithoutHandover
SYMMETRY VoterSymmetry
INVARIANTS
    EndedTallyIsExact
    TornTallyIsBracketed
    AcceptingIsHonest
    ListedHasItsQuestion
CHECK_DEADLOCK FALSE
