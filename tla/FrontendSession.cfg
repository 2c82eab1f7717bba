SPECIFICATION Spec
CONSTANTS
    owner = owner
    voter = voter
    p1 = p1
    p2 = p2
    Account = {owner, voter}
    Owner = owner
    Poll = {p1, p2}
    NoOne = NoOne
    Task = {t1, t2}
    MaxClicks = 5
    MaxConnects = 2
INVARIANTS
    BusyHasItsTask
    SentAsClicked
    KeyStaysWithItsAccount
    PanelIsTheOwners
PROPERTY
    VoteEnds
CHECK_DEADLOCK FALSE
