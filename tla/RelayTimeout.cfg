SPECIFICATION RelaySpec
CONSTANTS
    s1 = s1
    t1 = t1
    r1 = r1
    r2 = r2
    Secret = {s1}
    Tree = {t1}
    Members <- MCMembers
    MaxPolls = 1
    MaxOptions = 2
    MaxWrap = 0
    Account = {a1}
    NoAddress = NoAddress
    NoRoot = NoRoot
    MaxTime = 2
    Request = {r1, r2}
    Body <- MCBody
    AdminAddress = a1
    Fee = {1}
    max_fee_per_gas_wei = 1
INVARIANTS
    NothingWasSubmitted
CHECK_DEADLOCK FALSE
