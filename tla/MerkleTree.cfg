SPECIFICATION Spec
CONSTANTS
    c1 = c1
    c2 = c2
    Commitment = {c1, c2}
    ZERO = ZERO
    Hash <- MCHash
    DEPTH = 3
    Width <- MCWidth
    MaxLeaves = 8
    Claim <- MCClaim
INVARIANTS
    RootIsTheLists
    ListedCanProve
    OnlyListedProve
