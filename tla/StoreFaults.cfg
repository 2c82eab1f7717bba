SPECIFICATION Spec
CONSTANTS
    c1 = c1
    c2 = c2
    c3 = c3
    here = here
    there = there
    Commitment = {c1, c2}
    SourceOf <- MCSourceOf2
    Tab = {t1}
    RequireApproval = TRUE
    MaxPerSource = 1
    MaxPending = 2
    Inode = {i1, i2, i3}
    NoInode = NoInode
    LateOps = FALSE
    MaxFaults = 1
    MaxCrashes = 2
SYMMETRY InodeSymmetry
INVARIANTS
    FileIsWhole
    NoUnexplainedLoss
PROPERTY
    OnlyApprovedEnter
