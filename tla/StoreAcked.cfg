SPECIFICATION Spec
CONSTANTS
    c1 = c1
    c2 = c2
    c3 = c3
    here = here
    there = there
    Commitment = {c1, c2}
    SourceOf <- MCSourceOf2
    Tab = {t1}
    RequireApproval = TRUE
    MaxPerSource = 1
    MaxPending = 2
    Inode = {i1, i2}
    NoInode = NoInode
    LateOps = FALSE
    MaxFaults = 0
    MaxCrashes = 0
SYMMETRY InodeSymmetry
INVARIANT
    AckedIsOnDisk
