SPECIFICATION PanelSpec
CONSTANTS
    c1 = c1
    c2 = c2
    k1 = k1
    here = here
    Commitment = {c1, c2}
    SourceOf <- MCSourceOf
    Tab = {t1}
    RequireApproval = TRUE
    MaxPerSource = 1
    MaxPending = 2
    Inode = {i1, i2}
    NoInode = NoInode
    LateOps = FALSE
    MaxFaults = 1
    MaxCrashes = 1
    Environment <- MCEnvironment
    Blank = Blank
    Malformed = Malformed
    Refused = Refused
    Unlimited = Unlimited
    NoCode = NoCode
    Unloaded = Unloaded
    NoTab = NoTab
INVARIANTS
    CodeBudgetHolds
    ReviewedBeforeApproved
    SourceCapHolds
    FormRootHasItsList
VIEW WithoutHistory
SYMMETRY InodeSymmetry
CHECK_DEADLOCK FALSE
