SPECIFICATION Spec
CONSTANTS
    a1 = a1
    a2 = a2
    Account = {a1, a2}
    NoAccount = NoAccount
    Task = {t1, t2}
    Backup <- MCBackup
    MaxFailures = 1
SYMMETRY TaskSymmetry
INVARIANTS
    SecretsStayWithTheirAccount
    OriginIsHonest
    UnsavedIsWarned
PROPERTY
    RandomIsKept
