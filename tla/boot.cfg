CONSTANTS
    s1 = s1
    s2 = s2
    o1 = o1
    o2 = o2
    Syncs <- OneSync
    Operators <- TwoOperators
    MaxBuilds = 1
    Kernels <- StableAndGit
    Rebuilt <- StableRecoveryGit
    MaxEntries = 9
SPECIFICATION Spec
INVARIANTS BackupSigned  Settled
CHECK_DEADLOCK FALSE
SYMMETRY Symmetric
