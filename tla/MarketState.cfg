SPECIFICATION Spec
CONSTANTS
    N = 2
    MaxLots = 1
    I64Max = 3
    ActiveCount = 2
    Borrowed = {1}
    Inputs <- MCInputs
INVARIANTS
    TypeOK
    CacheCoherent
    SeenCurrent
    TobFaithful
PROPERTY
    SnapshotSilent
