\* ARM64: a plain store may become visible before an earlier Release store.
SPECIFICATION LockSpec
CONSTANTS
    Readers = {r1}
    Words = {1, 2}
    Ordered = FALSE
    SeqMod = 8
    MaxStores = 2
INVARIANT
    NoTornRead
